------------------------------- MODULE MC_Kit -------------------------------
(***************************************************************************)
(* The kit libraries side by side: a handler using kit/errors and         *)
(* kit/data (ErrorCodec) and a caller of utils/convert (Convert) take     *)
(* their steps in any interleaving.  Neither reads the other's state, so  *)
(* the run checks each library's properties over every input of the      *)
(* other.                                                                  *)
(*                                                                         *)
(* ErrorCodec with a negative, a zero, a positive and a constructor code, *)
(* an empty and a non-empty detail, and plain errors that are words or    *)
(* JSON.  Convert at a 16-bit int64: every integer kind at its edges and  *)
(* around zero, floats on both sides of the int64 range and between       *)
(* integers, numerals in and out of range, and words.                     *)
(***************************************************************************)
EXTENDS ErrorCodec, Convert

MCCodes == {-1, 0, 1001}
MCDetails == {"", "not found"}
MCWords == {"EOF", ""}

MCIntBits == 16

MCDec(v)  == [kind |-> "dec", num |-> v, word |-> ""]
MCHalf(v) == [kind |-> "half", num |-> v, word |-> ""]
MCWord(w) == [kind |-> "word", num |-> 0, word |-> w]

MCEdges(k) ==
    LET lo == IF k \in Signed THEN MinOf(Width(k)) ELSE 0
        hi == IF k \in Signed THEN MaxOf(Width(k)) ELSE 2 ^ Width(k) - 1
    IN  {v \in {lo, lo + 1, -1, 0, 1, hi - 1, hi} : lo <= v /\ v <= hi}

MCTexts ==
    {MCDec(v) : v \in {MinOf(IntBits) - 1, MinOf(IntBits), -7, 0, 7, MaxOf(IntBits),
                       MaxOf(IntBits) + 1}}
    \cup {MCHalf(v) : v \in {-5, 5}} \cup {MCWord(w) : w \in {"true", "yes"}}

MCInputs ==
    UNION {{[k |-> kd, n |-> v, s |-> MCDec(0)] : v \in MCEdges(kd)} : kd \in IntKinds}
    \cup {[k |-> kd, n |-> v, s |-> MCDec(0)] :
            kd \in {"float32", "float64"},
            v \in {2 * MinOf(IntBits) - 2, 2 * MinOf(IntBits), -5, -4, -1, 0, 1, 4, 5,
                   2 * MaxOf(IntBits) + 1, 2 * MaxOf(IntBits) + 2}}
    \cup {[k |-> kd, n |-> 0, s |-> t] : kd \in {"string", "bytes"}, t \in MCTexts}
    \cup {[k |-> "bool", n |-> v, s |-> MCDec(0)] : v \in {0, 1}}

KitInit == Init /\ CallerInit

KitNext == \/ Next /\ UNCHANGED <<x, conv, out>>
           \/ CallerNext /\ UNCHANGED <<err, fromErr, resp>>

KitSpec == KitInit /\ [][KitNext]_<<err, fromErr, resp, x, conv, out>>
=============================================================================
