------------------------------ MODULE Convert -------------------------------
(***************************************************************************)
(* The conversions of src/utils/convert and the environment getters of     *)
(* src/kit/runenv built on them.  Each converter is a type switch over an *)
(* interface{} value; a kind the switch does not name falls through to    *)
(* the zero value.                                                         *)
(*                                                                         *)
(* A value is a record: its dynamic kind k, an integer n (the value of an *)
(* integer kind, the value of a float in halves, 0 or 1 for a bool) and,  *)
(* for a string or a []uint8, its text s.  A text is the decimal numeral  *)
(* of an integer ("dec"), the numeral of an odd number of halves such as  *)
(* "2.5" ("half"), or some other word.                                     *)
(*                                                                         *)
(* Widths are scaled: IntBits is the width of int, int64, uint and uint64 *)
(* (64 on the amd64 build) and the other kinds keep their ratio to it.    *)
(* Every conversion is stated by its effect on the bits, so the wrap and  *)
(* clamp edges are the same at every scale.                               *)
(*                                                                         *)
(* The module also gives the view of one caller: it holds a value, calls  *)
(* one converter on it and gets the result.                               *)
(***************************************************************************)
EXTENDS Integers

CONSTANTS
    IntBits,    \* width of int64 (and of int, uint, uint64) in the model
    Inputs      \* the values callers pass

(* The width is a positive number of bits.  The second assumption is a    *)
(* fact of arithmetic that the provers cannot derive for a symbolic       *)
(* width, since they do not unfold ^; TLC evaluates it on every run.     *)
ASSUME IntBitsAssumption == IntBits \in Nat \ {0}
ASSUME PowerAssumption == 2 ^ (IntBits - 1) \in Nat \ {0} /\ 2 ^ IntBits = 2 * 2 ^ (IntBits - 1)

Signed   == {"int", "int8", "int16", "int32", "int64"}
Unsigned == {"uint", "uint8", "uint16", "uint32", "uint64"}
IntKinds == Signed \cup Unsigned
Kinds    == IntKinds \cup {"float32", "float64", "string", "bytes", "bool"}

Width(k) ==
    CASE k \in {"int8", "uint8"}   -> IntBits \div 8
      [] k \in {"int16", "uint16"} -> IntBits \div 4
      [] k \in {"int32", "uint32"} -> IntBits \div 2
      [] OTHER                     -> IntBits

MinOf(w) == -(2 ^ (w - 1))
MaxOf(w) == 2 ^ (w - 1) - 1

(* The values of an integer kind.                                         *)
KindRange(k) == IF k \in Signed THEN MinOf(Width(k)) .. MaxOf(Width(k))
                ELSE 0 .. 2 ^ Width(k) - 1

Text == [kind : {"dec", "half", "word"}, num : Int, word : STRING]

Value == [k : Kinds, n : Int, s : Text]

(* The values a caller may pass: each integer within the range of its    *)
(* kind.                                                                   *)
WellFormed(v) == v \in Value /\ (v.k \in IntKinds => v.n \in KindRange(v.k))

ASSUME InputsAssumption == \A v \in Inputs : WellFormed(v)

(* A Go integer conversion to a signed type of width w: the low w bits,   *)
(* read in two's complement.                                              *)
Wrap(x, w) == LET m == x % (2 ^ w) IN IF m > MaxOf(w) THEN m - 2 ^ w ELSE m

(* strconv.ParseInt(s, 10, w) with its error dropped: a numeral out of    *)
(* range gives the extreme value of its sign, any other text 0.           *)
ParseInt(s, w) ==
    IF s.kind # "dec" THEN 0
    ELSE IF s.num > MaxOf(w) THEN MaxOf(w)
    ELSE IF s.num < MinOf(w) THEN MinOf(w)
    ELSE s.num

(* strconv.ParseFloat(s, 64) with its error dropped, in halves.           *)
ParseFloat(s) ==
    CASE s.kind = "dec"  -> 2 * s.num
      [] s.kind = "half" -> s.num
      [] OTHER           -> 0

(* A float64 of h halves converted to int64: truncation toward zero; out  *)
(* of range, amd64's CVTTSD2SI gives the minimum int64.                   *)
FloatToInt(h) ==
    LET t == IF h >= 0 THEN h \div 2 ELSE -((-h) \div 2) IN
    IF t \in MinOf(IntBits) .. MaxOf(IntBits) THEN t ELSE MinOf(IntBits)

(* Mutant: the float case rounds down instead of toward zero.             *)
ToInt64Floor(x) ==
    CASE x.k \in {"string", "bytes"} -> ParseInt(x.s, IntBits)
      [] x.k \in IntKinds            -> Wrap(x.n, IntBits)
      [] x.k = "float64"             -> x.n \div 2
      [] OTHER                       -> 0

(* ToInt64: no case for float32 or bool.                                  *)
ToInt64(x) ==
    CASE x.k \in {"string", "bytes"} -> ParseInt(x.s, IntBits)
      [] x.k \in IntKinds            -> Wrap(x.n, IntBits)
      [] x.k = "float64"             -> FloatToInt(x.n)
      [] OTHER                       -> 0

(* ToInt: the same cases; Atoi parses at the width of int.                *)
ToInt(x) ==
    CASE x.k \in {"string", "bytes"} -> ParseInt(x.s, IntBits)
      [] x.k \in IntKinds            -> Wrap(x.n, IntBits)
      [] x.k = "float64"             -> FloatToInt(x.n)
      [] OTHER                       -> 0

(* Mutant: ToString formats floats with Itoa(int(t)) as well.            *)
ToStringTruncFloat(x) ==
    CASE x.k \in {"string", "bytes"} -> x.s
      [] x.k \in IntKinds  -> [kind |-> "dec", num |-> Wrap(x.n, IntBits), word |-> ""]
      [] x.k \in {"float32", "float64"} ->
            [kind |-> "dec", num |-> FloatToInt(x.n), word |-> ""]
      [] OTHER -> [kind |-> "word", num |-> 0, word |-> ""]

(* ToString: Itoa(int(t)) for every integer kind, "%v" for floats (an     *)
(* integral float prints without a point), the bytes as they are; a bool *)
(* has no case and gives "".                                               *)
ToString(x) ==
    CASE x.k \in {"string", "bytes"} -> x.s
      [] x.k \in IntKinds  -> [kind |-> "dec", num |-> Wrap(x.n, IntBits), word |-> ""]
      [] x.k \in {"float32", "float64"} ->
            IF x.n % 2 = 0 THEN [kind |-> "dec", num |-> x.n \div 2, word |-> ""]
            ELSE [kind |-> "half", num |-> x.n, word |-> ""]
      [] OTHER -> [kind |-> "word", num |-> 0, word |-> ""]

(* ToFloat64, in halves: the signed kinds through ToInt64; no case for    *)
(* the unsigned kinds or bool.                                             *)
ToFloat64(x) ==
    CASE x.k \in {"float32", "float64"} -> x.n
      [] x.k \in {"string", "bytes"}    -> ParseFloat(x.s)
      [] x.k \in Signed                 -> 2 * ToInt64(x)
      [] OTHER                          -> 0

(* ToBool: strings.ToLower(t) == "true"; a signed integer above zero; a   *)
(* bool itself; nothing else.                                              *)
ToBool(x) ==
    CASE x.k = "string" -> x.s.kind = "word" /\ x.s.word \in {"true", "True", "TRUE"}
      [] x.k \in Signed -> ToInt64(x) > 0
      [] x.k = "bool"   -> x.n = 1
      [] OTHER          -> FALSE

(***************************************************************************)
(* StringMapConvert and SliceInterfaceConvert, on one element, for the   *)
(* element kind of the target type: string and bool elements are taken   *)
(* with a type assertion, which panics on any other kind; int, int64 and  *)
(* float64 go through the converters; any other target keeps the value.  *)
(***************************************************************************)
ElementConvert(v, target) ==
    CASE target = "String"  -> IF v.k = "string" THEN v.s ELSE "panic"
      [] target = "Bool"    -> IF v.k = "bool" THEN v.n = 1 ELSE "panic"
      [] target = "Int"     -> ToInt(v)
      [] target = "Int64"   -> ToInt64(v)
      [] target = "Float64" -> ToFloat64(v)
      [] OTHER              -> v

Targets == {"String", "Bool", "Int", "Int64", "Float64", "Struct"}

-----------------------------------------------------------------------------
(* One caller: holds a value, calls a converter, reads the result.        *)

VARIABLES x, conv, out

callVars == <<x, conv, out>>

CallerInit == x \in Inputs /\ conv = "none" /\ out = 0

Call(c, r) == conv = "none" /\ conv' = c /\ out' = r /\ UNCHANGED x

CallToInt64   == Call("ToInt64", ToInt64(x))
CallToInt     == Call("ToInt", ToInt(x))
CallToString  == Call("ToString", ToString(x))
CallToFloat64 == Call("ToFloat64", ToFloat64(x))
CallToBool    == Call("ToBool", ToBool(x))
CallElement   == \E t \in Targets : Call(t, ElementConvert(x, t))

CallerNext == CallToInt64 \/ CallToInt \/ CallToString \/ CallToFloat64 \/ CallToBool
        \/ CallElement

CallerSpec == CallerInit /\ [][CallerNext]_callVars

-----------------------------------------------------------------------------
(* Reference definitions, from the Go specification rather than the code. *)

(* The number x denotes, in halves, for the kinds that denote one (one   *)
(* arm per kind, so that the arms exclude each other).                   *)
Halves(v) ==
    CASE v.k \in IntKinds -> 2 * v.n
      [] v.k \in {"float32", "float64"} -> v.n
      [] v.k \in {"string", "bytes"} ->
            IF v.s.kind = "dec" THEN 2 * v.s.num ELSE v.s.num
      [] OTHER -> 0

(* The integer part of h halves: the t of the sign of h with              *)
(* |t| <= |h| / 2 < |t| + 1 (the candidates are the integers next to    *)
(* |h| / 2).                                                              *)
IntegerPart(h) ==
    LET a == IF h >= 0 THEN h ELSE -h
        m == CHOOSE t \in (a \div 2) - 1 .. (a \div 2) + 1 : 2 * t <= a /\ a < 2 * t + 2
    IN  IF h >= 0 THEN m ELSE -m

Fits(h) == IntegerPart(h) \in MinOf(IntBits) .. MaxOf(IntBits)

Numeric(v) == v.k \in {"string", "bytes"} => v.s.kind \in {"dec", "half"}

(***************************************************************************)
(* ToInt64 and ToInt (runenv.GetInt, GetInt64 on an environment text)    *)
(* give the integer part of the number for every kind their switch names *)
(* whenever it fits in an int64: no kind wraps or rounds in range, and a *)
(* float is truncated toward zero.                                         *)
(***************************************************************************)
IntegerExact ==
    /\ conv \in {"ToInt64", "ToInt"}
    /\ x.k \notin {"float32", "bool"}
    /\ Numeric(x) /\ Fits(Halves(x))
    /\ x.s.kind = "half" => x.k \notin {"string", "bytes"}
    => out = IntegerPart(Halves(x))

(***************************************************************************)
(* ToString (the key apollo's Read stores values under) and ToFloat64    *)
(* (runenv.GetFloat64) keep the number: the numeral ToString prints and  *)
(* the float ToFloat64 returns denote the value itself, for every number *)
(* in range of a kind their switches name.                                 *)
(***************************************************************************)
NumeralExact ==
    /\ x.k \notin {"bool"} /\ Numeric(x) /\ Fits(Halves(x))
    => /\ conv = "ToString" => Halves([x EXCEPT !.k = "string", !.s = out]) = Halves(x)
       /\ conv = "ToFloat64" /\ x.k \notin Unsigned => out = Halves(x)

=============================================================================
