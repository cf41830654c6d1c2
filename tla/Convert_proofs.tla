---------------------------- MODULE Convert_proofs ----------------------------
(***************************************************************************)
(* Proofs about utils/convert: for every width of int64 and every value a *)
(* caller passes, ToInt64 and ToInt give the integer part of a number in  *)
(* range, and ToString and ToFloat64 keep its value.                       *)
(***************************************************************************)
EXTENDS Convert, TLAPS

(* The powers of two that bound int64, as numbers.                        *)
H == 2 ^ (IntBits - 1)

LEMMA Bounds ==
    /\ H \in Nat \ {0}
    /\ 2 ^ IntBits = 2 * H
    /\ MinOf(IntBits) = -H
    /\ MaxOf(IntBits) = H - 1
BY PowerAssumption DEF H, MinOf, MaxOf

(* Division by two with remainder.                                        *)
LEMMA DivTwo ==
    ASSUME NEW n \in Nat
    PROVE  2 * (n \div 2) <= n /\ n < 2 * (n \div 2) + 2 /\ n \div 2 \in Nat
OBVIOUS

(* The integer part of h halves is h / 2 truncated toward zero.           *)
LEMMA IntegerPartDiv ==
    ASSUME NEW h \in Int
    PROVE  IntegerPart(h) = IF h >= 0 THEN h \div 2 ELSE -((-h) \div 2)
<1> DEFINE a == IF h >= 0 THEN h ELSE -h
           m == a \div 2
           P(t) == 2 * t <= a /\ a < 2 * t + 2
           c == CHOOSE t \in (a \div 2) - 1 .. (a \div 2) + 1 : P(t)
<1>0. IntegerPart(h) = IF h >= 0 THEN c ELSE -c
    BY DEF IntegerPart
<1>1. a \in Nat
    OBVIOUS
<1> HIDE DEF a
<1>4. 2 * m <= a /\ a < 2 * m + 2 /\ m \in Nat
    BY <1>1, DivTwo
<1>5. m \in (a \div 2) - 1 .. (a \div 2) + 1 /\ P(m)
    BY <1>4
<1>2. \A t \in (a \div 2) - 1 .. (a \div 2) + 1 : P(t) => t = m
    <2> SUFFICES ASSUME NEW t \in Int, P(t) PROVE t = m
        BY <1>1, DivTwo
    <2> HIDE DEF m
    <2>. QED
        BY <1>1, <1>4
<1>3. c = m
    BY <1>5, <1>2, Zenon
<1>8. m = IF h >= 0 THEN h \div 2 ELSE (-h) \div 2
    BY DEF a
<1> HIDE DEF c, m
<1>. QED
    BY <1>0, <1>3, <1>8

(* An even number of halves is its half.                                  *)
LEMMA IntegerPartEven ==
    ASSUME NEW n \in Int
    PROVE  IntegerPart(2 * n) = n
BY IntegerPartDiv

(* A Go conversion to int64 leaves a value in range unchanged.            *)
LEMMA WrapId ==
    ASSUME NEW n \in MinOf(IntBits) .. MaxOf(IntBits)
    PROVE  Wrap(n, IntBits) = n
<1> DEFINE P == 2 ^ IntBits
<1>1. P = 2 * H /\ H \in Nat \ {0} /\ n \in -H .. H - 1
    BY Bounds
<1>2. CASE n >= 0
    <2>1. n % P = n
        BY <1>1, <1>2
    <2>. QED
        BY <1>1, <2>1, Bounds DEF Wrap
<1>3. CASE n < 0
    <2>1. n % P = n + P
        BY <1>1, <1>3
    <2>. QED
        BY <1>1, <2>1, Bounds DEF Wrap
<1>. QED
    BY <1>2, <1>3

(* A float in range converts to its integer part.                         *)
LEMMA FloatToIntExact ==
    ASSUME NEW h \in Int, Fits(h)
    PROVE  FloatToInt(h) = IntegerPart(h)
BY IntegerPartDiv DEF FloatToInt, Fits

(* An integer whose double fits is in the range of int64.                 *)
LEMMA FitsEven ==
    ASSUME NEW n \in Int, Fits(2 * n)
    PROVE  n \in MinOf(IntBits) .. MaxOf(IntBits)
BY IntegerPartEven DEF Fits

-----------------------------------------------------------------------------
(***************************************************************************)
(* The inductive invariant: the caller's value is one of the inputs, and  *)
(* the result it holds is what the converter it called returns on it.     *)
(***************************************************************************)
IInv ==
    /\ x \in Inputs
    /\ conv = "ToInt64" => out = ToInt64(x)
    /\ conv = "ToInt" => out = ToInt(x)
    /\ conv = "ToString" => out = ToString(x)
    /\ conv = "ToFloat64" => out = ToFloat64(x)

LEMMA IInvInit == CallerInit => IInv
BY DEF CallerInit, IInv

LEMMA IInvStep == IInv /\ [CallerNext]_callVars => IInv'
<1> SUFFICES ASSUME IInv, [CallerNext]_callVars PROVE IInv'
    OBVIOUS
<1>1. CASE CallToInt64
    BY <1>1 DEF CallToInt64, Call, IInv
<1>2. CASE CallToInt
    BY <1>2 DEF CallToInt, Call, IInv
<1>3. CASE CallToString
    BY <1>3 DEF CallToString, Call, IInv
<1>4. CASE CallToFloat64
    BY <1>4 DEF CallToFloat64, Call, IInv
<1>5. CASE CallToBool
    BY <1>5 DEF CallToBool, Call, IInv
<1>6. CASE CallElement
    BY <1>6 DEF CallElement, Targets, Call, IInv
<1>7. CASE UNCHANGED callVars
    BY <1>7 DEF callVars, IInv
<1>. QED
    BY <1>1, <1>2, <1>3, <1>4, <1>5, <1>6, <1>7 DEF CallerNext

(* Every input is a value: a kind, an integer, a text.                    *)
LEMMA InputShape ==
    ASSUME NEW v \in Inputs
    PROVE  /\ v.k \in Kinds /\ v.n \in Int
           /\ v.s.kind \in {"dec", "half", "word"} /\ v.s.num \in Int
<1>1. v \in Value
    BY InputsAssumption DEF WellFormed
<1>. QED
    BY <1>1 DEF Value, Text

(* ToInt64 and ToInt agree with the integer part on every input that      *)
(* IntegerExact speaks of.                                                 *)
LEMMA ToInt64Exact ==
    ASSUME NEW v \in Inputs,
           v.k \notin {"float32", "bool"}, Numeric(v), Fits(Halves(v)),
           v.s.kind = "half" => v.k \notin {"string", "bytes"}
    PROVE  ToInt64(v) = IntegerPart(Halves(v)) /\ ToInt(v) = IntegerPart(Halves(v))
<1>1. v.k \in Kinds /\ v.n \in Int /\ v.s.kind \in {"dec", "half", "word"}
      /\ v.s.num \in Int
    BY InputShape
<1>2. CASE v.k \in {"string", "bytes"}
    <2>1. v.s.kind = "dec" /\ Halves(v) = 2 * v.s.num
        BY <1>1, <1>2 DEF Numeric, Halves, IntKinds, Signed, Unsigned
    <2>2. v.s.num \in MinOf(IntBits) .. MaxOf(IntBits)
        BY <1>1, <2>1, FitsEven
    <2>3. ParseInt(v.s, IntBits) = v.s.num
        BY <2>1, <2>2, Bounds DEF ParseInt
    <2>. QED
        BY <1>1, <1>2, <2>1, <2>3, IntegerPartEven DEF ToInt64, ToInt, IntKinds, Signed, Unsigned
<1>3. CASE v.k \in IntKinds
    <2>1. Halves(v) = 2 * v.n
        BY <1>3 DEF Halves, IntKinds, Signed, Unsigned
    <2>2. Wrap(v.n, IntBits) = v.n
        BY <1>1, <2>1, FitsEven, WrapId
    <2>3. ~(v.k \in {"string", "bytes"})
        BY <1>3 DEF IntKinds, Signed, Unsigned
    <2>. QED
        BY <1>1, <1>3, <2>1, <2>2, <2>3, IntegerPartEven DEF ToInt64, ToInt, IntKinds, Signed, Unsigned
<1>4. CASE v.k = "float64"
    <2>1. Halves(v) = v.n /\ ~(v.k \in {"string", "bytes"}) /\ ~(v.k \in IntKinds)
        BY <1>4 DEF Halves, IntKinds, Signed, Unsigned
    <2>2. FloatToInt(v.n) = IntegerPart(v.n)
        BY <1>1, <2>1, FloatToIntExact
    <2>. QED
        BY <1>4, <2>1, <2>2 DEF ToInt64, ToInt
<1>. QED
    BY <1>1, <1>2, <1>3, <1>4 DEF Kinds

(* Every input is a record of Value.                                        *)
LEMMA InputValue ==
    ASSUME NEW v \in Inputs
    PROVE  v \in Value
BY InputsAssumption DEF WellFormed

(* What ToString prints for each kind it names.                          *)
LEMMA ToStringCases ==
    ASSUME NEW v \in Inputs
    PROVE  /\ v.k \in {"string", "bytes"} => ToString(v) = v.s
           /\ v.k \in IntKinds =>
                ToString(v) = [kind |-> "dec", num |-> Wrap(v.n, IntBits), word |-> ""]
           /\ v.k \in {"float32", "float64"} =>
                ToString(v) = IF v.n % 2 = 0 THEN [kind |-> "dec", num |-> v.n \div 2, word |-> ""]
                              ELSE [kind |-> "half", num |-> v.n, word |-> ""]
BY DEF ToString, IntKinds, Signed, Unsigned

(* Every number ToString speaks of keeps its value.                      *)
LEMMA ToStringExact ==
    ASSUME NEW v \in Inputs, v.k # "bool", Numeric(v), Fits(Halves(v))
    PROVE  Halves([v EXCEPT !.k = "string", !.s = ToString(v)]) = Halves(v)
<1> DEFINE w == [v EXCEPT !.k = "string", !.s = ToString(v)]
           t == ToString(v)
<1> SUFFICES Halves(w) = Halves(v)
    OBVIOUS
<1>1. v.k \in Kinds /\ v.n \in Int /\ v.s.kind \in {"dec", "half", "word"}
      /\ v.s.num \in Int
    BY InputShape
<1>0. w.k = "string" /\ w.s = t
    BY InputValue DEF Value
<1>2. Halves(w) = IF t.kind = "dec" THEN 2 * t.num ELSE t.num
    BY <1>0 DEF Halves, IntKinds, Signed, Unsigned
<1>3. CASE v.k \in {"string", "bytes"}
    <2>1. t = v.s
        BY <1>3, ToStringCases
    <2>2. Halves(v) = IF v.s.kind = "dec" THEN 2 * v.s.num ELSE v.s.num
        BY <1>3 DEF Halves, IntKinds, Signed, Unsigned
    <2>. QED
        BY <1>2, <2>1, <2>2
<1>4. CASE v.k \in IntKinds
    <2>1. Halves(v) = 2 * v.n
        BY <1>4 DEF Halves, IntKinds, Signed, Unsigned
    <2>2. Wrap(v.n, IntBits) = v.n
        BY <1>1, <2>1, FitsEven, WrapId
    <2>3. t = [kind |-> "dec", num |-> v.n, word |-> ""]
        BY <1>4, <2>2, ToStringCases
    <2> HIDE DEF t, w
    <2>4. t.kind = "dec" /\ t.num = v.n
        BY <2>3
    <2>. QED
        BY <1>1, <1>2, <2>1, <2>4
<1>5. CASE v.k \in {"float32", "float64"}
    <2>1. Halves(v) = v.n
        BY <1>5 DEF Halves, IntKinds, Signed, Unsigned
    <2>2. v.n % 2 = 0 => 2 * (v.n \div 2) = v.n
        BY <1>1
    <2>3. t = IF v.n % 2 = 0 THEN [kind |-> "dec", num |-> v.n \div 2, word |-> ""]
              ELSE [kind |-> "half", num |-> v.n, word |-> ""]
        BY <1>5, ToStringCases
    <2> HIDE DEF t, w
    <2>4. /\ v.n % 2 = 0 => t.kind = "dec" /\ t.num = v.n \div 2
          /\ v.n % 2 # 0 => t.kind = "half" /\ t.num = v.n
        BY <2>3
    <2>. QED
        BY <1>1, <1>2, <2>1, <2>2, <2>4
<1>. QED
    BY <1>1, <1>3, <1>4, <1>5 DEF Kinds

(* Every number ToFloat64 speaks of keeps its value.                     *)
LEMMA ToFloat64Exact ==
    ASSUME NEW v \in Inputs, v.k # "bool", v.k \notin Unsigned, Numeric(v),
           Fits(Halves(v))
    PROVE  ToFloat64(v) = Halves(v)
<1>1. v.k \in Kinds /\ v.n \in Int /\ v.s.kind \in {"dec", "half", "word"}
      /\ v.s.num \in Int
    BY InputShape
<1>2. CASE v.k \in {"float32", "float64"}
    <2>1. ToFloat64(v) = v.n
        BY <1>2 DEF ToFloat64, IntKinds, Signed, Unsigned
    <2>. QED
        BY <1>2, <2>1 DEF Halves, IntKinds, Signed, Unsigned
<1>3. CASE v.k \in {"string", "bytes"}
    <2>1. ToFloat64(v) = ParseFloat(v.s)
        BY <1>3 DEF ToFloat64, IntKinds, Signed, Unsigned
    <2>2. Halves(v) = IF v.s.kind = "dec" THEN 2 * v.s.num ELSE v.s.num
        BY <1>3 DEF Halves, IntKinds, Signed, Unsigned
    <2>3. v.s.kind \in {"dec", "half"}
        BY <1>3 DEF Numeric
    <2>. QED
        BY <2>1, <2>2, <2>3 DEF ParseFloat
<1>4. CASE v.k \in Signed
    <2>1. Halves(v) = 2 * v.n /\ ~(v.k \in {"string", "bytes", "float32", "float64"})
        BY <1>4 DEF Halves, IntKinds, Signed
    <2>2. Wrap(v.n, IntBits) = v.n
        BY <1>1, <2>1, FitsEven, WrapId
    <2>3. ToInt64(v) = v.n
        BY <1>4, <2>1, <2>2 DEF ToInt64, IntKinds
    <2>4. ToFloat64(v) = 2 * ToInt64(v)
        BY <1>4, <2>1 DEF ToFloat64
    <2>. QED
        BY <2>1, <2>3, <2>4
<1>. QED
    BY <1>1, <1>2, <1>3, <1>4 DEF Kinds, IntKinds

-----------------------------------------------------------------------------
(* ToInt64 and ToInt (runenv.GetInt, GetInt64) give the integer part of   *)
(* every number in range of a kind their switches name, for every width  *)
(* of int64: no kind wraps or rounds in range, and a float is truncated   *)
(* toward zero (convert.go ToInt64, ToInt).                                *)
THEOREM IntegerExactHolds == CallerSpec => []IntegerExact
<1>1. IInv => IntegerExact
    BY ToInt64Exact DEF IInv, IntegerExact
<1>. QED
    BY IInvInit, IInvStep, <1>1, PTL DEF CallerSpec

(* The numeral ToString prints and the float ToFloat64 returns denote the *)
(* value itself, for every number in range of a kind their switches name  *)
(* and every width of int64 (convert.go ToString, ToFloat64).              *)
THEOREM NumeralExactHolds == CallerSpec => []NumeralExact
<1>1. IInv => NumeralExact
    BY ToStringExact, ToFloat64Exact DEF IInv, NumeralExact
<1>. QED
    BY IInvInit, IInvStep, <1>1, PTL DEF CallerSpec
=============================================================================
