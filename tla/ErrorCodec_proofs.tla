------------------------- MODULE ErrorCodec_proofs -------------------------
(***************************************************************************)
(* Proofs about the error codec: an *Error survives its JSON text for     *)
(* every code and detail, for every set of codes, details and plain texts. *)
(***************************************************************************)
EXTENDS ErrorCodec, TLAPS

(* Parse(Error()) is the identity on an Error: omitempty drops exactly    *)
(* the fields whose zero value Parse puts back.                            *)
LEMMA MarshalParse ==
    ASSUME NEW c, NEW d
    PROVE  Parse(Marshal([code |-> c, detail |-> d])) = [code |-> c, detail |-> d]
<1> DEFINE t == Marshal([code |-> c, detail |-> d])
<1>1. t.form = "object" /\ t.code = c /\ t.detail = d
    BY DEF Marshal, TextOf
<1>2. ("code" \in t.keys <=> c # 0) /\ ("detail" \in t.keys <=> d # "")
    BY DEF Marshal, TextOf
<1>. QED
    BY <1>1, <1>2 DEF Parse

(***************************************************************************)
(* The inductive invariant: the error never changes, and what FromError   *)
(* and data.Error returned is what they return on it now; FromError is    *)
(* only called on a non-nil error.                                          *)
(***************************************************************************)
IInv ==
    /\ err \in Errors
    /\ fromErr \in {{}, {FromError(err)}}
    /\ resp \in {{}, {Respond(err)}}
    /\ fromErr # {} => err.kind # "nil"

LEMMA IInvInit == Init => IInv
BY DEF Init, IInv

LEMMA IInvStep == IInv /\ [Next]_vars => IInv'
<1> SUFFICES ASSUME IInv, [Next]_vars PROVE IInv'
    OBVIOUS
<1>1. CASE CallFromError
    BY <1>1 DEF CallFromError, IInv
<1>2. CASE CallRespond
    BY <1>2 DEF CallRespond, IInv
<1>3. CASE UNCHANGED vars
    BY <1>3 DEF vars, IInv
<1>. QED
    BY <1>1, <1>2, <1>3 DEF Next

(* Every error the handler can hold is nil, an *Error, or a plain text.   *)
LEMMA ErrorsShape ==
    ASSUME NEW er \in Errors
    PROVE  \/ er.kind = "nil"
           \/ er.kind = "Error" /\ \E c, d : er.e = [code |-> c, detail |-> d]
           \/ er.kind = "plain"
<1>0. \/ er = NilErr
      \/ \E c \in Codes \cup Constructors, d \in Details : er = ErrorErr(c, d)
      \/ \E t \in PlainTexts : er = PlainErr(t)
    BY DEF Errors
<1>1. CASE er = NilErr
    BY <1>1 DEF NilErr
<1>2. CASE \E c \in Codes \cup Constructors, d \in Details : er = ErrorErr(c, d)
    <2>1. PICK c \in Codes \cup Constructors, d \in Details : er = ErrorErr(c, d)
        BY <1>2
    <2>. QED
        BY <2>1 DEF ErrorErr, NilErr
<1>3. CASE \E t \in PlainTexts : er = PlainErr(t)
    <2>1. PICK t \in PlainTexts : er = PlainErr(t)
        BY <1>3
    <2>. QED
        BY <2>1 DEF PlainErr, NilErr
<1>. QED
    BY <1>0, <1>1, <1>2, <1>3

LEMMA IInvRoundTrip == IInv => ErrorRoundTrip
<1> SUFFICES ASSUME IInv, err.kind = "Error" PROVE Parse(Marshal(err.e)) = err.e
    BY DEF ErrorRoundTrip
<1>1. PICK c, d : err.e = [code |-> c, detail |-> d]
    BY ErrorsShape DEF IInv
<1>. QED
    BY <1>1, MarshalParse

(* Error() followed by Parse gives back every *Error the handler can     *)
(* hold, for every code and detail: omitempty never loses a field that    *)
(* Parse cannot restore (kit/errors Error and Parse).                      *)
THEOREM RoundTripHolds == Spec => []ErrorRoundTrip
BY IInvInit, IInvStep, IInvRoundTrip, PTL DEF Spec

=============================================================================
