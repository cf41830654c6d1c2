----------------------------- MODULE ErrorCodec -----------------------------
(***************************************************************************)
(* The error codec of src/kit/errors and the error response of            *)
(* src/kit/data.  An *Error carries a code and a detail; its Error() is   *)
(* its JSON encoding with both fields omitempty; Parse decodes such a     *)
(* text back, and a text that does not decode becomes the detail of an    *)
(* Error with code 0; FromError keeps an *Error and parses any other      *)
(* error's text; data.Error answers a request with the code and detail of *)
(* the parsed error, or 500 and "unknown err" for a nil error.            *)
(*                                                                         *)
(* A text is a record: its form ("object", a JSON object whose fields      *)
(* decode; "mistyped", a JSON object with a code that is not a number;    *)
(* "other", not JSON at all), the set of keys it holds, and their values. *)
(* A plain error (errors.New, fmt.Errorf) is its text.                     *)
(***************************************************************************)
EXTENDS Integers

CONSTANTS
    Codes,      \* codes passed to errors.New
    Details,    \* details and format results ("" is the empty string)
    Words       \* texts of plain errors that are not JSON

TextOf(form, keys, c, d) == [form |-> form, keys |-> keys, code |-> c, detail |-> d]

(* The whole text as a string: a plain word is itself; every JSON text is *)
(* abstracted to one string, as no property tells two of them apart.      *)
Raw(t) == IF t.form = "other" THEN t.detail ELSE "{...}"

(* Error(): json.Marshal of the struct; omitempty drops a zero code and   *)
(* an empty detail.                                                        *)
Marshal(e) ==
    TextOf("object",
           {f \in {"code", "detail"} :
               IF f = "code" THEN e.code # 0 ELSE e.detail # ""},
           e.code, e.detail)

(* Mutant: the detail is overwritten with the text whatever Unmarshal     *)
(* returned.                                                               *)
ParseAlways(t) ==
    [code   |-> IF t.form # "other" /\ "code" \in t.keys THEN t.code ELSE 0,
     detail |-> Raw(t)]

(***************************************************************************)
(* Parse: Unmarshal into a new Error.  Fields absent from the object keep *)
(* their zero value; a mistyped code is skipped while the detail decodes, *)
(* and the UnmarshalTypeError makes the whole text the detail; a text     *)
(* that is not JSON decodes nothing.                                       *)
(***************************************************************************)
Parse(t) ==
    LET decoded == [code   |-> IF t.form = "object" /\ "code" \in t.keys
                               THEN t.code ELSE 0,
                    detail |-> IF t.form # "other" /\ "detail" \in t.keys
                               THEN t.detail ELSE ""]
    IN  IF t.form = "object" THEN decoded ELSE [decoded EXCEPT !.detail = Raw(t)]

(* New and the named constructors (BadRequest ... InternalServerError):  *)
(* an *Error with the code and the formatted detail.                       *)
Constructors == {400, 401, 403, 404, 405, 408, 409, 500}

(* FromError: a non-nil *Error as it is, any other error parsed from its  *)
(* text.                                                                   *)
FromError(er) == IF er.kind = "Error" THEN er.e ELSE Parse(er.text)

(***************************************************************************)
(* data.Error: 500 and "unknown err" for a nil error; otherwise the error *)
(* is parsed from its text, its code replaces 500 when it is not          *)
(* negative, and its detail is the message.                               *)
(***************************************************************************)
Respond(er) ==
    IF er.kind = "nil" THEN [code |-> 500, msg |-> "unknown err"]
    ELSE LET p == Parse(IF er.kind = "Error" THEN Marshal(er.e) ELSE er.text)
         IN  [code |-> IF p.code >= 0 THEN p.code ELSE 500, msg |-> p.detail]

-----------------------------------------------------------------------------
(* One handler: it makes or receives an error, converts it with           *)
(* FromError, and answers with data.Error.                                 *)

VARIABLES
    err,    \* the error: kind "nil", "Error" (with e) or "plain" (with text)
    fromErr,   \* {what FromError returned}, or {} before the call
    resp    \* {what data.Error answered}, or {} before the call

vars == <<err, fromErr, resp>>

NilErr == [kind |-> "nil", e |-> [code |-> 0, detail |-> ""], text |-> TextOf("other", {}, 0, "")]
ErrorErr(c, d) == [NilErr EXCEPT !.kind = "Error", !.e = [code |-> c, detail |-> d]]
PlainErr(t) == [NilErr EXCEPT !.kind = "plain", !.text = t]

(* The texts a plain error may have: words, and JSON a downstream service *)
(* returned, well-formed or with a mistyped code.                          *)
PlainTexts ==
    {TextOf("other", {}, 0, w) : w \in Words}
    \cup {TextOf(f, k, c, d) : f \in {"object", "mistyped"},
                               k \in SUBSET {"code", "detail"},
                               c \in Codes, d \in Details}

Errors ==
    {NilErr} \cup {ErrorErr(c, d) : c \in Codes \cup Constructors, d \in Details}
    \cup {PlainErr(t) : t \in PlainTexts}

Init == err \in Errors /\ fromErr = {} /\ resp = {}

CallFromError == fromErr = {} /\ err.kind # "nil" /\ fromErr' = {FromError(err)}
                 /\ UNCHANGED <<err, resp>>

CallRespond == resp = {} /\ resp' = {Respond(err)} /\ UNCHANGED <<err, fromErr>>

Next == CallFromError \/ CallRespond

Spec == Init /\ [][Next]_vars

-----------------------------------------------------------------------------
(* Properties *)

(***************************************************************************)
(* An *Error survives its text: parsing what Error() printed gives back   *)
(* its code and detail, whatever omitempty dropped, so FromError on a     *)
(* wrapped copy of it (a plain error carrying its text) agrees with       *)
(* FromError on the *Error itself.                                          *)
(***************************************************************************)
ErrorRoundTrip ==
    err.kind = "Error" => Parse(Marshal(err.e)) = err.e

(* A handler answering a plain error that is not JSON reports a server   *)
(* error (data.go's defaultErrorCode, 500), not a success-like code.     *)
PlainIsServerError ==
    \A r \in resp : err.kind = "plain" /\ err.text.form = "other" => r.code = 500

=============================================================================
