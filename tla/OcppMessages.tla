----------------------------- MODULE OcppMessages -----------------------------
(***************************************************************************)
(* What OcppService makes of the text of a frame: the router's refusals,   *)
(* the guards of messages/schemas.ts in the order in which they run, and   *)
(* the CALLERROR that resolveError and buildCallErrorPayload make of what  *)
(* was thrown.                                                             *)
(*                                                                         *)
(* A JSON value is one of a few kinds, which are what the guards tell      *)
(* apart.  Numbers are alike to them: fractions and numbers no column can  *)
(* hold pass, as ChargingStation has it with its LargestNumber.            *)
(***************************************************************************)
EXTENDS Naturals, Sequences, SequencesExt

\* `absent' is undefined, `blank' a string of spaces; `local' and `zoned' are
\* ISO-8601 timestamps without and with a zone, `words' any other string.
Strings == {"empty", "blank", "words", "local", "zoned"}
Numbers == {"zero", "number"}
Values  == Strings \cup Numbers \cup {"absent", "null", "false", "true", "object"}
Falsy   == {"absent", "null", "false", "zero", "empty"}

\* What is thrown: OcppCallErrors of the guards, errors of the router.
GuardErrors  == {"TypeConstraintViolation", "PropertyConstraintViolation"}
RouterErrors == {"FormationViolation", "ProtocolError", "NotSupported", "NotImplemented"}
Thrown       == GuardErrors \cup RouterErrors

\* Of what is evaluated in order, the first that throws counts.
FirstThrown(outcomes, otherwise) ==
    LET first == SelectInSeq(outcomes, LAMBDA o : o \in Thrown)
    IN  IF first = 0 THEN otherwise ELSE outcomes[first]

------------------------------------------------------------------------------
(* Guards: the value that is kept, or what is thrown. *)

EnsureString(v) ==
    IF v \in Strings \ {"empty", "blank"} THEN v ELSE "TypeConstraintViolation"

\* Wrong: null is not a missing string.
EnsureOptionalStringNull(v) ==
    CASE v \in {"absent", "empty", "blank"}     -> "absent"
      [] v \in {"words", "local", "zoned"}      -> v
      [] v \notin Strings \cup {"absent"}       -> "TypeConstraintViolation"

EnsureOptionalString(v) ==
    CASE v \in {"absent", "null", "empty", "blank"} -> "absent"
      [] v \in {"words", "local", "zoned"}          -> v
      [] v \notin Strings \cup {"absent", "null"}   -> "TypeConstraintViolation"

EnsureNumber(v) == IF v \in Numbers THEN v ELSE "TypeConstraintViolation"

\* Wrong: a timestamp is kept the way the station wrote it.
EnsureTimestampAsIs(v) ==
    CASE v \in {"local", "zoned"}   -> v
      [] v = "words"                -> "PropertyConstraintViolation"
      [] v \notin {"local", "zoned", "words"} -> EnsureString(v)

EnsureTimestamp(v) ==
    CASE v \in {"local", "zoned"}   -> "zoned"
      [] v = "words"                -> "PropertyConstraintViolation"
      [] v \notin {"local", "zoned", "words"} -> EnsureString(v)

EnsureOptionalNumber(v)     == IF v = "absent" THEN v ELSE EnsureNumber(v)

EnsureOptionalTimestamp(v) == IF v \in Falsy THEN "absent" ELSE EnsureTimestamp(v)

Ensure(guard, v) ==
    CASE guard = "string"            -> EnsureString(v)
      [] guard = "optionalString"    -> EnsureOptionalString(v)
      [] guard = "number"            -> EnsureNumber(v)
      [] guard = "optionalNumber"    -> EnsureOptionalNumber(v)
      [] guard = "timestamp"         -> EnsureTimestamp(v)
      [] guard = "optionalTimestamp" -> EnsureOptionalTimestamp(v)

------------------------------------------------------------------------------
(* The parse functions: fields and their guards, in the order of the code. *)

Optionals(fields) == [i \in DOMAIN fields |-> <<fields[i], "optionalString">>]

BootNotificationGuards ==
    <<<<"chargePointVendor", "string">>, <<"chargePointModel", "string">>>> \o
    Optionals(<<"chargePointSerialNumber", "chargeBoxSerialNumber", "firmwareVersion",
                "iccid", "imsi", "meterSerialNumber", "meterType">>)

AuthorizeGuards == <<<<"idTag", "string">>>>

StatusNotificationGuards ==
    <<<<"connectorId", "number">>, <<"errorCode", "string">>, <<"status", "string">>,
      <<"timestamp", "optionalTimestamp">>>> \o
    Optionals(<<"info", "vendorId", "vendorErrorCode">>)

StartTransactionGuards ==
    <<<<"connectorId", "number">>, <<"idTag", "string">>, <<"meterStart", "number">>,
      <<"timestamp", "timestamp">>, <<"reservationId", "optionalNumber">>>>

StopTransactionGuards ==
    <<<<"transactionId", "number">>, <<"meterStop", "number">>, <<"timestamp", "timestamp">>>> \o
    Optionals(<<"idTag", "reason">>)

SampledValueGuards ==
    <<<<"value", "string">>>> \o
    Optionals(<<"context", "format", "measurand", "phase", "location", "unit">>)

MeterValuesGuards == <<<<"connectorId", "number">>, <<"transactionId", "optionalNumber">>>>

Guards(action) ==
    CASE action = "BootNotification"   -> BootNotificationGuards
      [] action = "Heartbeat"          -> <<>>
      [] action = "Authorize"          -> AuthorizeGuards
      [] action = "StatusNotification" -> StatusNotificationGuards
      [] action = "StartTransaction"   -> StartTransactionGuards
      [] action = "StopTransaction"    -> StopTransactionGuards
      [] action = "MeterValues"        -> MeterValuesGuards

\* The fields of an object; what it does not have is undefined.
Field(object, name) == IF name \in DOMAIN object THEN object[name] ELSE "absent"

\* What each guard of `guards' makes of an object.
Outcomes(guards, object) ==
    [i \in DOMAIN guards |-> Ensure(guards[i][2], Field(object, guards[i][1]))]

\* ensureObject, which arrays pass: `shape' is `object', `array' or `scalar'.
EnsureObject(shape, otherwise) ==
    IF shape = "scalar" THEN "TypeConstraintViolation" ELSE otherwise

\* Each, and at least one: anything but an array has no elements.
EnsureEach(outcomes) ==
    FirstThrown(outcomes, IF outcomes = <<>> THEN "TypeConstraintViolation" ELSE "array")

ParseSampledValue(sample) ==
    EnsureObject(sample.shape, FirstThrown(Outcomes(SampledValueGuards, sample.fields), "object"))

ParseMeterValueEntry(entry) ==
    EnsureObject(entry.shape, FirstThrown(
        <<EnsureEach([i \in DOMAIN entry.samples |-> ParseSampledValue(entry.samples[i])]),
          EnsureTimestamp(entry.timestamp)>>, "object"))

ParseMeterValue(entries) ==
    EnsureEach([i \in DOMAIN entries |-> ParseMeterValueEntry(entries[i])])

\* The payload a handler is given, as its fields, or what is thrown.  What is
\* kept of an entry of meterValue is not told apart.
Parsed(guards, object) ==
    [name \in {guards[i][1] : i \in DOMAIN guards} |->
        Outcomes(guards, object)[CHOOSE i \in DOMAIN guards : guards[i][1] = name]]

Refusal(action, payload) ==
    IF action = "Heartbeat" THEN "none"
    ELSE EnsureObject(payload.shape, FirstThrown(
             (IF action = "MeterValues" THEN <<ParseMeterValue(payload.meterValue)>> ELSE <<>>)
             \o Outcomes(Guards(action), payload.fields), "none"))

------------------------------------------------------------------------------
(* handleMessage. *)

Actions == {"BootNotification", "Heartbeat", "Authorize", "StatusNotification",
            "StartTransaction", "StopTransaction", "MeterValues"}

\* A text is `malformed', `notArray', `short' (an array of less than three) or
\* `array'.  A uniqueId is "", another string, or of another type (`noString').
NoString == "noString"

Route(text) ==
    CASE text.form = "malformed"             -> "FormationViolation"
      [] text.form \in {"notArray", "short"} -> "ProtocolError"
      [] text.form = "array" /\ ~text.isCall -> "NotSupported"
      [] text.form = "array" /\ text.isCall /\ text.uniqueId = NoString -> "ProtocolError"
      [] OTHER -> IF text.action \notin Actions THEN "NotImplemented"
                  ELSE Refusal(text.action, text.payload)

\* The id a CALLERROR can carry: the second element of an array, unless it is
\* not a string or "".  Wrong: only calls have one.
ErrorIdOfCall(text) ==
    IF text.form = "array" /\ text.isCall /\ text.uniqueId \notin {"", NoString}
    THEN text.uniqueId ELSE NoString

ErrorId(text) ==
    IF text.form \in {"short", "array"} /\ text.uniqueId \notin {"", NoString}
    THEN text.uniqueId ELSE NoString

\* resolveError: an OcppCallError of a guard or a handler keeps its code, as do
\* the errors of the router; every other error is internal.
HandlerErrors == {"PropertyConstraintViolation", "SecurityError"}
ResolveError(thrown) == IF thrown \in Thrown \cup HandlerErrors THEN thrown ELSE "InternalError"

\* The OcppCallErrors of a handler: a stop's of a transaction that is not found,
\* and ensureStation's in every handler but a stop's and a boot's.
ThrownBy(action) ==
    CASE action = "BootNotification" -> {}
      [] action = "StopTransaction"  -> {"PropertyConstraintViolation"}
      [] OTHER                       -> {"SecurityError"}
===============================================================================
