--------------------------- MODULE StationSocketProps ---------------------------
(***************************************************************************)
(* The correctness properties of StationSocket.                            *)
(***************************************************************************)
EXTENDS StationSocket, FiniteSets

Frames  == dialogue.frames
AllIdle == \A r \in Runs : runs[r] = Idle

------------------------------------------------------------------------------
(* Frames *)

\* Whatever chunks the bytes come in, and however many runs share the buffer,
\* the frames taken off it are those the station sent, in their order, each
\* with its own payload: extractFrame never loses its place in the stream.
FramesAsSent ==
    \A k \in DOMAIN extracted :
        /\ k \in DOMAIN Frames
        /\ extracted[k].fin = Frames[k].fin /\ extracted[k].opcode = Frames[k].opcode
        /\ extracted[k].payload = Payload(Plain, 0, Frames[k].length)

\* When the runs of an open socket have come to rest, nothing that is complete
\* is left in its buffer: no frame waits for a later chunk to be noticed.
WholeFramesTaken ==
    socket = "open" /\ AllIdle
    => Len(extracted) = Cardinality({k \in DOMAIN Frames : EndOf(Frames, k) <= arrived})

\* What buildFrame writes is one frame to its reader, of the shortest header
\* that RFC 6455 has for its length, unmasked, with the payload meant.
WrittenIsReadable ==
    \A k \in DOMAIN written :
        LET w     == written[k]
            frame == BuildFrame(w.opcode, w.payload)
            read  == ExtractFrame(frame.bytes, 0, frame.size)
        IN  /\ read.fin /\ read.opcode = w.opcode /\ read.payload = w.payload
            /\ frame.size - w.payload.length =
                   (IF w.payload.length < 126 THEN 2
                    ELSE IF w.payload.length < 65536 THEN 4 ELSE 10)

------------------------------------------------------------------------------
(* Answers *)

\* A text that has an id to answer to.
Identified(text) == text.form \in {"short", "array"} /\ text.uniqueId \notin {"", NoString}

\* The server gives a connection up only for a frame it does not support or a
\* text nobody could be answered about: whatever else is wrong with a message,
\* an answer to a call of the server included, it does not close the socket.
SocketKept ==
    socket = "destroyed" /\ taken > 0
    => \E k \in DOMAIN extracted :
           \/ ~extracted[k].fin \/ extracted[k].opcode \notin {1, 8, 9}
           \/ extracted[k].opcode = 1 /\ ~Identified(extracted[k].text)

\* On an open socket every text that was taken is being handled or has been
\* answered, and the answer carries its id: a CALLRESULT or what its handler
\* throws if the router let it pass, or else a CALLERROR with the code of what was
\* wrong.  Only a boot may be answered twice: the CALLRESULT, and the CALLERROR
\* of a flush that was rejected.  Every ping has one pong with its payload.
AnswersTo(k) == {n \in DOMAIN written : written[n].about = k}
Handled(k)   == \E r \in Runs : runs[r].at = "awaiting" /\ runs[r].frame = k
Flushing(k)  == \E r \in Runs : runs[r].at = "flushing" /\ runs[r].frame = k
IsAnswerTo(answer, text) ==
    /\ answer.id = text.uniqueId
    /\ IF Route(text) = "none"
       THEN answer.kind \in {"result", "InternalError"} \cup ThrownBy(text.action)
       ELSE answer.kind = Route(text)
AnsweredOnce(k) ==
    /\ ~Handled(k)
    /\ \E n \in DOMAIN written :
           /\ AnswersTo(k) = {n} /\ IsAnswerTo(written[n], extracted[k].text)
           /\ Flushing(k) => written[n].kind = "result"
AnsweredTwice(k) ==
    /\ ~Handled(k) /\ ~Flushing(k) /\ extracted[k].text.action = "BootNotification"
    /\ \E m, n \in DOMAIN written :
           /\ m < n /\ AnswersTo(k) = {m, n}
           /\ IsAnswerTo(written[m], extracted[k].text) /\ written[m].kind = "result"
           /\ IsAnswerTo(written[n], extracted[k].text) /\ written[n].kind = "InternalError"
PingAnswered(k) ==
    \E n \in DOMAIN written :
        /\ AnswersTo(k) = {n}
        /\ written[n].kind = "pong" /\ written[n].payload = extracted[k].payload
Due(k) ==
    \/ extracted[k].opcode = 9 /\ PingAnswered(k)
    \/ /\ extracted[k].opcode = 1
       /\ \/ Handled(k) /\ AnswersTo(k) = {}
          \/ AnsweredOnce(k) \/ AnsweredTwice(k)
AnswersDue == socket = "open" => \A k \in DOMAIN extracted : Due(k)

\* Texts that came in one chunk are answered in their order, as long as no other
\* chunk comes: each run awaits the handler of one text before it takes the next.
InOrderWithinChunk ==
    chunks = 1 => \A m, n \in DOMAIN written : m < n => written[m].about <= written[n].about

\* What lies in one chunk behind a close frame, or behind a frame or text that
\* costs the connection, is never dealt with, as long as no other chunk comes,
\* whose run goes on.  (Behind a call whose socket failed meanwhile it is.)
EndsItsRun(frame) ==
    \/ ~frame.fin \/ frame.opcode \notin {1, 9}
    \/ frame.opcode = 1 /\ Route(frame.text) # "none" /\ ~Identified(frame.text)
NothingBehind ==
    chunks = 1 => \A k \in DOMAIN extracted : EndsItsRun(extracted[k]) => k = Len(extracted)

------------------------------------------------------------------------------
(* Validation, against the types of messages/schemas.ts *)

\* The interfaces: each field with its type; `string?' may be undefined.
Interface(action) ==
    CASE action = "BootNotification" ->
             [chargePointVendor |-> "string", chargePointModel |-> "string",
              chargePointSerialNumber |-> "string?", chargeBoxSerialNumber |-> "string?",
              firmwareVersion |-> "string?", iccid |-> "string?", imsi |-> "string?",
              meterSerialNumber |-> "string?", meterType |-> "string?"]
      [] action = "Authorize" -> [idTag |-> "string"]
      [] action = "StatusNotification" ->
             [connectorId |-> "number", errorCode |-> "string", status |-> "string",
              timestamp |-> "date?", info |-> "string?", vendorId |-> "string?",
              vendorErrorCode |-> "string?"]
      [] action = "StartTransaction" ->
             [connectorId |-> "number", idTag |-> "string", meterStart |-> "number",
              timestamp |-> "date", reservationId |-> "number?"]
      [] action = "StopTransaction" ->
             [transactionId |-> "number", meterStop |-> "number", timestamp |-> "date",
              idTag |-> "string?", reason |-> "string?"]
      [] action = "MeterValues" -> [connectorId |-> "number", transactionId |-> "number?"]

\* The values of a type, as handlers rely on it: required strings say
\* something, and dates have the shape of ISO_DATE_REGEX, zone included.  (That
\* the shape is also a date, which 2024-99-99T99:99:99Z is not, no guard looks at.)
Typed(type) ==
    CASE type = "string"  -> {"words", "local", "zoned"}
      [] type = "string?" -> {"words", "local", "zoned", "absent"}
      [] type = "number"  -> Numbers
      [] type = "number?" -> Numbers \cup {"absent"}
      [] type = "date"    -> {"zoned"}
      [] type = "date?"   -> {"zoned", "absent"}

\* What a station may send for a type: also what the guards mend.
Sendable(type) ==
    Typed(type) \cup
    (CASE type = "string?" -> {"null", "empty", "blank"}
       [] type = "date"    -> {"local"}
       [] type = "date?"   -> {"local"} \cup Falsy
       [] OTHER            -> {})

Calls     == {k \in DOMAIN extracted : /\ extracted[k].opcode = 1 /\ extracted[k].fin
                                       /\ extracted[k].text.form = "array"
                                       /\ extracted[k].text.isCall
                                       /\ extracted[k].text.action \in Actions \ {"Heartbeat"}}
Passed(k) == Route(extracted[k].text) = "none"
Entries(payload) == {payload.meterValue[i] : i \in DOMAIN payload.meterValue}
Samples(entry)   == {entry.samples[i] : i \in DOMAIN entry.samples}

\* A handler is given what the interface of its payload promises: every field
\* is there with its type, and meter values have entries, dates and samples.
HandlersGetTyped ==
    \A k \in Calls :
        LET text == extracted[k].text
            type == Interface(text.action)
            kept == Parsed(Guards(text.action), text.payload.fields)
        IN  Passed(k) =>
                /\ DOMAIN kept = DOMAIN type
                /\ \A name \in DOMAIN type : kept[name] \in Typed(type[name])
                /\ text.action = "MeterValues" =>
                       /\ Entries(text.payload) # {}
                       /\ \A entry \in Entries(text.payload) :
                              /\ EnsureTimestamp(entry.timestamp) = "zoned"
                              /\ Samples(entry) # {}
                              /\ \A sample \in Samples(entry) :
                                     Field(sample.fields, "value") \in Typed("string")

\* A call that is refused for its payload has a fault there: no station that
\* keeps to the interfaces is turned away, whatever it leaves out or sends as
\* null where a string is optional; and PropertyConstraintViolation, for which
\* the station corrects a value rather than a type, is said of dates only.
FaultyField(text) ==
    \E name \in DOMAIN Interface(text.action) :
        Field(text.payload.fields, name) \notin Sendable(Interface(text.action)[name])
FaultySample(sample) ==
    \/ sample.shape = "scalar"
    \/ Field(sample.fields, "value") \notin Sendable("string")
    \/ \E name \in DOMAIN sample.fields \ {"value"} :
           sample.fields[name] \notin Sendable("string?")
FaultyEntry(entry) ==
    \/ entry.shape = "scalar" \/ entry.timestamp \notin Sendable("date") \/ entry.samples = <<>>
    \/ \E sample \in Samples(entry) : FaultySample(sample)
WordyDate(text) ==
    \/ Field(text.payload.fields, "timestamp") = "words"
    \/ text.action = "MeterValues" /\ \E entry \in Entries(text.payload) : entry.timestamp = "words"
RefusedIsFaulty ==
    \A k \in Calls :
        LET text    == extracted[k].text
            refusal == Route(text)
        IN  /\ refusal \in GuardErrors =>
                   \/ text.payload.shape = "scalar" \/ FaultyField(text)
                   \/ text.action = "MeterValues" /\ Entries(text.payload) = {}
                   \/ text.action = "MeterValues"
                      /\ \E entry \in Entries(text.payload) : FaultyEntry(entry)
            /\ refusal = "PropertyConstraintViolation" => WordyDate(text)

------------------------------------------------------------------------------
(* Handshake *)

\* A socket is opened exactly for requests that name a station under `ocpp',
\* bring a key, and offer no subprotocol or a supported one among others; the
\* subprotocol it is told is one it offered.
StationUnderOcpp(path) ==
    /\ Len(path) >= 2 /\ path[Len(path) - 1] = "ocpp"
    /\ \A i \in 1..(Len(path) - 2) : path[i] # "ocpp"
OpenedAsAsked ==
    LET request == dialogue.request
        path    == request.path
        offered == {request.offered[i] : i \in DOMAIN request.offered}
    IN  /\ protocol # "none" => protocol \in offered \cap SupportedSubprotocols
        /\ socket \in {"open", "ended"} =>
               /\ request.key /\ Len(path) >= 2 /\ path[Len(path) - 1] = "ocpp"
               /\ request.offers => protocol # "none"
        /\ socket = "destroyed" /\ taken = 0 /\ request.key /\ StationUnderOcpp(path)
           => request.offers /\ offered \cap SupportedSubprotocols = {}

------------------------------------------------------------------------------
(* The inductive invariant *)

\* A run that awaits a handler or the flush after it.
Awaiting(r)  == runs[r].at \in {"awaiting", "flushing"}
IsSequence(s) == Len(s) \in Nat /\ s = [i \in 1..Len(s) |-> s[i]]

SocketTypeOK ==
    /\ dialogue \in Dialogues
    /\ socket \in {"connecting", "open", "ended", "failed", "destroyed"}
    /\ arrived \in Nat /\ chunks \in Nat
    /\ IsSequence(extracted) /\ IsSequence(written)
    /\ DOMAIN runs = Runs
    /\ \A r \in Runs :
           \/ runs[r] = Idle \/ runs[r] = Taking
           \/ \E k \in DOMAIN extracted, at \in {"awaiting", "flushing"} :
                  runs[r] = [at |-> at, frame |-> k]

\* The place in the stream: behind the frames that were taken, all of which
\* have arrived.
TakenAsSent(k) ==
    [fin     |-> Frames[k].fin,
     opcode  |-> Frames[k].opcode,
     payload |-> Payload(Plain, 0, Frames[k].length),
     text    |-> IF Frames[k].fin /\ Frames[k].opcode = 1 THEN Frames[k].text ELSE Garbled]
PlaceOK ==
    /\ Len(extracted) <= Len(Frames)
    /\ taken = EndOf(Frames, Len(extracted))
    /\ taken <= arrived /\ arrived <= EndOf(Frames, Len(Frames))
    /\ \A k \in DOMAIN extracted : extracted[k] = TakenAsSent(k)

\* Nothing happens before the first chunk, or to a socket that is not open by
\* then; what one chunk brings is one run's.
ChunksOK ==
    /\ socket = "connecting" => chunks = 0 /\ protocol = "none"
    /\ chunks = 0 => arrived = 0 /\ Len(extracted) = 0 /\ Len(written) = 0 /\ AllIdle
    /\ chunks = 1 =>
           /\ \A r, q \in Runs : runs[r] # Idle /\ runs[q] # Idle => r = q
           /\ \A r \in Runs : Awaiting(r) => runs[r].frame = Len(extracted)
           /\ \A k \in DOMAIN extracted :
                  EndsItsRun(extracted[k]) => k = Len(extracted) /\ AllIdle

\* A run awaits the handler of a call, or the flush of a boot, and no other run
\* awaits that of the same.
AwaitingOK ==
    \A r \in Runs : Awaiting(r) =>
        /\ extracted[runs[r].frame].opcode = 1 /\ extracted[runs[r].frame].fin
        /\ Route(extracted[runs[r].frame].text) = "none"
        /\ runs[r].at = "flushing" =>
               extracted[runs[r].frame].text.action = "BootNotification"
        /\ \A q \in Runs : Awaiting(q) /\ runs[q].frame = runs[r].frame => q = r

\* Why a connection was lost.
Faulted(k) ==
    \/ ~extracted[k].fin \/ extracted[k].opcode \notin {1, 8, 9}
    \/ extracted[k].opcode = 1 /\ ~Identified(extracted[k].text)
DestroyedOK == socket = "destroyed" => chunks = 0 \/ \E k \in DOMAIN extracted : Faulted(k)

\* What an open socket has taken, it can answer; it rests when nothing complete
\* is left.
OpenOK ==
    socket = "open" =>
        /\ \A k \in DOMAIN extracted : extracted[k].fin /\ extracted[k].opcode \in {1, 9}
        /\ AllIdle => \/ Len(extracted) = Len(Frames)
                      \/ arrived < EndOf(Frames, Len(extracted) + 1)

\* What is written: payloads that are their length and their sample, about
\* frames that were taken.
IsPayload(p) ==
    /\ p.length \in Nat /\ p.length < Endless
    /\ p = [length |-> p.length, sample |-> p.sample]
    /\ p.sample = [i \in Sampled(p.length) |-> p.sample[i]]
WrittenOK ==
    \A n \in DOMAIN written :
        /\ written[n].opcode \in 0..15 /\ IsPayload(written[n].payload)
        /\ written[n].about \in DOMAIN extracted

\* How a socket was opened, or was not.
HandshakeOK ==
    LET request == dialogue.request
        path    == request.path
        offered == {request.offered[i] : i \in DOMAIN request.offered}
    IN  /\ protocol # "none" => protocol \in offered \cap SupportedSubprotocols
        /\ socket \in {"open", "ended"} =>
               /\ request.key /\ Len(path) >= 2 /\ path[Len(path) - 1] = "ocpp"
               /\ request.offers => protocol # "none"
        /\ socket = "destroyed" /\ chunks = 0 /\ request.key /\ StationUnderOcpp(path)
           => request.offers /\ offered \cap SupportedSubprotocols = {}

SocketInv ==
    /\ SocketTypeOK /\ PlaceOK /\ ChunksOK /\ AwaitingOK /\ DestroyedOK /\ OpenOK /\ WrittenOK
    /\ HandshakeOK /\ AnswersDue /\ InOrderWithinChunk
===============================================================================
