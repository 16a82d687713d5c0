----------------------------- MODULE StationSocket -----------------------------
(***************************************************************************)
(* One socket of a charging station from its handshake to the answers it   *)
(* is given: handleUpgrade, the runs of handleFrame over the bytes that    *)
(* arrive, what OcppService makes of each text, and the frames written.    *)
(* OcppServer has many sockets and what they share; here it is the bytes   *)
(* and the texts that count.                                               *)
(***************************************************************************)
EXTENDS FrameCodec, OcppMessages

CONSTANTS
    Dialogues,   \* what stations do: a request, the frames, where chunks may end
    Runs         \* slots for runs of handleFrame

VARIABLES
    dialogue,    \* the one of this behaviour
    socket,      \* `connecting', `open', `ended', `failed' or `destroyed'
    protocol,    \* the subprotocol of the answer to the handshake, or `none'
    arrived,     \* bytes that have arrived
    chunks,      \* history: in how many chunks
    taken,       \* bytes taken off the buffer
    extracted,   \* history: the frames taken off the buffer
    runs,        \* per slot a run of handleFrame
    written      \* history: what was written to the socket while it was open

vars == <<dialogue, socket, protocol, arrived, chunks, taken, extracted, runs, written>>

------------------------------------------------------------------------------
(* The bytes of a station, as RFC 6455 has them. *)

MaskKey == <<17, 202, 3, 94>>
Plain   == [i \in Nat |-> (37 * i + 11) % 128]

SentHeader(f) ==
    LET first  == (IF f.fin THEN 128 ELSE 0) + f.opcode
        masked == IF f.masked THEN 128 ELSE 0
    IN  (CASE f.length < 126      -> <<first, masked + f.length>>
           [] 126 <= f.length /\ f.length < 65536 -> <<first, masked + 126>> \o UInt16BE(f.length)
           [] f.length >= 65536   -> <<first, masked + 127>> \o UInt64BE(f.length))
        \o (IF f.masked THEN MaskKey ELSE <<>>)

SentByte(f, i) ==
    LET from == Len(SentHeader(f))
    IN  CASE i < from              -> SentHeader(f)[i + 1]
          [] i >= from /\ f.masked  -> Xor(Plain[i - from], MaskKey[((i - from) % 4) + 1])
          [] i >= from /\ ~f.masked -> Plain[i - from]

\* Where the k-th frame ends; the first begins at 0.
SentSize(f) == Len(SentHeader(f)) + f.length
EndOf(frames, k) ==
    LET end[n \in 0..Len(frames)] == IF n = 0 THEN 0 ELSE end[n - 1] + SentSize(frames[n])
    IN  end[k]

Stream(frames) ==
    [i \in Nat |->
        LET k == CHOOSE k \in DOMAIN frames : EndOf(frames, k - 1) <= i /\ i < EndOf(frames, k)
        IN  SentByte(frames[k], i - EndOf(frames, k - 1))]

\* The text of a payload: that of the frame sent, if these are its bytes.
Garbled == [form |-> "malformed"]
TextOf(payload, k) ==
    IF k \in DOMAIN dialogue.frames /\ payload = Payload(Plain, 0, dialogue.frames[k].length)
    THEN dialogue.frames[k].text ELSE Garbled

\* What a dialogue is: any request and any frames whose lengths the model can
\* tell, in chunks that end within them.  Of the texts it says only that what is
\* parsed as an array is one.
Listed(s) == Len(s) \in Nat /\ DOMAIN s = 1..Len(s)
IsText(text) ==
    text.form = "array" /\ text.isCall /\ text.action = "MeterValues" =>
        /\ Listed(text.payload.meterValue)
        /\ \A i \in DOMAIN text.payload.meterValue : Listed(text.payload.meterValue[i].samples)
IsDialogue(d) ==
    /\ Listed(d.frames)
    /\ \A k \in DOMAIN d.frames :
           /\ d.frames[k].fin \in BOOLEAN /\ d.frames[k].masked \in BOOLEAN
           /\ d.frames[k].opcode \in 0..15
           /\ d.frames[k].length \in Nat /\ d.frames[k].length < Endless
           /\ d.frames[k].opcode = 1 => IsText(d.frames[k].text)
    /\ d.cuts \subseteq 0..EndOf(d.frames, Len(d.frames))
    /\ d.request.key \in BOOLEAN /\ d.request.offers \in BOOLEAN
    /\ d.request.path \in Seq(STRING) /\ d.request.offered \in Seq(STRING)
ASSUME DialoguesAssumption == \A d \in Dialogues : IsDialogue(d)

------------------------------------------------------------------------------
(* handleUpgrade *)

SupportedSubprotocols == {"ocpp1.6", "ocpp1.6j"}

\* The first offer that is supported; `rejected' when there are offers and
\* none is.  Wrong: whether the first offer is supported.
NegotiateFirst(request) ==
    CASE ~request.offers -> "none"
      [] request.offers /\ request.offered[1] \in SupportedSubprotocols -> request.offered[1]
      [] OTHER -> "rejected"

NegotiateSubProtocol(request) ==
    LET first == SelectInSeq(request.offered, LAMBDA p : p \in SupportedSubprotocols)
    IN  CASE ~request.offers                -> "none"
          [] request.offers /\ first # 0    -> request.offered[first]
          [] request.offers /\ first = 0    -> "rejected"

\* The first `ocpp' of the path is its last segment but one.
NamesStation(path) ==
    LET ocpp == SelectInSeq(path, LAMBDA segment : segment = "ocpp")
    IN  ocpp # 0 /\ ocpp = Len(path) - 1

HandleUpgrade ==
    /\ socket = "connecting"
    /\ LET request  == dialogue.request
           selected == NegotiateSubProtocol(request)
       IN  IF NamesStation(request.path) /\ request.key /\ selected # "rejected"
           THEN socket' = "open" /\ protocol' = selected
           ELSE socket' = "destroyed" /\ UNCHANGED protocol
    /\ UNCHANGED <<dialogue, arrived, chunks, taken, extracted, runs, written>>

------------------------------------------------------------------------------
(* handleFrame *)

Idle  == [at |-> "idle", frame |-> 0]
Taking == [at |-> "next", frame |-> 0]
Quiet == \A r \in Runs : runs[r].at # "next"

RunIs(r, what) == runs' = [runs EXCEPT ![r] = what]

\* The listener for the socket's errors, a reset for one, destroys it, whatever
\* its runs are awaiting.  So a socket has `failed'; it is `destroyed' when
\* handleUpgrade or handleFrame gave it up.
SocketError ==
    /\ Quiet /\ socket \in {"open", "ended"}
    /\ socket' = "failed"
    /\ UNCHANGED <<dialogue, protocol, arrived, chunks, taken, extracted, runs, written>>

\* What is written to a destroyed socket disappears; a write to one that was
\* ended is an error too.
Emitted(frame) == written' = IF socket = "open" THEN Append(written, frame) ELSE written
Wrote(frame) ==
    /\ Emitted(frame)
    /\ socket' = IF socket = "ended" THEN "failed" ELSE socket

\* An answer is as long as the text it is the answer to, whose uniqueId it repeats.
WrittenFrame(k, opcode, payload, kind, id) ==
    [about |-> k, opcode |-> opcode, payload |-> payload, kind |-> kind, id |-> id]

SendText(k, kind, id) ==
    Wrote(WrittenFrame(k, 1, Payload(Plain, 0, dialogue.frames[k].length), kind, id))
SendPong(k, payload)  == Wrote(WrittenFrame(k, 10, payload, "pong", ""))

\* sendCloseFrame with a reason, the length of which is below 124, and destroy().
ClosePayload(code) ==
    [length |-> 16, sample |-> [i \in Sampled(16) |->
        IF i < 2 THEN UInt16BE(code)[i + 1] ELSE Plain[i]]]
CloseAndDestroy(k, code) ==
    /\ Emitted(WrittenFrame(k, 8, ClosePayload(code), "close", ""))
    /\ socket' = "destroyed"

\* A chunk arrives, and a run begins.
Chunk(r, n) ==
    /\ Quiet /\ socket \in {"open", "ended"}
    /\ runs[r] = Idle
    /\ n > arrived
    /\ arrived' = n
    /\ chunks' = chunks + 1
    /\ RunIs(r, Taking)
    /\ UNCHANGED <<dialogue, socket, protocol, taken, extracted, written>>

FrameAtHand == ExtractFrame(Stream(dialogue.frames), taken, arrived)

\* The frame is taken off the buffer.
Takes(f, text) ==
    /\ taken' = taken + f.size
    /\ extracted' = Append(extracted,
           [fin |-> f.fin, opcode |-> f.opcode, payload |-> f.payload, text |-> text])
    /\ UNCHANGED <<dialogue, protocol, arrived, chunks>>

RunEnds(r, f) ==
    /\ f = NoFrame
    /\ RunIs(r, Idle)
    /\ UNCHANGED <<dialogue, socket, protocol, arrived, chunks, taken, extracted, written>>

\* Wrong: the run goes on.
TakeUnsupportedOn(r, f, k) ==
    /\ f # NoFrame
    /\ ~f.fin \/ f.opcode \notin {1, 8, 9}
    /\ Takes(f, Garbled)
    /\ CloseAndDestroy(k, 1003)
    /\ UNCHANGED runs

\* A fragment, or an opcode that is neither text, nor ping, nor close.
TakeUnsupported(r, f, k) ==
    /\ f # NoFrame
    /\ ~f.fin \/ f.opcode \notin {1, 8, 9}
    /\ Takes(f, Garbled)
    /\ CloseAndDestroy(k, 1003)
    /\ RunIs(r, Idle)

TakeClose(r, f) ==
    /\ f.fin /\ f.opcode = 8
    /\ Takes(f, Garbled)
    /\ socket' = IF socket = "open" THEN "ended" ELSE socket
    /\ RunIs(r, Idle)
    /\ UNCHANGED written

\* Wrong: the run ends with the pong.
TakePingBreaking(r, f, k) ==
    /\ f.fin /\ f.opcode = 9
    /\ Takes(f, Garbled)
    /\ SendPong(k, f.payload)
    /\ RunIs(r, Idle)

TakePing(r, f, k) ==
    /\ f.fin /\ f.opcode = 9
    /\ Takes(f, Garbled)
    /\ SendPong(k, f.payload)
    /\ UNCHANGED runs

\* The catch of handleFrame: a CALLERROR, or the end of the connection when
\* the text has no id to answer to.
Caught(r, k, text, thrown) ==
    IF ErrorId(text) # NoString
    THEN SendText(k, ResolveError(thrown), ErrorId(text)) /\ RunIs(r, Taking)
    ELSE CloseAndDestroy(k, 1011) /\ RunIs(r, Idle)

\* Wrong: the handler is called without awaiting it.
TakeTextUnawaited(r, f, k, text) ==
    /\ f.fin /\ f.opcode = 1
    /\ Takes(f, text)
    /\ IF Route(text) = "none"
       THEN /\ \E q \in Runs : runs[q] = Idle /\ RunIs(q, [at |-> "awaiting", frame |-> k])
            /\ UNCHANGED <<socket, written>>
       ELSE Caught(r, k, text, Route(text))

\* handleMessage: what is not refused awaits its handler.
TakeText(r, f, k, text) ==
    /\ f.fin /\ f.opcode = 1
    /\ Takes(f, text)
    /\ IF Route(text) = "none"
       THEN RunIs(r, [at |-> "awaiting", frame |-> k]) /\ UNCHANGED <<socket, written>>
       ELSE Caught(r, k, text, Route(text))

Turn(r) ==
    /\ runs[r].at = "next"
    /\ LET f == FrameAtHand
           k == Len(extracted) + 1
       IN  \/ RunEnds(r, f) \/ TakeUnsupported(r, f, k) \/ TakeClose(r, f)
           \/ TakePing(r, f, k) \/ TakeText(r, f, k, TextOf(f.payload, k))

\* Wrong: the answer is to the call taken last.
AwaitedLast(r) ==
    SelectLastInSeq(extracted, LAMBDA frame : frame.opcode = 1 /\ Route(frame.text) = "none")
Awaited(r)     == runs[r].frame

\* The handler's result is sent; after a boot's the run awaits the flush of what
\* is queued for the station.  Without a database this comes in the turn in
\* which the handler was called, which is one of the interleavings here.
HandlerAnswers(r) ==
    /\ Quiet /\ runs[r].at = "awaiting"
    /\ LET k    == Awaited(r)
           text == extracted[k].text
       IN  /\ SendText(k, "result", text.uniqueId)
           /\ RunIs(r, IF text.action = "BootNotification"
                       THEN [at |-> "flushing", frame |-> k] ELSE Taking)
    /\ UNCHANGED <<dialogue, protocol, arrived, chunks, taken, extracted>>

\* Or what it throws: an OcppCallError of its own, or any other error.
HandlerThrows(r) ==
    /\ Quiet /\ runs[r].at = "awaiting"
    /\ LET text == extracted[Awaited(r)].text
       IN  \E thrown \in ThrownBy(text.action) \cup {"error"} :
               Caught(r, Awaited(r), text, thrown)
    /\ UNCHANGED <<dialogue, protocol, arrived, chunks, taken, extracted>>

\* The flush is over.  What it writes, the server's own calls, is OcppServer's;
\* that a write may fail is SocketError.
FlushOver(r) ==
    /\ Quiet /\ runs[r].at = "flushing"
    /\ RunIs(r, Taking)
    /\ UNCHANGED <<dialogue, socket, protocol, arrived, chunks, taken, extracted, written>>

\* Or a statement of it failed: the same catch answers a second time.
FlushRejected(r) ==
    /\ Quiet /\ runs[r].at = "flushing"
    /\ Caught(r, Awaited(r), extracted[Awaited(r)].text, "error")
    /\ UNCHANGED <<dialogue, protocol, arrived, chunks, taken, extracted>>

------------------------------------------------------------------------------
Init ==
    /\ dialogue \in Dialogues
    /\ socket = "connecting" /\ protocol = "none"
    /\ arrived = 0 /\ chunks = 0 /\ taken = 0
    /\ extracted = <<>>
    /\ runs = [r \in Runs |-> Idle]
    /\ written = <<>>

Next ==
    \/ HandleUpgrade \/ SocketError
    \/ \E r \in Runs :
           \/ \E n \in dialogue.cuts : Chunk(r, n)
           \/ Turn(r) \/ HandlerAnswers(r) \/ HandlerThrows(r)
           \/ FlushOver(r) \/ FlushRejected(r)

Spec == Init /\ [][Next]_vars
===============================================================================
