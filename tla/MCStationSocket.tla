---------------------------- MODULE MCStationSocket ----------------------------
(* Dialogues for TLC: every kind of text alone, frames of every header in pairs *)
(* and every chunk, calls of which several are handled at once, handshakes.     *)
EXTENDS StationSocketProps, TLC

CONSTANTS r1, r2

Obj(fields) == [shape |-> "object", fields |-> fields, meterValue |-> <<>>]
Text(form, isCall, id, action, payload) ==
    [form |-> form, isCall |-> isCall, uniqueId |-> id, action |-> action, payload |-> payload]
Call(id, action, payload) == Text("array", TRUE, id, action, payload)

\* Valid payloads, and those that differ from one of them in one field.
Valid ==
    [a \in Actions |->
        CASE a \in {"Heartbeat", "MeterValues"} -> [connectorId |-> "number"]
          [] a = "BootNotification"   -> [chargePointVendor |-> "words", chargePointModel |-> "words"]
          [] a = "Authorize"          -> [idTag |-> "words"]
          [] a = "StatusNotification" -> [connectorId |-> "zero", errorCode |-> "words",
                                          status |-> "words", timestamp |-> "zoned"]
          [] a = "StartTransaction"   -> [connectorId |-> "number", idTag |-> "words",
                                          meterStart |-> "zero", timestamp |-> "zoned"]
          [] a = "StopTransaction"    -> [transactionId |-> "number", meterStop |-> "number",
                                          timestamp |-> "local"]]
Fields(a) == IF a = "Heartbeat" THEN {"connectorId"} ELSE DOMAIN Interface(a)
OneOff(a) == {(name :> v) @@ Valid[a] : name \in Fields(a), v \in Values}

\* Meter values: entries of one sample, of two, and of none.
Sample(fields) == [shape |-> "object", fields |-> fields]
Entry(date, samples) == [shape |-> "object", timestamp |-> date, samples |-> samples]
GoodSample == Sample([value |-> "words"])
SomeSamples ==
    {Sample(("value" :> v)) : v \in Values} \cup
    {Sample(("value" :> "words") @@ (name :> v)) : name \in {"context", "unit"}, v \in Values} \cup
    {[shape |-> shape, fields |-> <<>>] : shape \in {"array", "scalar"}}
SomeEntries ==
    {Entry(v, <<GoodSample>>) : v \in Values} \cup
    {Entry("zoned", <<GoodSample, s>>) : s \in SomeSamples} \cup
    {Entry("words", <<>>), [shape |-> "scalar", timestamp |-> "absent", samples |-> <<>>]}
Metered(fields, entries) == [shape |-> "object", fields |-> fields, meterValue |-> entries]
MeterPayloads ==
    {Metered(f, <<Entry("zoned", <<GoodSample>>)>>) : f \in OneOff("MeterValues")} \cup
    {Metered(Valid["MeterValues"], <<Entry("zoned", <<GoodSample>>), e>>) : e \in SomeEntries} \cup
    {Metered(("connectorId" :> "words"), entries) :
        entries \in {<<>>, <<Entry("words", <<GoodSample>>)>>}}

Shapes == {[shape |-> s, fields |-> <<>>, meterValue |-> <<>>] : s \in {"missing", "array", "scalar"}}
Payloads(a) == (IF a = "MeterValues" THEN MeterPayloads ELSE {Obj(f) : f \in OneOff(a)}) \cup Shapes

Heartbeat(id) == Call(id, "Heartbeat", Obj(<<>>))
Texts ==
    UNION {{Call("a", a, p) : p \in Payloads(a)} : a \in Actions} \cup
    {Text(form, isCall, id, "Heartbeat", Obj(<<>>)) :
        form \in {"short", "array"}, isCall \in BOOLEAN, id \in {"a", "", NoString}} \cup
    {Call(id, "DataTransfer", Obj(<<>>)) : id \in {"a", ""}} \cup
    {[form |-> "malformed"], [form |-> "notArray"]}

Frame(opcode, length, text) ==
    [fin |-> TRUE, opcode |-> opcode, masked |-> TRUE, length |-> length, text |-> text]

\* Frames of every header.
Lengths == {60, 125, 126, 65535, 65536}
Bad     == Text("array", FALSE, "b", "Heartbeat", Obj(<<>>))
Headers ==
    {Frame(1, n, Heartbeat("a")) : n \in Lengths} \cup
    {Frame(9, n, Garbled) : n \in {0, 1, 125}} \cup
    {[Frame(1, 126, Heartbeat("a")) EXCEPT !.masked = FALSE],
     [Frame(1, 60, Heartbeat("a")) EXCEPT !.fin = FALSE],
     Frame(2, 60, Heartbeat("a")), Frame(8, 2, Garbled),
     Frame(1, 60, Bad), Frame(1, 60, [form |-> "malformed"])}

Boot == Frame(1, 60, Call("b", "BootNotification", Obj(Valid["BootNotification"])))

\* Chunks end anywhere in a header, before the last byte, and at the end.
ByteCuts(frames) ==
    UNION {LET from == EndOf(frames, k - 1)
               end  == EndOf(frames, k)
           IN  {from + i : i \in 1..Len(SentHeader(frames[k]))} \cup {end - 1, end}
           : k \in DOMAIN frames}
FrameCuts(frames) == {EndOf(frames, k) : k \in DOMAIN frames}

Request(path, key, offers, offered) ==
    [path |-> path, key |-> key, offers |-> offers, offered |-> offered]
Asked == Request(<<"ocpp", "s1">>, TRUE, TRUE, <<"ocpp1.6">>)
Requests ==
    {Request(path, key, TRUE, <<"ocpp1.6">>) :
        path \in UNION {[1..n -> {"ocpp", "v1", "s1"}] : n \in 0..3}, key \in BOOLEAN} \cup
    {Request(<<"ocpp", "s1">>, TRUE, FALSE, <<>>)} \cup
    {Request(<<"ocpp", "s1">>, TRUE, TRUE, offered) :
        offered \in UNION {[1..n -> {"ocpp1.6", "ocpp1.6j", "ocpp2.0.1"}] : n \in 1..2}}

Dialogue(request, frames, cuts) == [request |-> request, frames |-> frames, cuts |-> cuts]
Alone(text) == LET frames == <<Frame(1, 60, text)>> IN Dialogue(Asked, frames, FrameCuts(frames))

MCDialogues ==
    {Alone(text) : text \in Texts} \cup
    {Dialogue(Asked, frames, ByteCuts(frames)) : frames \in Headers \X Headers} \cup
    {LET frames == <<Frame(1, 60, Heartbeat("a")), f, Frame(1, 60, Heartbeat("c"))>>
     IN  Dialogue(Asked, frames, FrameCuts(frames)) : f \in Headers \cup {Boot}} \cup
    {Dialogue(request, <<>>, {}) : request \in Requests}

MCSymmetry == Permutations(Runs)
===============================================================================
