-------------------------- MODULE OcppMessages_proofs --------------------------
(***************************************************************************)
(* Proofs about the guards of messages/schemas.ts: what a handler is given *)
(* has the types of its interface, and what is refused lacks them.  They   *)
(* hold of every text, since a guard only tells kinds of values apart.     *)
(***************************************************************************)
EXTENDS StationSocket_proofs

------------------------------------------------------------------------------
(* What is thrown *)

\* Nothing is thrown if nothing that is evaluated throws, and what is thrown is
\* what one of them throws.
LEMMA ThrownIs ==
    ASSUME NEW outcomes, NEW otherwise
    PROVE  /\ FirstThrown(outcomes, otherwise) \notin Thrown =>
                  /\ \A i \in 1..Len(outcomes) : outcomes[i] \notin Thrown
                  /\ FirstThrown(outcomes, otherwise) = otherwise
           /\ FirstThrown(outcomes, otherwise) \in Thrown =>
                  \/ FirstThrown(outcomes, otherwise) = otherwise
                  \/ \E i \in 1..Len(outcomes) : FirstThrown(outcomes, otherwise) = outcomes[i]
<1> DEFINE first == FirstIn(outcomes, Thrown)
<1>1. FirstThrown(outcomes, otherwise) = IF first = 0 THEN otherwise ELSE outcomes[first]
  BY DEF FirstThrown, SelectInSeq, FirstIn
<1>2. \/ first = 0 /\ \A i \in 1..Len(outcomes) : outcomes[i] \notin Thrown
      \/ first \in 1..Len(outcomes) /\ outcomes[first] \in Thrown
  BY FirstInIs
<1>3. 0 \notin 1..Len(outcomes)
  BY SMT
<1> HIDE DEF first
<1> QED BY <1>1, <1>2, <1>3

\* A sequence that is made from one element by element.
LEMMA Mapped ==
    ASSUME NEW s, Listed(s), NEW t, DOMAIN t = DOMAIN s, t = [i \in DOMAIN s |-> t[i]]
    PROVE  Len(t) = Len(s)
<1> DEFINE n == Len(s)
           set == {t[i] : i \in 1..n}
<1>1. n \in Nat /\ DOMAIN t = 1..n /\ t = [i \in 1..n |-> t[i]]
  BY DEF Listed
<1> HIDE DEF n
<1>2. t \in [1..n -> set]
  BY <1>1
<1> HIDE DEF set
<1>3. t \in Seq(set) /\ Len(t) = n
  BY <1>1, <1>2, SeqDef
<1> QED BY <1>3 DEF n

\* The guard of a type.
GuardFor(type) ==
    CASE type = "string"  -> "string"
      [] type = "string?" -> "optionalString"
      [] type = "number"  -> "number"
      [] type = "number?" -> "optionalNumber"
      [] type = "date"    -> "timestamp"
      [] type = "date?"   -> "optionalTimestamp"
Types == {"string", "string?", "number", "number?", "date", "date?"}

LEMMA GuardIs ==
    ASSUME NEW type \in Types, NEW v
    PROVE  LET kept == Ensure(GuardFor(type), v)
           IN  /\ kept \notin Thrown => kept \in Typed(type)
               /\ kept \in Thrown => v \notin Sendable(type)
               /\ kept = "PropertyConstraintViolation" => type \in {"date", "date?"} /\ v = "words"
<1> USE DEF Thrown, GuardErrors, RouterErrors, Strings, Numbers, Falsy, Typed, Sendable,
            EnsureString, EnsureNumber
<1>1. CASE type = "string"
  <2>1. Ensure(GuardFor(type), v) = EnsureString(v)
    BY <1>1 DEF GuardFor, Ensure
  <2> QED BY <1>1, <2>1
<1>2. CASE type = "string?"
  <2>1. Ensure(GuardFor(type), v) = EnsureOptionalString(v)
    BY <1>2 DEF GuardFor, Ensure
  <2> QED BY <1>2, <2>1 DEF EnsureOptionalString
<1>3. CASE type = "number"
  <2>1. Ensure(GuardFor(type), v) = EnsureNumber(v)
    BY <1>3 DEF GuardFor, Ensure
  <2> QED BY <1>3, <2>1
<1>4. CASE type = "number?"
  <2>1. Ensure(GuardFor(type), v) = EnsureOptionalNumber(v)
    BY <1>4 DEF GuardFor, Ensure
  <2> QED BY <1>4, <2>1 DEF EnsureOptionalNumber
<1>5. CASE type = "date"
  <2>1. Ensure(GuardFor(type), v) = EnsureTimestamp(v)
    BY <1>5 DEF GuardFor, Ensure
  <2> QED BY <1>5, <2>1 DEF EnsureTimestamp
<1>6. CASE type = "date?"
  <2>1. Ensure(GuardFor(type), v) = EnsureOptionalTimestamp(v)
    BY <1>6 DEF GuardFor, Ensure
  <2> QED BY <1>6, <2>1 DEF EnsureOptionalTimestamp, EnsureTimestamp
<1> QED BY <1>1, <1>2, <1>3, <1>4, <1>5, <1>6 DEF Types

------------------------------------------------------------------------------
(* The guards of a payload are those of its interface *)

Guarding(guards, type) ==
    /\ Listed(guards)
    /\ \A i \in DOMAIN guards : /\ guards[i][1] \in DOMAIN type /\ type[guards[i][1]] \in Types
                                /\ guards[i][2] = GuardFor(type[guards[i][1]])
    /\ \A name \in DOMAIN type : \E i \in DOMAIN guards : guards[i][1] = name

\* Joined sequences.
LEMMA JoinedAny ==
    ASSUME NEW s, IsSequence(s), NEW t, IsSequence(t)
    PROVE  /\ IsSequence(s \o t) /\ Len(s \o t) = Len(s) + Len(t)
           /\ DOMAIN (s \o t) = 1..(Len(s) + Len(t))
           /\ \A i \in 1..Len(s) : (s \o t)[i] = s[i]
           /\ \A i \in 1..Len(t) : (s \o t)[Len(s) + i] = t[i]
<1> DEFINE set == {s[i] : i \in 1..Len(s)} \cup {t[i] : i \in 1..Len(t)}
           u   == s \o t
<1>1. Len(s) \in Nat /\ Len(t) \in Nat /\ s \in Seq(set) /\ t \in Seq(set)
  <2>1. /\ Len(s) \in Nat /\ Len(t) \in Nat
        /\ s \in Seq({s[i] : i \in 1..Len(s)}) /\ t \in Seq({t[i] : i \in 1..Len(t)})
    BY Sequenced
  <2> QED BY <2>1, SeqMonotonic
<1> HIDE DEF set
<1>2. /\ u \in Seq(set) /\ Len(u) = Len(s) + Len(t)
      /\ \A i \in 1..(Len(s) + Len(t)) : u[i] = IF i <= Len(s) THEN s[i] ELSE t[i - Len(s)]
  BY <1>1, ConcatProperties
<1> HIDE DEF u
<1>3. Len(u) \in Nat /\ u \in [1..Len(u) -> set]
  BY <1>2, LenProperties
<1>4. IsSequence(u) /\ DOMAIN u = 1..(Len(s) + Len(t))
  BY <1>2, <1>3 DEF IsSequence
<1>5. \A i \in 1..Len(s) : u[i] = s[i]
  BY <1>1, <1>2
<1>6. ASSUME NEW i \in 1..Len(t)
      PROVE  u[Len(s) + i] = t[i]
  <2>1. /\ Len(s) + i \in 1..(Len(s) + Len(t)) /\ ~(Len(s) + i <= Len(s))
        /\ (Len(s) + i) - Len(s) = i
    BY <1>1
  <2> QED BY <1>2, <2>1
<1> QED BY <1>2, <1>4, <1>5, <1>6 DEF u

LEMMA OptionalsIs ==
    ASSUME NEW fields, IsSequence(fields)
    PROVE  /\ IsSequence(Optionals(fields)) /\ Len(Optionals(fields)) = Len(fields)
           /\ \A i \in 1..Len(fields) : Optionals(fields)[i] = <<fields[i], "optionalString">>
<1> DEFINE t == Optionals(fields)
<1>1. Len(fields) \in Nat /\ DOMAIN fields = 1..Len(fields)
  BY Sequenced
<1>2. t = [i \in 1..Len(fields) |-> <<fields[i], "optionalString">>]
  BY <1>1 DEF Optionals
<1>3. DOMAIN t = DOMAIN fields /\ t = [i \in DOMAIN fields |-> t[i]]
  BY <1>1, <1>2
<1>4. Listed(fields)
  BY <1>1 DEF Listed
<1>5. \A i \in 1..Len(fields) : t[i] = <<fields[i], "optionalString">>
  BY <1>2
<1> HIDE DEF t
<1>6. Len(t) = Len(fields)
  BY <1>3, <1>4, Mapped
<1> QED BY <1>1, <1>3, <1>5, <1>6 DEF t, IsSequence

\* Guards of required fields, and then of optional strings.
Required(first, type) ==
    \A i \in 1..Len(first) :
        /\ first[i][1] \in DOMAIN type /\ type[first[i][1]] \in Types
        /\ first[i][2] = GuardFor(type[first[i][1]])
Optional(fields, type) ==
    \A i \in 1..Len(fields) : fields[i] \in DOMAIN type /\ type[fields[i]] = "string?"
Complete(first, fields, type) ==
    \A name \in DOMAIN type : \/ \E i \in 1..Len(first) : first[i][1] = name
                              \/ \E i \in 1..Len(fields) : fields[i] = name

LEMMA Guarded ==
    ASSUME NEW first, IsSequence(first), NEW fields, IsSequence(fields), NEW type,
           Required(first, type), Optional(fields, type), Complete(first, fields, type)
    PROVE  Guarding(first \o Optionals(fields), type)
<1> DEFINE rest == Optionals(fields)
           g    == first \o rest
           m    == Len(first)
           n    == Len(fields)
<1>1. /\ IsSequence(rest) /\ Len(rest) = n /\ m \in Nat /\ n \in Nat
      /\ \A i \in 1..n : rest[i] = <<fields[i], "optionalString">>
  BY OptionalsIs, Sequenced
<1> HIDE DEF rest, n
<1>2. /\ IsSequence(g) /\ Len(g) = m + n /\ DOMAIN g = 1..(m + n)
      /\ \A i \in 1..m : g[i] = first[i]
      /\ \A i \in 1..n : g[m + i] = rest[i]
  <2>1. /\ IsSequence(first \o rest) /\ Len(first \o rest) = Len(first) + Len(rest)
        /\ DOMAIN (first \o rest) = 1..(Len(first) + Len(rest))
        /\ \A i \in 1..Len(first) : (first \o rest)[i] = first[i]
        /\ \A i \in 1..Len(rest) : (first \o rest)[Len(first) + i] = rest[i]
    <3>1. IsSequence(rest) /\ IsSequence(first)
      BY <1>1
    <3> QED BY ONLY <3>1, JoinedAny
  <2> HIDE DEF n
  <2> QED BY <1>1, <2>1
<1> HIDE DEF m, g
<1>3. Listed(g)
  BY <1>1, <1>2 DEF Listed
<1>4. \A i \in 1..m : g[i] = first[i] /\ i \in DOMAIN g
  BY <1>1, <1>2
<1>5. \A i \in 1..n : g[m + i] = <<fields[i], "optionalString">> /\ m + i \in DOMAIN g
  BY <1>1, <1>2
<1>6. \A j \in DOMAIN g : j \in 1..m \/ \E i \in 1..n : j = m + i
  <2> SUFFICES ASSUME NEW j \in 1..(m + n), j \notin 1..m
               PROVE  \E i \in 1..n : j = m + i
    BY <1>2
  <2>1. j - m \in 1..n /\ j = m + (j - m)
    BY <1>1
  <2> QED BY <2>1
<1> DEFINE Fits(pair) == /\ pair[1] \in DOMAIN type /\ type[pair[1]] \in Types
                         /\ pair[2] = GuardFor(type[pair[1]])
<1>7. \A i \in 1..m : Fits(first[i])
  BY DEF m, Required
<1>8. ASSUME NEW i \in 1..n
      PROVE  Fits(<<fields[i], "optionalString">>)
  <2>1. fields[i] \in DOMAIN type /\ type[fields[i]] = "string?"
    BY DEF n, Optional
  <2> QED BY <2>1 DEF Types, GuardFor
<1> HIDE DEF Fits
<1>9. ASSUME NEW j \in DOMAIN g
      PROVE  Fits(g[j])
  <2>1. CASE j \in 1..m
    BY <1>4, <1>7, <2>1
  <2>2. ASSUME NEW i \in 1..n, j = m + i
        PROVE  Fits(g[j])
    <3>1. g[j] = <<fields[i], "optionalString">>
      BY <1>5, <2>2
    <3> QED BY <1>8, <3>1
  <2> QED BY <1>6, <2>1, <2>2
<1>10. ASSUME NEW name \in DOMAIN type
       PROVE  \E j \in DOMAIN g : g[j][1] = name
  <2>1. CASE \E i \in 1..m : first[i][1] = name
    BY <1>4, <2>1
  <2>2. ASSUME NEW i \in 1..n, fields[i] = name
        PROVE  \E j \in DOMAIN g : g[j][1] = name
    <3>1. <<fields[i], "optionalString">>[1] = name
      BY <2>2
    <3> QED BY <1>5, <3>1
  <2> QED BY <2>1, <2>2 DEF m, n, Complete
<1> QED BY <1>3, <1>9, <1>10 DEF Guarding, Fits, g, rest

\* Of a handful of numbers.
LEMMA Few ==
    /\ 1..1 = {1} /\ 1..2 = {1, 2} /\ 1..3 = {1, 2, 3} /\ 1..4 = {1, 2, 3, 4}
    /\ 1..5 = {1, 2, 3, 4, 5} /\ 1..6 = {1, 2, 3, 4, 5, 6} /\ 1..7 = {1, 2, 3, 4, 5, 6, 7}
BY SMT

LEMMA BootNotificationGuarded == Guarding(BootNotificationGuards, Interface("BootNotification"))
<1> DEFINE first  == <<<<"chargePointVendor", "string">>, <<"chargePointModel", "string">>>>
           fields == <<"chargePointSerialNumber", "chargeBoxSerialNumber", "firmwareVersion",
                       "iccid", "imsi", "meterSerialNumber", "meterType">>
           type   == Interface("BootNotification")
<1>1. IsSequence(first) /\ IsSequence(fields) /\ Len(first) = 2 /\ Len(fields) = 7
  BY Few DEF IsSequence
<1>2. Required(first, type)
  BY <1>1, Few DEF Required, Interface, Types, GuardFor
<1>3. Optional(fields, type)
  BY <1>1, Few DEF Optional, Interface
<1>4. Complete(first, fields, type)
  BY <1>1, Few DEF Complete, Interface
<1> HIDE DEF first, fields, type
<1>5. Guarding(first \o Optionals(fields), type)
  BY <1>1, <1>2, <1>3, <1>4, Guarded
<1> QED BY <1>5 DEF BootNotificationGuards, first, fields, type

LEMMA StatusNotificationGuarded == Guarding(StatusNotificationGuards, Interface("StatusNotification"))
<1> DEFINE first  == <<<<"connectorId", "number">>, <<"errorCode", "string">>, <<"status",
                       "string">>, <<"timestamp", "optionalTimestamp">>>>
           fields == <<"info", "vendorId", "vendorErrorCode">>
           type   == Interface("StatusNotification")
<1>1. IsSequence(first) /\ IsSequence(fields) /\ Len(first) = 4 /\ Len(fields) = 3
  BY Few DEF IsSequence
<1>2. Required(first, type)
  BY <1>1, Few DEF Required, Interface, Types, GuardFor
<1>3. Optional(fields, type)
  BY <1>1, Few DEF Optional, Interface
<1>4. Complete(first, fields, type)
  BY <1>1, Few DEF Complete, Interface
<1> HIDE DEF first, fields, type
<1>5. Guarding(first \o Optionals(fields), type)
  BY <1>1, <1>2, <1>3, <1>4, Guarded
<1> QED BY <1>5 DEF StatusNotificationGuards, first, fields, type

LEMMA StopTransactionGuarded == Guarding(StopTransactionGuards, Interface("StopTransaction"))
<1> DEFINE first  == <<<<"transactionId", "number">>, <<"meterStop", "number">>,
                       <<"timestamp", "timestamp">>>>
           fields == <<"idTag", "reason">>
           type   == Interface("StopTransaction")
<1>1. IsSequence(first) /\ IsSequence(fields) /\ Len(first) = 3 /\ Len(fields) = 2
  BY Few DEF IsSequence
<1>2. Required(first, type)
  BY <1>1, Few DEF Required, Interface, Types, GuardFor
<1>3. Optional(fields, type)
  BY <1>1, Few DEF Optional, Interface
<1>4. Complete(first, fields, type)
  BY <1>1, Few DEF Complete, Interface
<1> HIDE DEF first, fields, type
<1>5. Guarding(first \o Optionals(fields), type)
  BY <1>1, <1>2, <1>3, <1>4, Guarded
<1> QED BY <1>5 DEF StopTransactionGuards, first, fields, type

\* The fields of a sampled value, for which there is no more than an interface.
SampledValue == [value |-> "string", context |-> "string?", format |-> "string?",
                 measurand |-> "string?", phase |-> "string?", location |-> "string?",
                 unit |-> "string?"]

LEMMA SampledValueGuarded == Guarding(SampledValueGuards, SampledValue)
<1> DEFINE first  == <<<<"value", "string">>>>
           fields == <<"context", "format", "measurand", "phase", "location", "unit">>
           type   == SampledValue
<1>1. IsSequence(first) /\ IsSequence(fields) /\ Len(first) = 1 /\ Len(fields) = 6
  BY Few DEF IsSequence
<1>2. Required(first, type)
  BY <1>1, Few DEF Required, SampledValue, Types, GuardFor
<1>3. Optional(fields, type)
  BY <1>1, Few DEF Optional, SampledValue
<1>4. Complete(first, fields, type)
  BY <1>1, Few DEF Complete, SampledValue
<1> HIDE DEF first, fields, type
<1>5. Guarding(first \o Optionals(fields), type)
  BY <1>1, <1>2, <1>3, <1>4, Guarded
<1> QED BY <1>5 DEF SampledValueGuards, first, fields, type

LEMMA AuthorizeGuarded == Guarding(AuthorizeGuards, Interface("Authorize"))
<1>1. Listed(AuthorizeGuards) /\ DOMAIN AuthorizeGuards = 1..1
  BY Few DEF Listed, AuthorizeGuards
<1> QED BY <1>1, Few DEF Guarding, AuthorizeGuards, Interface, Types, GuardFor

LEMMA StartTransactionGuarded == Guarding(StartTransactionGuards, Interface("StartTransaction"))
<1>1. Listed(StartTransactionGuards) /\ DOMAIN StartTransactionGuards = 1..5
  BY Few DEF Listed, StartTransactionGuards
<1> QED BY <1>1, Few DEF Guarding, StartTransactionGuards, Interface, Types, GuardFor

LEMMA MeterValuesGuarded == Guarding(MeterValuesGuards, Interface("MeterValues"))
<1>1. Listed(MeterValuesGuards) /\ DOMAIN MeterValuesGuards = 1..2
  BY Few DEF Listed, MeterValuesGuards
<1> QED BY <1>1, Few DEF Guarding, MeterValuesGuards, Interface, Types, GuardFor

LEMMA GuardsAre ==
    ASSUME NEW action \in Actions \ {"Heartbeat"}
    PROVE  Guarding(Guards(action), Interface(action))
<1>1. action \in {"BootNotification", "Authorize", "StatusNotification", "StartTransaction",
                  "StopTransaction", "MeterValues"}
  BY DEF Actions
<1>2. CASE action = "BootNotification"
  BY <1>2, BootNotificationGuarded DEF Guards
<1>3. CASE action = "Authorize"
  BY <1>3, AuthorizeGuarded DEF Guards
<1>4. CASE action = "StatusNotification"
  BY <1>4, StatusNotificationGuarded DEF Guards
<1>5. CASE action = "StartTransaction"
  BY <1>5, StartTransactionGuarded DEF Guards
<1>6. CASE action = "StopTransaction"
  BY <1>6, StopTransactionGuarded DEF Guards
<1>7. CASE action = "MeterValues"
  BY <1>7, MeterValuesGuarded DEF Guards
<1> QED BY <1>1, <1>2, <1>3, <1>4, <1>5, <1>6, <1>7

------------------------------------------------------------------------------
(* What the guards make of an object *)

LEMMA OutcomesAre ==
    ASSUME NEW guards, NEW type, Guarding(guards, type), NEW object
    PROVE  LET outcomes == Outcomes(guards, object)
           IN  /\ IsSequence(outcomes) /\ Len(outcomes) = Len(guards)
               /\ DOMAIN outcomes = 1..Len(guards) /\ DOMAIN guards = 1..Len(guards)
               /\ \A i \in DOMAIN guards :
                      outcomes[i] = Ensure(GuardFor(type[guards[i][1]]), Field(object, guards[i][1]))
<1> DEFINE outcomes == Outcomes(guards, object)
<1>1. Listed(guards) /\ Len(guards) \in Nat /\ DOMAIN guards = 1..Len(guards)
  BY DEF Guarding, Listed
<1>2. outcomes = [i \in DOMAIN guards |-> Ensure(guards[i][2], Field(object, guards[i][1]))]
  BY DEF Outcomes
<1>3. DOMAIN outcomes = DOMAIN guards /\ outcomes = [i \in DOMAIN guards |-> outcomes[i]]
  BY <1>2
<1>4. ASSUME NEW i \in DOMAIN guards
      PROVE  outcomes[i] = Ensure(GuardFor(type[guards[i][1]]), Field(object, guards[i][1]))
  <2>1. guards[i][2] = GuardFor(type[guards[i][1]])
    BY DEF Guarding
  <2> QED BY <1>2, <2>1
<1> HIDE DEF outcomes
<1>5. Len(outcomes) = Len(guards)
  BY <1>1, <1>3, Mapped
<1> QED BY <1>1, <1>3, <1>4, <1>5 DEF IsSequence, outcomes

LEMMA KeptIsTyped ==
    ASSUME NEW guards, NEW type, Guarding(guards, type), NEW object,
           \A i \in DOMAIN guards : Outcomes(guards, object)[i] \notin Thrown
    PROVE  /\ DOMAIN Parsed(guards, object) = DOMAIN type
           /\ \A name \in DOMAIN type : Parsed(guards, object)[name] \in Typed(type[name])
<1> DEFINE kept == Parsed(guards, object)
           which(name) == CHOOSE i \in DOMAIN guards : guards[i][1] = name
           names == {guards[i][1] : i \in DOMAIN guards}
<1>1. names = DOMAIN type
  BY DEF Guarding
<1>2. kept = [name \in names |-> Outcomes(guards, object)[which(name)]]
  BY DEF Parsed
<1>3. ASSUME NEW name \in DOMAIN type
      PROVE  kept[name] \in Typed(type[name])
  <2>1. which(name) \in DOMAIN guards /\ guards[which(name)][1] = name
    BY DEF Guarding
  <2>2. kept[name] = Outcomes(guards, object)[which(name)]
    BY <1>1, <1>2
  <2> HIDE DEF kept, which
  <2>3. kept[name] = Ensure(GuardFor(type[name]), Field(object, name)) /\ kept[name] \notin Thrown
    BY <2>1, <2>2, OutcomesAre
  <2>4. type[name] \in Types
    BY <2>1 DEF Guarding
  <2> QED BY <2>3, <2>4, GuardIs
<1> QED BY <1>1, <1>2, <1>3

LEMMA ThrownIsFaulty ==
    ASSUME NEW guards, NEW type, Guarding(guards, type), NEW object, NEW i \in DOMAIN guards,
           Outcomes(guards, object)[i] \in Thrown
    PROVE  /\ guards[i][1] \in DOMAIN type
           /\ Field(object, guards[i][1]) \notin Sendable(type[guards[i][1]])
           /\ Outcomes(guards, object)[i] = "PropertyConstraintViolation" =>
                  type[guards[i][1]] \in {"date", "date?"} /\ Field(object, guards[i][1]) = "words"
<1>1. guards[i][1] \in DOMAIN type /\ type[guards[i][1]] \in Types
  BY DEF Guarding
<1>2. Outcomes(guards, object)[i] = Ensure(GuardFor(type[guards[i][1]]), Field(object, guards[i][1]))
  BY OutcomesAre
<1> QED BY <1>1, <1>2, GuardIs

------------------------------------------------------------------------------
(* Meter values *)

\* Each of a sequence of outcomes is looked at, and one there must be.
LEMMA EachIs ==
    ASSUME NEW outcomes, IsSequence(outcomes)
    PROVE  /\ EnsureEach(outcomes) \notin Thrown =>
                  DOMAIN outcomes # {} /\ \A i \in DOMAIN outcomes : outcomes[i] \notin Thrown
           /\ EnsureEach(outcomes) \in Thrown =>
                  \/ DOMAIN outcomes = {} /\ EnsureEach(outcomes) = "TypeConstraintViolation"
                  \/ \E i \in DOMAIN outcomes : EnsureEach(outcomes) = outcomes[i]
<1> DEFINE otherwise == IF outcomes = <<>> THEN "TypeConstraintViolation" ELSE "array"
<1>1. DOMAIN outcomes = 1..Len(outcomes)
  BY Sequenced
<1>2. DOMAIN outcomes = {} <=> outcomes = <<>>
  <2>1. Len(outcomes) \in Nat /\ outcomes = [i \in 1..Len(outcomes) |-> outcomes[i]]
    BY DEF IsSequence
  <2>2. ASSUME DOMAIN outcomes = {}
        PROVE  outcomes = <<>>
    <3>1. Len(outcomes) = 0
      <4>1. 1 \notin 1..Len(outcomes)
        BY <1>1, <2>2
      <4> QED BY <2>1, <4>1
    <3>2. outcomes \in Seq({outcomes[i] : i \in 1..Len(outcomes)})
      BY Sequenced
    <3> QED BY <3>1, <3>2, EmptySeq
  <2>3. ASSUME outcomes = <<>>
        PROVE  DOMAIN outcomes = {}
    BY ONLY <2>3
  <2> QED BY <2>2, <2>3
<1>3. EnsureEach(outcomes) = FirstThrown(outcomes, otherwise)
  BY DEF EnsureEach
<1>4. otherwise \notin Thrown => otherwise # "TypeConstraintViolation"
  BY DEF Thrown, GuardErrors
<1>5. outcomes # <<>> => otherwise \notin Thrown
  BY DEF Thrown, GuardErrors, RouterErrors
<1>6. outcomes = <<>> => otherwise = "TypeConstraintViolation"
  OBVIOUS
<1> HIDE DEF otherwise
<1>7. ASSUME EnsureEach(outcomes) \notin Thrown
      PROVE  DOMAIN outcomes # {} /\ \A i \in DOMAIN outcomes : outcomes[i] \notin Thrown
  BY <1>1, <1>2, <1>3, <1>4, <1>6, <1>7, ThrownIs
<1>8. ASSUME EnsureEach(outcomes) \in Thrown
      PROVE  \/ DOMAIN outcomes = {} /\ EnsureEach(outcomes) = "TypeConstraintViolation"
             \/ \E i \in DOMAIN outcomes : EnsureEach(outcomes) = outcomes[i]
  BY <1>1, <1>2, <1>3, <1>5, <1>6, <1>8, ThrownIs
<1> QED BY <1>7, <1>8

LEMMA SampleIs ==
    ASSUME NEW sample
    PROVE  /\ ParseSampledValue(sample) \notin Thrown =>
                  Field(sample.fields, "value") \in Typed("string")
           /\ ParseSampledValue(sample) \in Thrown =>
                  FaultySample(sample) /\ ParseSampledValue(sample) # "PropertyConstraintViolation"
<1> DEFINE outcomes == Outcomes(SampledValueGuards, sample.fields)
           result   == FirstThrown(outcomes, "object")
<1>1. ParseSampledValue(sample) =
          IF sample.shape = "scalar" THEN "TypeConstraintViolation" ELSE result
  BY DEF ParseSampledValue, EnsureObject
<1>2. "object" \notin Thrown /\ "TypeConstraintViolation" \in Thrown
      /\ "TypeConstraintViolation" # "PropertyConstraintViolation"
  BY DEF Thrown, GuardErrors, RouterErrors
<1>3. /\ DOMAIN SampledValueGuards = 1..Len(outcomes)
      /\ \A i \in DOMAIN SampledValueGuards :
             outcomes[i] = Ensure(GuardFor(SampledValue[SampledValueGuards[i][1]]),
                                  Field(sample.fields, SampledValueGuards[i][1]))
  BY SampledValueGuarded, OutcomesAre
<1>4. /\ DOMAIN SampledValue = {"value", "context", "format", "measurand", "phase", "location", "unit"}
      /\ SampledValue["value"] = "string"
      /\ \A name \in DOMAIN SampledValue \ {"value"} : SampledValue[name] = "string?"
  BY DEF SampledValue
<1>5. ASSUME ParseSampledValue(sample) \notin Thrown
      PROVE  Field(sample.fields, "value") \in Typed("string")
  <2>1. \A i \in 1..Len(outcomes) : outcomes[i] \notin Thrown
    <3> HIDE DEF outcomes
    <3>1. result \notin Thrown
      BY <1>1, <1>2, <1>5
    <3> QED BY <3>1, ThrownIs
  <2>2. PICK i \in DOMAIN SampledValueGuards : SampledValueGuards[i][1] = "value"
    BY <1>4, SampledValueGuarded DEF Guarding
  <2>3. Ensure(GuardFor("string"), Field(sample.fields, "value")) \notin Thrown
    <3> HIDE DEF outcomes
    <3> QED BY <1>3, <1>4, <2>1, <2>2
  <2>4. PICK v : v = Field(sample.fields, "value")
    OBVIOUS
  <2>5. Ensure(GuardFor("string"), v) = EnsureString(v)
    BY DEF Ensure, GuardFor
  <2>6. EnsureString(v) \notin Thrown
    BY <2>3, <2>4, <2>5
  <2>7. v \in Strings \ {"empty", "blank"}
    BY <2>6 DEF EnsureString, Thrown, GuardErrors
  <2>8. v \in Typed("string")
    BY <2>7 DEF Strings, Typed
  <2> QED BY <2>4, <2>8
<1>6. ASSUME ParseSampledValue(sample) \in Thrown
      PROVE  FaultySample(sample) /\ ParseSampledValue(sample) # "PropertyConstraintViolation"
  <2>1. CASE sample.shape = "scalar"
    BY <1>1, <1>2, <2>1 DEF FaultySample
  <2>2. CASE sample.shape # "scalar"
    <3>1. PICK i \in DOMAIN SampledValueGuards : result = outcomes[i] /\ outcomes[i] \in Thrown
      <4> HIDE DEF outcomes
      <4> QED BY <1>1, <1>2, <1>3, <1>6, <2>2, ThrownIs
    <3> DEFINE name == SampledValueGuards[i][1]
    <3>2. /\ name \in DOMAIN SampledValue
          /\ Field(sample.fields, name) \notin Sendable(SampledValue[name])
          /\ outcomes[i] = "PropertyConstraintViolation" => SampledValue[name] \in {"date", "date?"}
      BY <3>1, SampledValueGuarded, ThrownIsFaulty
    <3> HIDE DEF name, outcomes
    <3>3. result # "PropertyConstraintViolation"
      BY <1>4, <3>1, <3>2
    <3>4. FaultySample(sample)
      <4>1. CASE name = "value"
        BY <1>4, <3>2, <4>1 DEF FaultySample
      <4>2. CASE name # "value"
        <5>1. Field(sample.fields, name) \notin Sendable("string?")
          BY <1>4, <3>2, <4>2
        <5>2. name \in DOMAIN sample.fields /\ Field(sample.fields, name) = sample.fields[name]
          BY <5>1 DEF Field, Sendable, Typed
        <5> QED BY <4>2, <5>1, <5>2 DEF FaultySample
      <4> QED BY <4>1, <4>2
    <3> QED BY <1>1, <2>2, <3>3, <3>4
  <2> QED BY <2>1, <2>2
<1> QED BY <1>5, <1>6

LEMMA EntryIs ==
    ASSUME NEW entry, Listed(entry.samples)
    PROVE  /\ ParseMeterValueEntry(entry) \notin Thrown =>
                  /\ EnsureTimestamp(entry.timestamp) = "zoned" /\ Samples(entry) # {}
                  /\ \A sample \in Samples(entry) : Field(sample.fields, "value") \in Typed("string")
           /\ ParseMeterValueEntry(entry) \in Thrown => FaultyEntry(entry)
           /\ ParseMeterValueEntry(entry) = "PropertyConstraintViolation" => entry.timestamp = "words"
<1> DEFINE parsed   == [i \in DOMAIN entry.samples |-> ParseSampledValue(entry.samples[i])]
           each     == EnsureEach(parsed)
           date     == EnsureTimestamp(entry.timestamp)
           outcomes == <<each, date>>
           result   == FirstThrown(outcomes, "object")
<1>1. ParseMeterValueEntry(entry) =
          IF entry.shape = "scalar" THEN "TypeConstraintViolation" ELSE result
  BY DEF ParseMeterValueEntry, EnsureObject
<1>2. "object" \notin Thrown /\ "TypeConstraintViolation" \in Thrown
      /\ "PropertyConstraintViolation" \in Thrown
      /\ "TypeConstraintViolation" # "PropertyConstraintViolation"
  BY DEF Thrown, GuardErrors, RouterErrors
<1>3. IsSequence(parsed) /\ DOMAIN parsed = DOMAIN entry.samples
  <2>1. DOMAIN parsed = DOMAIN entry.samples /\ parsed = [i \in DOMAIN entry.samples |-> parsed[i]]
    OBVIOUS
  <2>2. Len(entry.samples) \in Nat /\ DOMAIN entry.samples = 1..Len(entry.samples)
    BY DEF Listed
  <2> HIDE DEF parsed
  <2>3. Len(parsed) = Len(entry.samples)
    BY <2>1, Mapped
  <2> QED BY <2>1, <2>2, <2>3 DEF IsSequence
<1>4. \A i \in DOMAIN entry.samples : parsed[i] = ParseSampledValue(entry.samples[i])
  OBVIOUS
<1>5. /\ date \notin Thrown => date = "zoned"
      /\ date \in Thrown => entry.timestamp \notin Sendable("date")
      /\ date = "PropertyConstraintViolation" => entry.timestamp = "words"
  <2>1. date = Ensure(GuardFor("date"), entry.timestamp) /\ Typed("date") = {"zoned"}
        /\ "date" \in Types
    BY DEF Ensure, GuardFor, Typed, Types
  <2> HIDE DEF date
  <2> QED BY <2>1, GuardIs
<1> HIDE DEF parsed, each, date
<1>6. Len(outcomes) = 2 /\ outcomes[1] = each /\ outcomes[2] = date
  OBVIOUS
<1>7. 1..Len(outcomes) = {1, 2}
  BY <1>6, Few
<1> HIDE DEF outcomes
<1>8. result \notin Thrown => each \notin Thrown /\ date \notin Thrown
  BY <1>6, <1>7, ThrownIs
<1>9. result \in Thrown => result = each \/ result = date
  BY <1>2, <1>6, <1>7, ThrownIs
<1> HIDE DEF result
<1>10. /\ each \notin Thrown => DOMAIN parsed # {} /\ \A i \in DOMAIN parsed : parsed[i] \notin Thrown
       /\ each \in Thrown => \/ DOMAIN parsed = {} /\ each = "TypeConstraintViolation"
                             \/ \E i \in DOMAIN parsed : each = parsed[i]
  BY <1>3, EachIs DEF each
<1>11. ASSUME ParseMeterValueEntry(entry) \notin Thrown
       PROVE  /\ EnsureTimestamp(entry.timestamp) = "zoned" /\ Samples(entry) # {}
              /\ \A sample \in Samples(entry) : Field(sample.fields, "value") \in Typed("string")
  <2>1. each \notin Thrown /\ date = "zoned"
    BY <1>1, <1>2, <1>5, <1>8, <1>11
  <2>2. /\ DOMAIN entry.samples # {}
        /\ \A i \in DOMAIN entry.samples : ParseSampledValue(entry.samples[i]) \notin Thrown
    BY <1>3, <1>4, <1>10, <2>1
  <2>3. \A i \in DOMAIN entry.samples :
            Field(entry.samples[i].fields, "value") \in Typed("string")
    BY <2>2, SampleIs
  <2> QED BY <2>1, <2>2, <2>3 DEF Samples, date
<1>12. ASSUME each \in Thrown
       PROVE  FaultyEntry(entry) /\ each # "PropertyConstraintViolation"
  <2>1. CASE DOMAIN parsed = {} /\ each = "TypeConstraintViolation"
    <3>1. entry.samples = <<>>
      <4>1. DOMAIN entry.samples = {} /\ Len(entry.samples) = 0
        <5>1. 1 \notin 1..Len(entry.samples) /\ Len(entry.samples) \in Nat
          BY <1>3, <2>1 DEF Listed
        <5> QED BY <1>3, <2>1, <5>1
      <4> QED BY <4>1
    <3> QED BY <1>2, <2>1, <3>1 DEF FaultyEntry
  <2>2. ASSUME NEW i \in DOMAIN parsed, each = parsed[i]
        PROVE  FaultyEntry(entry) /\ each # "PropertyConstraintViolation"
    <3>1. i \in DOMAIN entry.samples /\ ParseSampledValue(entry.samples[i]) = each
      BY <1>3, <1>4, <2>2
    <3>2. FaultySample(entry.samples[i]) /\ each # "PropertyConstraintViolation"
      BY <1>12, <3>1, SampleIs
    <3>3. entry.samples[i] \in Samples(entry)
      BY <3>1 DEF Samples
    <3> QED BY <3>2, <3>3 DEF FaultyEntry
  <2> QED BY <1>10, <1>12, <2>1, <2>2
<1>13. date \in Thrown => FaultyEntry(entry)
  BY <1>5 DEF FaultyEntry
<1>14. ASSUME ParseMeterValueEntry(entry) \in Thrown
       PROVE  FaultyEntry(entry)
  BY <1>1, <1>9, <1>12, <1>13, <1>14 DEF FaultyEntry
<1>15. ASSUME ParseMeterValueEntry(entry) = "PropertyConstraintViolation"
       PROVE  entry.timestamp = "words"
  BY <1>1, <1>2, <1>5, <1>9, <1>12, <1>15
<1> QED BY <1>11, <1>14, <1>15

LEMMA EntriesAre ==
    ASSUME NEW payload, Listed(payload.meterValue),
           \A i \in DOMAIN payload.meterValue : Listed(payload.meterValue[i].samples)
    PROVE  LET result == ParseMeterValue(payload.meterValue)
           IN  /\ result \notin Thrown =>
                      /\ Entries(payload) # {}
                      /\ \A entry \in Entries(payload) :
                             /\ EnsureTimestamp(entry.timestamp) = "zoned" /\ Samples(entry) # {}
                             /\ \A sample \in Samples(entry) :
                                    Field(sample.fields, "value") \in Typed("string")
               /\ result \in Thrown =>
                      Entries(payload) = {} \/ \E entry \in Entries(payload) : FaultyEntry(entry)
               /\ result = "PropertyConstraintViolation" =>
                      \E entry \in Entries(payload) : entry.timestamp = "words"
<1> DEFINE entries == payload.meterValue
           parsed  == [i \in DOMAIN entries |-> ParseMeterValueEntry(entries[i])]
           result  == ParseMeterValue(entries)
<1>1. IsSequence(parsed) /\ DOMAIN parsed = DOMAIN entries
  <2>1. DOMAIN parsed = DOMAIN entries /\ parsed = [i \in DOMAIN entries |-> parsed[i]]
    OBVIOUS
  <2>2. Len(entries) \in Nat /\ DOMAIN entries = 1..Len(entries)
    BY DEF Listed
  <2> HIDE DEF parsed
  <2>3. Len(parsed) = Len(entries)
    BY <2>1, Mapped
  <2> QED BY <2>1, <2>2, <2>3 DEF IsSequence
<1>2. \A i \in DOMAIN entries : parsed[i] = ParseMeterValueEntry(entries[i])
  OBVIOUS
<1>3. result = EnsureEach(parsed)
  BY DEF ParseMeterValue
<1>4. \A i \in DOMAIN entries : entries[i] \in Entries(payload)
  BY DEF Entries
<1>5. \A entry \in Entries(payload) : \E i \in DOMAIN entries : entry = entries[i]
  BY DEF Entries
<1>6. \A i \in DOMAIN entries : Listed(entries[i].samples)
  OBVIOUS
<1> HIDE DEF entries, parsed, result
<1>7. /\ result \notin Thrown => DOMAIN parsed # {} /\ \A i \in DOMAIN parsed : parsed[i] \notin Thrown
      /\ result \in Thrown => \/ DOMAIN parsed = {} /\ result = "TypeConstraintViolation"
                              \/ \E i \in DOMAIN parsed : result = parsed[i]
  BY <1>1, <1>3, EachIs
<1>8. "PropertyConstraintViolation" \in Thrown
      /\ "TypeConstraintViolation" # "PropertyConstraintViolation"
  BY DEF Thrown, GuardErrors
<1>9. ASSUME result \notin Thrown
      PROVE  /\ Entries(payload) # {}
             /\ \A entry \in Entries(payload) :
                    /\ EnsureTimestamp(entry.timestamp) = "zoned" /\ Samples(entry) # {}
                    /\ \A sample \in Samples(entry) :
                           Field(sample.fields, "value") \in Typed("string")
  <2>1. /\ DOMAIN entries # {}
        /\ \A i \in DOMAIN entries : ParseMeterValueEntry(entries[i]) \notin Thrown
    BY <1>1, <1>2, <1>7, <1>9
  <2>2. ASSUME NEW entry \in Entries(payload)
        PROVE  /\ EnsureTimestamp(entry.timestamp) = "zoned" /\ Samples(entry) # {}
               /\ \A sample \in Samples(entry) : Field(sample.fields, "value") \in Typed("string")
    <3>1. Listed(entry.samples) /\ ParseMeterValueEntry(entry) \notin Thrown
      BY <1>5, <1>6, <2>1
    <3> QED BY <3>1, EntryIs
  <2> QED BY <1>4, <2>1, <2>2
<1>10. ASSUME result \in Thrown
       PROVE  /\ Entries(payload) = {} \/ \E entry \in Entries(payload) : FaultyEntry(entry)
              /\ result = "PropertyConstraintViolation" =>
                     \E entry \in Entries(payload) : entry.timestamp = "words"
  <2>1. CASE DOMAIN parsed = {} /\ result = "TypeConstraintViolation"
    BY <1>1, <1>5, <1>8, <2>1
  <2>2. ASSUME NEW i \in DOMAIN parsed, result = parsed[i]
        PROVE  /\ \E entry \in Entries(payload) : FaultyEntry(entry)
               /\ result = "PropertyConstraintViolation" =>
                      \E entry \in Entries(payload) : entry.timestamp = "words"
    <3>1. /\ i \in DOMAIN entries /\ result = ParseMeterValueEntry(entries[i])
          /\ entries[i] \in Entries(payload) /\ Listed(entries[i].samples)
      BY <1>1, <1>2, <1>4, <1>6, <2>2
    <3>2. /\ FaultyEntry(entries[i])
          /\ result = "PropertyConstraintViolation" => entries[i].timestamp = "words"
      BY <1>10, <3>1, EntryIs
    <3> QED BY <3>1, <3>2
  <2> QED BY <1>7, <1>10, <2>1, <2>2
<1> QED BY <1>8, <1>9, <1>10 DEF entries, result

------------------------------------------------------------------------------
(* Calls *)

\* What the parse function of an action looks at, in its order: the meter values
\* come first.
EntriesFirst(action, payload) ==
    IF action = "MeterValues" THEN <<ParseMeterValue(payload.meterValue)>> ELSE <<>>

LEMMA RefusalIs ==
    ASSUME NEW action \in Actions \ {"Heartbeat"}, NEW payload
    PROVE  LET outcomes == Outcomes(Guards(action), payload.fields)
               entries  == ParseMeterValue(payload.meterValue)
               refusal  == Refusal(action, payload)
           IN  /\ refusal = "none" =>
                      /\ \A i \in DOMAIN Guards(action) : outcomes[i] \notin Thrown
                      /\ action = "MeterValues" => entries \notin Thrown
               /\ refusal \in Thrown =>
                      \/ payload.shape = "scalar" /\ refusal = "TypeConstraintViolation"
                      \/ \E i \in DOMAIN Guards(action) : refusal = outcomes[i]
                      \/ action = "MeterValues" /\ refusal = entries
<1> DEFINE outcomes == Outcomes(Guards(action), payload.fields)
           entries  == ParseMeterValue(payload.meterValue)
           refusal  == Refusal(action, payload)
           first    == EntriesFirst(action, payload)
           all      == first \o outcomes
           n        == IF action = "MeterValues" THEN 1 ELSE 0
<1>1. refusal = IF payload.shape = "scalar" THEN "TypeConstraintViolation"
                ELSE FirstThrown(all, "none")
  BY DEF Refusal, EnsureObject, EntriesFirst
<1>2. IsSequence(outcomes) /\ Len(outcomes) \in Nat /\ DOMAIN Guards(action) = 1..Len(outcomes)
  <2>1. IsSequence(outcomes) /\ Len(outcomes) = Len(Guards(action))
        /\ DOMAIN Guards(action) = 1..Len(Guards(action))
    BY GuardsAre, OutcomesAre
  <2>2. Len(Guards(action)) \in Nat
    BY GuardsAre DEF Guarding, Listed
  <2> QED BY <2>1, <2>2
<1>3. /\ IsSequence(first) /\ Len(first) = n
      /\ action = "MeterValues" => first[1] = entries
  <2>1. CASE action = "MeterValues"
    <3>1. first = <<entries>>
      BY <2>1 DEF EntriesFirst
    <3> HIDE DEF first, entries
    <3>2. Len(first) = 1 /\ first[1] = entries /\ first = [i \in 1..1 |-> first[i]]
      BY <3>1
    <3> QED BY <2>1, <3>2 DEF IsSequence
  <2>2. CASE action # "MeterValues"
    <3>1. first = <<>>
      BY <2>2 DEF EntriesFirst
    <3> HIDE DEF first
    <3>2. Len(first) = 0 /\ first = [i \in 1..0 |-> first[i]]
      BY <3>1
    <3> QED BY <2>2, <3>2 DEF IsSequence
  <2> QED BY <2>1, <2>2
<1>4. "none" \notin Thrown /\ "TypeConstraintViolation" # "none"
      /\ "TypeConstraintViolation" \in Thrown
  BY DEF Thrown, GuardErrors, RouterErrors
<1>5. n \in {0, 1} /\ (n = 1 <=> action = "MeterValues")
  OBVIOUS
<1> HIDE DEF outcomes, entries, refusal, first, n
<1>6. /\ IsSequence(all) /\ Len(all) = n + Len(outcomes)
      /\ \A i \in 1..n : all[i] = first[i]
      /\ \A i \in 1..Len(outcomes) : all[n + i] = outcomes[i]
  <2>1. IsSequence(first) /\ IsSequence(outcomes)
    BY <1>2, <1>3
  <2>2. /\ IsSequence(all) /\ Len(all) = Len(first) + Len(outcomes)
        /\ \A i \in 1..Len(first) : all[i] = first[i]
        /\ \A i \in 1..Len(outcomes) : all[Len(first) + i] = outcomes[i]
    BY ONLY <2>1, JoinedAny
  <2>3. Len(first) = n
    BY <1>3
  <2> HIDE DEF all
  <2> QED BY ONLY <2>2, <2>3
<1> HIDE DEF all
<1>7. ASSUME refusal = "none"
      PROVE  /\ \A i \in DOMAIN Guards(action) : outcomes[i] \notin Thrown
             /\ action = "MeterValues" => entries \notin Thrown
  <2>1. \A i \in 1..Len(all) : all[i] \notin Thrown
    BY <1>1, <1>4, <1>7, ThrownIs
  <2>2. ASSUME NEW i \in DOMAIN Guards(action)
        PROVE  outcomes[i] \notin Thrown
    <3>1. n + i \in 1..Len(all)
      BY <1>2, <1>5, <1>6
    <3>2. all[n + i] = outcomes[i]
      BY <1>2, <1>6
    <3> QED BY <2>1, <3>1, <3>2
  <2>3. ASSUME action = "MeterValues"
        PROVE  entries \notin Thrown
    <3>1. 1 \in 1..Len(all) /\ 1 \in 1..n
      BY <1>2, <1>5, <1>6, <2>3
    <3>2. all[1] = entries
      BY <1>3, <1>6, <2>3, <3>1
    <3> QED BY <2>1, <3>1, <3>2
  <2> QED BY <2>2, <2>3
<1>8. ASSUME refusal \in Thrown, ~(payload.shape = "scalar" /\ refusal = "TypeConstraintViolation")
      PROVE  \/ \E i \in DOMAIN Guards(action) : refusal = outcomes[i]
             \/ action = "MeterValues" /\ refusal = entries
  <2>1. PICK i \in 1..Len(all) : refusal = all[i]
    BY <1>1, <1>4, <1>8, ThrownIs
  <2>2. CASE i \in 1..n
    <3>1. action = "MeterValues" /\ i = 1
      BY <1>5, <2>2
    <3> QED BY <1>3, <1>6, <2>1, <2>2, <3>1
  <2>3. CASE i \notin 1..n
    <3>1. i - n \in 1..Len(outcomes) /\ n + (i - n) = i
      BY <1>2, <1>5, <1>6, <2>3
    <3>2. refusal = outcomes[i - n]
      BY <1>6, <2>1, <3>1
    <3> QED BY <1>2, <3>1, <3>2
  <2> QED BY <2>2, <2>3
<1> QED BY <1>7, <1>8 DEF outcomes, entries, refusal

\* Every date of an interface is a timestamp.
LEMMA DatesAre ==
    ASSUME NEW action \in Actions \ {"Heartbeat"}, NEW name \in DOMAIN Interface(action),
           Interface(action)[name] \in {"date", "date?"}
    PROVE  name = "timestamp"
<1> DEFINE type == Interface(action)
<1>1. action \in {"BootNotification", "Authorize", "StatusNotification", "StartTransaction",
                  "StopTransaction", "MeterValues"}
  BY DEF Actions
<1>2. CASE action = "BootNotification"
  BY <1>2 DEF Interface
<1>3. CASE action = "Authorize"
  BY <1>3 DEF Interface
<1>4. CASE action = "StatusNotification"
  BY <1>4 DEF Interface
<1>5. CASE action = "StartTransaction"
  BY <1>5 DEF Interface
<1>6. CASE action = "StopTransaction"
  BY <1>6 DEF Interface
<1>7. CASE action = "MeterValues"
  BY <1>7 DEF Interface
<1> QED BY <1>1, <1>2, <1>3, <1>4, <1>5, <1>6, <1>7

\* A call that was taken, whose text is that of the frame sent.
LEMMA CallIs ==
    ASSUME SocketTypeOK, PlaceOK, NEW k \in Calls
    PROVE  LET text == extracted[k].text
           IN  /\ text.action \in Actions \ {"Heartbeat"}
               /\ Route(text) = "none" => Refusal(text.action, text.payload) = "none"
               /\ Route(text) \in GuardErrors => Refusal(text.action, text.payload) = Route(text)
               /\ text.action = "MeterValues" =>
                      /\ Listed(text.payload.meterValue)
                      /\ \A i \in DOMAIN text.payload.meterValue :
                             Listed(text.payload.meterValue[i].samples)
<1> DEFINE text == extracted[k].text
<1>1. /\ k \in DOMAIN extracted /\ extracted[k].opcode = 1 /\ extracted[k].fin
      /\ text.form = "array" /\ text.isCall /\ text.action \in Actions \ {"Heartbeat"}
  BY DEF Calls
<1>2. extracted[k] = TakenAsSent(k)
  BY <1>1 DEF PlaceOK
<1>3. Frames[k].opcode = 1 /\ text = Frames[k].text
  BY <1>1, <1>2 DEF TakenAsSent
<1>4. k \in DOMAIN Frames
  <2>1. DOMAIN extracted = 1..Len(extracted) /\ Len(extracted) \in Nat
    BY Sequenced DEF SocketTypeOK
  <2>2. Len(Frames) \in Nat /\ DOMAIN Frames = 1..Len(Frames)
    BY DialogueIs DEF AreFrames
  <2>3. Len(extracted) <= Len(Frames)
    BY DEF PlaceOK
  <2> QED BY <1>1, <2>1, <2>2, <2>3
<1>5. IsText(text)
  <2>1. IsDialogue(dialogue)
    BY DialoguesAssumption DEF SocketTypeOK
  <2> QED BY <1>3, <1>4, <2>1 DEF IsDialogue, Frames
<1> HIDE DEF text
<1>6. Route(text) = IF text.uniqueId = NoString THEN "ProtocolError"
                    ELSE Refusal(text.action, text.payload)
  BY <1>1 DEF Route
<1>7. "ProtocolError" \notin GuardErrors
  BY DEF GuardErrors
<1> QED BY <1>1, <1>5, <1>6, <1>7 DEF IsText, text
------------------------------------------------------------------------------
(* Theorems *)

\* Whatever a station puts into the fields of a call, a handler is given every
\* field of the interface with its type; and meter values bring at least one
\* entry, each with an instant and at least one sample whose value says something.
THEOREM HandlersAreGivenTypes == Spec => []HandlersGetTyped
<1>1. SocketInv => HandlersGetTyped
  <2> SUFFICES ASSUME SocketTypeOK, PlaceOK, NEW k \in Calls, Passed(k)
               PROVE  LET text == extracted[k].text
                          type == Interface(text.action)
                          kept == Parsed(Guards(text.action), text.payload.fields)
                      IN  /\ DOMAIN kept = DOMAIN type
                          /\ \A name \in DOMAIN type : kept[name] \in Typed(type[name])
                          /\ text.action = "MeterValues" =>
                                 /\ Entries(text.payload) # {}
                                 /\ \A entry \in Entries(text.payload) :
                                        /\ EnsureTimestamp(entry.timestamp) = "zoned"
                                        /\ Samples(entry) # {}
                                        /\ \A sample \in Samples(entry) :
                                               Field(sample.fields, "value") \in Typed("string")
    BY DEF SocketInv, HandlersGetTyped
  <2>1. PICK text : text = extracted[k].text
    OBVIOUS
  <2>2. PICK action : action = text.action
    OBVIOUS
  <2>3. PICK payload : payload = text.payload
    OBVIOUS
  <2>4. /\ action \in Actions \ {"Heartbeat"}
        /\ Refusal(action, payload) = "none"
        /\ action = "MeterValues" =>
               /\ Listed(payload.meterValue)
               /\ \A i \in DOMAIN payload.meterValue : Listed(payload.meterValue[i].samples)
    BY <2>1, <2>2, <2>3, CallIs DEF Passed
  <2>5. /\ \A i \in DOMAIN Guards(action) : Outcomes(Guards(action), payload.fields)[i] \notin Thrown
        /\ action = "MeterValues" => ParseMeterValue(payload.meterValue) \notin Thrown
    BY <2>4, RefusalIs
  <2>6. Guarding(Guards(action), Interface(action))
    BY <2>4, GuardsAre
  <2>7. /\ DOMAIN Parsed(Guards(action), payload.fields) = DOMAIN Interface(action)
        /\ \A name \in DOMAIN Interface(action) :
               Parsed(Guards(action), payload.fields)[name] \in Typed(Interface(action)[name])
    BY <2>5, <2>6, KeptIsTyped
  <2>8. ASSUME action = "MeterValues"
        PROVE  /\ Entries(payload) # {}
               /\ \A entry \in Entries(payload) :
                      /\ EnsureTimestamp(entry.timestamp) = "zoned" /\ Samples(entry) # {}
                      /\ \A sample \in Samples(entry) :
                             Field(sample.fields, "value") \in Typed("string")
    BY <2>4, <2>5, <2>8, EntriesAre
  <2> QED BY <2>1, <2>2, <2>3, <2>7, <2>8
<1> QED BY <1>1, SocketInvariant, PTL

\* Whatever a station puts into the fields of a call, it is refused for its
\* payload only if a value there is none that the interface lets it send; and
\* PropertyConstraintViolation only if a timestamp there is no date.
THEOREM RefusalsAreDue == Spec => []RefusedIsFaulty
<1>1. SocketInv => RefusedIsFaulty
  <2> SUFFICES ASSUME SocketTypeOK, PlaceOK, NEW k \in Calls
               PROVE  LET text    == extracted[k].text
                          refusal == Route(text)
                      IN  /\ refusal \in GuardErrors =>
                                 \/ text.payload.shape = "scalar" \/ FaultyField(text)
                                 \/ text.action = "MeterValues" /\ Entries(text.payload) = {}
                                 \/ text.action = "MeterValues"
                                    /\ \E entry \in Entries(text.payload) : FaultyEntry(entry)
                          /\ refusal = "PropertyConstraintViolation" => WordyDate(text)
    BY DEF SocketInv, RefusedIsFaulty
  <2>1. PICK text : text = extracted[k].text
    OBVIOUS
  <2>2. PICK action : action = text.action
    OBVIOUS
  <2>3. PICK payload : payload = text.payload
    OBVIOUS
  <2>4. PICK refusal : refusal = Route(text)
    OBVIOUS
  <2>5. /\ action \in Actions \ {"Heartbeat"}
        /\ refusal \in GuardErrors => Refusal(action, payload) = refusal
        /\ action = "MeterValues" =>
               /\ Listed(payload.meterValue)
               /\ \A i \in DOMAIN payload.meterValue : Listed(payload.meterValue[i].samples)
    BY <2>1, <2>2, <2>3, <2>4, CallIs
  <2>6. /\ GuardErrors \subseteq Thrown /\ "PropertyConstraintViolation" \in GuardErrors
        /\ "TypeConstraintViolation" # "PropertyConstraintViolation"
    BY DEF Thrown, GuardErrors
  <2>7. ASSUME refusal \in GuardErrors
        PROVE  /\ \/ payload.shape = "scalar" \/ FaultyField(text)
                  \/ action = "MeterValues" /\ Entries(payload) = {}
                  \/ action = "MeterValues" /\ \E entry \in Entries(payload) : FaultyEntry(entry)
               /\ refusal = "PropertyConstraintViolation" => WordyDate(text)
    <3>1. \/ payload.shape = "scalar" /\ refusal = "TypeConstraintViolation"
          \/ \E i \in DOMAIN Guards(action) : refusal = Outcomes(Guards(action), payload.fields)[i]
          \/ action = "MeterValues" /\ refusal = ParseMeterValue(payload.meterValue)
      BY <2>5, <2>6, <2>7, RefusalIs
    <3>2. CASE payload.shape = "scalar" /\ refusal = "TypeConstraintViolation"
      BY <2>6, <3>2
    <3>3. ASSUME NEW i \in DOMAIN Guards(action),
                 refusal = Outcomes(Guards(action), payload.fields)[i]
          PROVE  FaultyField(text) /\ (refusal = "PropertyConstraintViolation" => WordyDate(text))
      <4> DEFINE name == Guards(action)[i][1]
      <4>1. Guarding(Guards(action), Interface(action))
        BY <2>5, GuardsAre
      <4>2. /\ name \in DOMAIN Interface(action)
            /\ Field(payload.fields, name) \notin Sendable(Interface(action)[name])
            /\ refusal = "PropertyConstraintViolation" =>
                   Interface(action)[name] \in {"date", "date?"}
                   /\ Field(payload.fields, name) = "words"
        BY <2>6, <2>7, <3>3, <4>1, ThrownIsFaulty
      <4> HIDE DEF name
      <4>3. FaultyField(text)
        BY <2>2, <2>3, <4>2 DEF FaultyField
      <4>4. refusal = "PropertyConstraintViolation" => name = "timestamp"
        BY <2>5, <4>2, DatesAre
      <4>5. refusal = "PropertyConstraintViolation" => WordyDate(text)
        BY <2>3, <4>2, <4>4 DEF WordyDate
      <4> QED BY <4>3, <4>5
    <3>4. ASSUME action = "MeterValues", refusal = ParseMeterValue(payload.meterValue)
          PROVE  /\ Entries(payload) = {} \/ \E entry \in Entries(payload) : FaultyEntry(entry)
                 /\ refusal = "PropertyConstraintViolation" => WordyDate(text)
      <4>1. /\ Entries(payload) = {} \/ \E entry \in Entries(payload) : FaultyEntry(entry)
            /\ refusal = "PropertyConstraintViolation" =>
                   \E entry \in Entries(payload) : entry.timestamp = "words"
        BY <2>5, <2>6, <2>7, <3>4, EntriesAre
      <4> QED BY <2>2, <2>3, <3>4, <4>1 DEF WordyDate
    <3> QED BY <3>1, <3>2, <3>3, <3>4
  <2> QED BY <2>1, <2>2, <2>3, <2>4, <2>6, <2>7
<1> QED BY <1>1, SocketInvariant, PTL
==============================================================================
