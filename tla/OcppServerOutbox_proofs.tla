--------------------- MODULE OcppServerOutbox_proofs ----------------------
(***************************************************************************)
(* Proofs about OcppServer: it implements Outbox.  A message enqueued      *)
(* joins a line; a flush serves lines; the first connection of the         *)
(* database and the end of the process give the memory queue up.           *)
(***************************************************************************)
EXTENDS OcppServer_proofs

\* The refinement mapping, message by message.
LineOf(m)  == IF messages[m].due = "always" THEN <<messages[m].station, Lasting(m)>> ELSE Nobody
EntryOf(m) == [line |-> LineOf(m), lasting |-> Lasting(m)]
FateOf(m)  ==
    CASE ~Unsettled(m) -> "settled"
      [] Unsettled(m) /\ ~Lasting(m) /\ (connected \/ messages[m].store = "lost") -> "lost"
      [] OTHER -> "queued"
Entries == [m \in DOMAIN messages |-> EntryOf(m)]
Fate    == [m \in DOMAIN messages |-> FateOf(m)]

\* What Outbox says in terms of the messages.
SameEntries ==
    /\ DOMAIN messages' = DOMAIN messages
    /\ \A m \in DOMAIN messages : LineOf(m)' = LineOf(m) /\ Lasting(m)' = Lasting(m)

LEMMA EntriesKept ==
    ASSUME SameEntries
    PROVE  Entries' = Entries
BY DEF SameEntries, Entries, EntryOf

LEMMA EntryFields ==
    \A m \in DOMAIN messages : Entries[m].line = LineOf(m) /\ Entries[m].lasting = Lasting(m)
BY DEF Entries, EntryOf

\* A step that sends and settles.
LEMMA Serves ==
    ASSUME TypeOK, SameEntries, written \subseteq written', written' \subseteq DOMAIN messages,
           \A m \in written' \ written :
               /\ FateOf(m) = "queued"
               /\ \A e \in DOMAIN messages :
                      e < m /\ LineOf(e) = LineOf(m) /\ LineOf(m) # Nobody
                      => e \in written' \/ FateOf(e) = "lost",
           \A m \in DOMAIN messages :
               FateOf(m)' # FateOf(m) =>
                   FateOf(m) = "queued" /\ FateOf(m)' = "settled" /\ m \in written'
    PROVE  Box!Serve
<1>1. DOMAIN messages = 1..Len(messages) /\ Len(messages) \in Nat
  BY LenProperties DEF TypeOK, MessagesTypeOK
<1>2. Entries' = Entries
  BY EntriesKept
<1>3. \A m \in DOMAIN messages : Fate[m] = FateOf(m) /\ Fate'[m] = FateOf(m)'
  BY DEF Fate, SameEntries
<1>4. DOMAIN Fate = DOMAIN messages /\ DOMAIN Fate' = DOMAIN messages
  BY DEF Fate, SameEntries
<1>5. ASSUME NEW m \in written' \ written
      PROVE  /\ Fate[m] = "queued"
             /\ {e \in 1..(m - 1) : Entries[e].line = Entries[m].line /\ Entries[m].line # Nobody}
                    \subseteq written' \cup {e \in DOMAIN Fate : Fate[e] = "lost"}
  <2>1. m \in DOMAIN messages /\ m \in Nat
    BY <1>1
  <2>2. Fate[m] = "queued"
    BY <1>3, <2>1
  <2>3. ASSUME NEW e \in 1..(m - 1), Entries[e].line = Entries[m].line, Entries[m].line # Nobody
        PROVE  e \in written' \cup {f \in DOMAIN Fate : Fate[f] = "lost"}
    <3>1. e \in DOMAIN messages /\ e < m
      BY <1>1, <2>1
    <3>2. LineOf(e) = LineOf(m) /\ LineOf(m) # Nobody
      BY <2>1, <2>3, <3>1, EntryFields
    <3> QED BY <1>3, <1>4, <3>1, <3>2
  <2> QED BY <2>2, <2>3
<1>6. ASSUME NEW m \in DOMAIN Fate, Fate'[m] # Fate[m]
      PROVE  Fate[m] = "queued" /\ Fate'[m] = "settled" /\ m \in written'
  BY <1>3, <1>4, <1>6
<1> QED BY <1>2, <1>4, <1>5, <1>6
        DEF Box!Serve, Box!Ahead, Box!Lost, Entries, Fate, EntryOf, LineOf, FateOf

\* A step that loses what is not in the table.
LEMMA GivesUp ==
    ASSUME SameEntries, UNCHANGED written,
           \A m \in DOMAIN messages :
               FateOf(m)' = IF FateOf(m) = "queued" /\ ~Lasting(m) THEN "lost" ELSE FateOf(m)
    PROVE  Box!GiveUp
<1>1. Entries' = Entries
  BY EntriesKept
<1>2. \A m \in DOMAIN messages : Fate[m] = FateOf(m) /\ Entries[m].lasting = Lasting(m)
  BY EntryFields DEF Fate
<1>3. Fate' = [m \in DOMAIN Fate |-> IF Fate[m] = "queued" /\ ~Entries[m].lasting
                                     THEN "lost" ELSE Fate[m]]
  BY <1>2 DEF Fate, SameEntries
<1> QED BY <1>1, <1>3 DEF Box!GiveUp, Entries, Fate, EntryOf, LineOf, FateOf

\* A step that Outbox does not see.
LEMMA Stutters ==
    ASSUME SameEntries, UNCHANGED written, \A m \in DOMAIN messages : FateOf(m)' = FateOf(m)
    PROVE  UNCHANGED Box!vars
<1>1. Entries' = Entries /\ Fate' = Fate
  BY EntriesKept DEF Fate, SameEntries
<1> QED BY <1>1 DEF Box!vars, Entries, Fate, EntryOf, LineOf, FateOf

LEMMA LeftAlone ==
    ASSUME UNCHANGED <<messages, written, connected>>
    PROVE  UNCHANGED Box!vars
BY DEF Box!vars, Lasting, Unsettled

------------------------------------------------------------------------------
(* What the operators on messages do to their entries and fates. *)

\* Messages that share a line: one is before the other.
LEMMA SameLine ==
    ASSUME NEW e, NEW m, e < m, LineOf(e) = LineOf(m), LineOf(m) # Nobody
    PROVE  /\ messages[e].due = "always" /\ messages[m].due = "always"
           /\ messages[e].station = messages[m].station
           /\ Lasting(e) = Lasting(m)
<1>1. messages[m].due = "always" /\ messages[e].due = "always"
  BY DEF LineOf
<1> QED BY <1>1 DEF LineOf

LEMMA MarkedFates ==
    ASSUME TypeOK, NEW set \in SUBSET DOMAIN messages, NEW status \in {"DISPATCHED", "FAILED"},
           messages' = Marked(set, status), UNCHANGED connected
    PROVE  /\ SameEntries
           /\ \A m \in set : FateOf(m)' = "settled"
           /\ \A m \in DOMAIN messages \ set : FateOf(m)' = FateOf(m)
<1>1. DOMAIN messages' = DOMAIN messages
  BY MarkedProperties DEF TypeOK
<1>2. \A m \in DOMAIN messages : messages[m] \in Message
  BY ElementOfSeq, LenProperties DEF TypeOK, MessagesTypeOK
<1>3. \A m \in DOMAIN messages :
          messages'[m] = IF m \in set THEN [messages[m] EXCEPT !.status = status] ELSE messages[m]
  BY DEF Marked
<1>4. SameEntries
  BY <1>1, <1>2, <1>3 DEF SameEntries, LineOf, Lasting, Message
<1>5. ASSUME NEW m \in set
      PROVE  FateOf(m)' = "settled"
  <2>1. messages'[m].status = status
    BY <1>2, <1>3 DEF Message
  <2> QED BY <2>1 DEF FateOf, Unsettled
<1>6. \A m \in DOMAIN messages \ set : FateOf(m)' = FateOf(m)
  BY <1>3 DEF FateOf, Unsettled, Lasting
<1> QED BY <1>4, <1>5, <1>6

\* The memory queue of a station is served in one turn.
LEMMA MemoryServed ==
    ASSUME TypeOK, MarkedWasWritten, ~connected, UNCHANGED connected, NEW s,
           messages' = Marked(Pending(s, "memory"), "DISPATCHED"),
           written' = written \cup Pending(s, "memory")
    PROVE  Box!Serve
<1> DEFINE set == Pending(s, "memory")
<1>1. set \in SUBSET DOMAIN messages /\ written \in SUBSET DOMAIN messages
  BY DEF Pending, TypeOK
<1>2. \A m \in set : FateOf(m) = "queued"
  BY DEF Pending, FateOf, Unsettled, Lasting
<1>3. ASSUME NEW m \in set, NEW e \in DOMAIN messages, e < m,
             LineOf(e) = LineOf(m), LineOf(m) # Nobody
      PROVE  e \in set \cup written \/ FateOf(e) = "lost"
  <2>1. /\ messages[e].due = "always" /\ messages[e].station = s /\ ~Lasting(e)
    <3>1. messages[m].station = s /\ ~Lasting(m)
      BY DEF Pending, Lasting
    <3> QED BY <1>3, <3>1, SameLine
  <2>2. CASE messages[e].status # "PENDING"
    BY <2>2 DEF MarkedWasWritten
  <2>3. CASE messages[e].status = "PENDING"
    <3>1. messages[e] \in Message
      BY ElementOfSeq, LenProperties DEF TypeOK, MessagesTypeOK
    <3>2. messages[e].store \in {"memory", "lost"}
      BY <2>1, <3>1 DEF Message, Lasting
    <3> QED BY <2>1, <2>3, <3>2 DEF Pending, FateOf, Unsettled
  <2> QED BY <2>2, <2>3
<1> HIDE DEF set
<1>4. /\ SameEntries
      /\ \A m \in set : FateOf(m)' = "settled"
      /\ \A m \in DOMAIN messages \ set : FateOf(m)' = FateOf(m)
  BY <1>1, MarkedFates DEF set
<1>5. written' = written \cup set
  BY DEF set
<1> QED BY <1>1, <1>2, <1>3, <1>4, <1>5, Serves

\* The table is served message by message, in the order of creation.
LEMMA TableServed ==
    ASSUME TypeOK, MarkedWasWritten, NEW l \in Loops, NEW set \in SUBSET DOMAIN messages,
           Sends(l, set), SameEntries,
           \A m \in set : Lasting(m),
           \A m \in set : \A e \in DOMAIN messages : Before(e, m) => e \in set \cup written,
           \A m \in DOMAIN messages :
               FateOf(m)' # FateOf(m) =>
                   FateOf(m) = "queued" /\ FateOf(m)' = "settled" /\ m \in written
    PROVE  Box!Serve
<1> DEFINE first == First(set)
<1>1. set # {} => first \in set /\ \A m \in set : first <= m
  <2>1. DOMAIN messages \subseteq Nat
    BY LenProperties DEF TypeOK, MessagesTypeOK
  <2> QED BY <2>1, FirstProperties
<1> HIDE DEF first
<1>2. written' = written \/ (set # {} /\ written' = written \cup {first})
  BY DEF Sends, Write, first
<1>3. ASSUME set # {}, first \notin written
      PROVE  /\ FateOf(first) = "queued"
             /\ \A e \in DOMAIN messages :
                    e < first /\ LineOf(e) = LineOf(first) /\ LineOf(first) # Nobody => e \in written
  <2>1. first \in set /\ Lasting(first) /\ first \in DOMAIN messages
    BY <1>1, <1>3
  <2>2. FateOf(first) = "queued"
    BY <1>3, <2>1 DEF MarkedWasWritten, FateOf, Unsettled
  <2>3. ASSUME NEW e \in DOMAIN messages, e < first, LineOf(e) = LineOf(first), LineOf(first) # Nobody
        PROVE  e \in written
    <3>1. Before(e, first)
      BY <2>1, <2>3, SameLine DEF Before
    <3>2. e \notin set
      <4>1. e \in Nat /\ first \in Nat
        BY <2>1, LenProperties DEF TypeOK, MessagesTypeOK
      <4> QED BY <1>1, <1>3, <2>3, <4>1
    <3> QED BY <2>1, <3>1, <3>2
  <2> QED BY <2>2, <2>3
<1>4. /\ written \subseteq written' /\ written' \subseteq DOMAIN messages
      /\ \A m \in written' \ written : set # {} /\ m = first
  BY <1>1, <1>2 DEF TypeOK
<1> QED BY <1>3, <1>4, Serves

\* Of a flush, the message it was about is settled.
LEMMA FirstSettled ==
    ASSUME TypeOK, FlushOK, NEW l \in Loops, Marking(l), NEW status \in {"DISPATCHED", "FAILED"},
           messages' = Marked({First(loops[l].pending)}, status), UNCHANGED connected
    PROVE  /\ SameEntries
           /\ \A m \in DOMAIN messages :
                  FateOf(m)' # FateOf(m) =>
                      FateOf(m) = "queued" /\ FateOf(m)' = "settled" /\ m \in written
<1> DEFINE first == First(loops[l].pending)
<1>1. first \in written /\ first \in loops[l].pending /\ loops[l].pending \subseteq DOMAIN messages
  <2>1. loops[l].pending # {} /\ loops[l].pending \subseteq DOMAIN messages /\ first \in written
    BY DEF FlushOK
  <2>2. loops[l].pending \in SUBSET Nat
    BY <2>1, LenProperties DEF TypeOK, MessagesTypeOK
  <2>3. first \in loops[l].pending
    BY <2>1, <2>2, FirstProperties
  <2> QED BY <2>1, <2>3
<1>2. Lasting(first)
  BY <1>1 DEF FlushOK
<1>3. ASSUME NEW m, m = first
      PROVE  /\ SameEntries
             /\ FateOf(m) \in {"queued", "settled"} /\ FateOf(m)' = "settled"
             /\ \A n \in DOMAIN messages \ {m} : FateOf(n)' = FateOf(n)
  <2>1. {m} \in SUBSET DOMAIN messages /\ messages' = Marked({m}, status)
    BY <1>1, <1>3
  <2>2. FateOf(m) \in {"queued", "settled"}
    BY <1>2, <1>3 DEF FateOf
  <2> QED BY <2>1, <2>2, MarkedFates
<1>4. PICK m : m = first
  OBVIOUS
<1> QED BY <1>1, <1>3, <1>4

\* A new process has no memory queue.
LEMMA NewProcessGivesUp ==
    ASSUME TypeOK, NewProcess
    PROVE  Box!GiveUp
<1>1. messages' = MemoryLost(messages) /\ UNCHANGED written /\ connected' = FALSE
  BY DEF NewProcess, historyVars
<1>2. DOMAIN messages' = DOMAIN messages
  BY <1>1, LostProperties DEF TypeOK
<1>3. \A m \in DOMAIN messages : messages[m] \in Message
  BY ElementOfSeq, LenProperties DEF TypeOK, MessagesTypeOK
<1>4. ASSUME NEW m \in DOMAIN messages
      PROVE  /\ messages'[m].station = messages[m].station
             /\ messages'[m].due = messages[m].due
             /\ messages'[m].status = messages[m].status
             /\ Lasting(m)' = Lasting(m)
             /\ ~Lasting(m) => messages'[m].store = "lost"
  <2>1. messages'[m] = IF messages[m].store = "memory"
                       THEN [messages[m] EXCEPT !.store = "lost"] ELSE messages[m]
    BY <1>1 DEF MemoryLost
  <2> QED BY <1>3, <2>1 DEF Message, Lasting
<1>5. SameEntries
  BY <1>2, <1>4 DEF SameEntries, LineOf
<1>6. ASSUME NEW m \in DOMAIN messages
      PROVE  FateOf(m)' = IF FateOf(m) = "queued" /\ ~Lasting(m) THEN "lost" ELSE FateOf(m)
  BY <1>4 DEF FateOf, Unsettled
<1> QED BY <1>1, <1>5, <1>6, GivesUp

------------------------------------------------------------------------------
(* Every step is one of Outbox, or one that Outbox does not see. *)

LEMMA BoxInit == Init => Box!Init
<1> SUFFICES ASSUME Init PROVE Box!Init
  OBVIOUS
<1>1. messages = <<>> /\ written = {}
  BY DEF Init, MessagesInit
<1>2. DOMAIN messages = {}
  BY <1>1
<1>3. \A f : f \in [1..0 -> {0}] => f = <<>>
  <2>1. ASSUME NEW f \in [1..0 -> {0}]
        PROVE  f = <<>>
    <3>1. f \in Seq({0}) /\ Len(f) = 0
      BY SeqDef, LenProperties
    <3> QED BY <3>1, EmptySeq
  <2> QED BY <2>1
<1>4. Entries \in [1..0 -> {0}] /\ Fate \in [1..0 -> {0}]
  BY <1>2 DEF Entries, Fate
<1>5. Entries = <<>> /\ Fate = <<>>
  BY <1>3, <1>4
<1> QED BY <1>1, <1>5 DEF Box!Init, Entries, Fate, EntryOf, LineOf, FateOf

LEMMA TurnBox ==
    ASSUME TypeOK, MarkedWasWritten, NEW l \in Loops, TurnNext(l)
    PROVE  [Box!Next]_(Box!vars)
<1>1. UNCHANGED connected
  BY DEF TurnNext, LoopEnds, TakePing, TakeClose, TakeUnusable, TakeInvalid, TakeCallInMemory,
         TakeBootInMemory, TakeCall, connectionVars
<1>2. CASE TakeBootInMemory(l) /\ Present(StationOf(l))
  <2> DEFINE s == StationOf(l)
  <2>1. /\ messages' = Marked(Pending(s, "memory"), "DISPATCHED") /\ ~connected
        /\ written' = written \cup Pending(s, "memory")
    BY <1>2 DEF TakeBootInMemory, FlushMemory, Write
  <2> HIDE DEF s
  <2>2. Box!Serve
    BY <1>1, <2>1, MemoryServed
  <2> QED BY <2>2 DEF Box!Next
<1>3. CASE ~(TakeBootInMemory(l) /\ Present(StationOf(l)))
  <2>1. UNCHANGED <<messages, written>>
    BY <1>3 DEF TurnNext, LoopEnds, TakePing, TakeClose, TakeUnusable, TakeInvalid,
                TakeCallInMemory, TakeBootInMemory, TakeCall, historyVars
  <2> QED BY <1>1, <2>1, LeftAlone
<1> QED BY <1>2, <1>3

LEMMA ReturnBox ==
    ASSUME TypeOK, FlushOK, MarkedWasWritten, NEW l \in Loops, ReturnNext(l)
    PROVE  [Box!Next]_(Box!vars)
<1> DEFINE first == First(loops[l].pending)
<1>1. CASE CallAnswered(l) \/ BootAnswered(l) \/ CallRejected(l)
  <2>1. UNCHANGED <<messages, written, connected>>
    BY <1>1 DEF CallAnswered, BootAnswered, CallRejected, connectionVars
  <2> QED BY <2>1, LeftAlone
<1>2. CASE Listed(l)
  <2> DEFINE s   == StationOf(l)
             set == IF loops[l].stationId = tableId[s] THEN Pending(s, "table") ELSE {}
  <2>1. Sends(l, set) /\ UNCHANGED <<messages, connected>>
    BY <1>2 DEF Listed, connectionVars
  <2>2. \A m \in set : /\ m \in DOMAIN messages /\ Lasting(m)
                       /\ messages[m].station = s
    BY DEF Pending, Lasting
  <2>3. ASSUME NEW m \in set, NEW e \in DOMAIN messages, Before(e, m)
        PROVE  e \in set \cup written
    <3>1. messages[e].station = s /\ Lasting(e) /\ messages[e].due = "always"
      BY <2>2, <2>3 DEF Before
    <3>2. CASE messages[e].status = "PENDING"
      BY <3>1, <3>2 DEF Pending, Lasting
    <3>3. CASE messages[e].status # "PENDING"
      BY <3>3 DEF MarkedWasWritten
    <3> QED BY <3>2, <3>3
  <2> HIDE DEF set
  <2>4. SameEntries /\ \A m \in DOMAIN messages : FateOf(m)' = FateOf(m)
    BY <2>1 DEF SameEntries, LineOf, Lasting, FateOf, Unsettled
  <2>5. set \in SUBSET DOMAIN messages
    BY <2>2
  <2>6. Box!Serve
    BY <2>1, <2>2, <2>3, <2>4, <2>5, TableServed
  <2> QED BY <2>6 DEF Box!Next
<1>3. CASE Dispatched(l)
  <2> DEFINE pending == loops[l].pending
             set     == pending \ {first}
  <2>1. /\ Sends(l, set) /\ messages' = Marked({first}, "DISPATCHED")
        /\ Marking(l) /\ UNCHANGED connected
    BY <1>3 DEF Dispatched, Marking, connectionVars
  <2>2. /\ pending \subseteq DOMAIN messages /\ first \in written
        /\ \A m \in pending : Lasting(m)
        /\ \A m \in pending : \A e \in DOMAIN messages : Before(e, m) => e \in pending \cup written
    BY <2>1 DEF FlushOK
  <2>3. \A m \in set : \A e \in DOMAIN messages : Before(e, m) => e \in set \cup written
    BY <2>2
  <2>4. set \in SUBSET DOMAIN messages /\ \A m \in set : Lasting(m)
    BY <2>2
  <2>5. /\ SameEntries
        /\ \A m \in DOMAIN messages :
               FateOf(m)' # FateOf(m) =>
                   FateOf(m) = "queued" /\ FateOf(m)' = "settled" /\ m \in written
    BY <2>1, FirstSettled
  <2> HIDE DEF set
  <2>6. Box!Serve
    BY <2>1, <2>3, <2>4, <2>5, TableServed
  <2> QED BY <2>6 DEF Box!Next
<1>4. CASE DispatchFails(l) \/ MarkedFailed(l)
  <2>1. /\ UNCHANGED <<written, connected>> /\ Marking(l)
        /\ \/ UNCHANGED messages
           \/ \E status \in {"DISPATCHED", "FAILED"} : messages' = Marked({first}, status)
    BY <1>4 DEF DispatchFails, MarkedFailed, Marking, connectionVars, historyVars
  <2>2. CASE UNCHANGED messages
    BY <2>1, <2>2, LeftAlone
  <2>3. CASE ~UNCHANGED messages
    <3>1. /\ SameEntries
          /\ \A m \in DOMAIN messages :
                 FateOf(m)' # FateOf(m) =>
                     FateOf(m) = "queued" /\ FateOf(m)' = "settled" /\ m \in written
      BY <2>1, <2>3, FirstSettled
    <3>2. written' \subseteq DOMAIN messages
      BY <2>1 DEF TypeOK
    <3>3. Box!Serve
      BY <2>1, <3>1, <3>2, Serves
    <3> QED BY <3>3 DEF Box!Next
  <2> QED BY <2>2, <2>3
<1>5. CASE FlushRejected(l)
  <2>1. CASE NewProcess
    <3>1. Box!GiveUp
      BY <2>1, NewProcessGivesUp
    <3> QED BY <3>1 DEF Box!Next
  <2>2. CASE ~NewProcess
    <3>1. UNCHANGED <<messages, written, connected>>
      BY <1>5, <2>2 DEF FlushRejected, connectionVars
    <3> QED BY <3>1, LeftAlone
  <2> QED BY <2>1, <2>2
<1> QED BY <1>1, <1>2, <1>3, <1>4, <1>5 DEF ReturnNext

LEMMA AppendIs ==
    ASSUME NEW S, NEW seq \in Seq(S), NEW e \in S
    PROVE  Append(seq, e) = [i \in 1..(Len(seq) + 1) |-> IF i <= Len(seq) THEN seq[i] ELSE e]
<1>1. /\ Append(seq, e) \in Seq(S) /\ Len(Append(seq, e)) = Len(seq) + 1 /\ Len(seq) \in Nat
      /\ \A i \in 1..Len(seq) : Append(seq, e)[i] = seq[i]
      /\ Append(seq, e)[Len(seq) + 1] = e
  BY AppendProperties, LenProperties
<1> DEFINE app == Append(seq, e)
<1> HIDE DEF app
<1>2. app \in [1..(Len(seq) + 1) -> S]
  BY <1>1, LenProperties DEF app
<1>3. \A i \in 1..(Len(seq) + 1) : app[i] = IF i <= Len(seq) THEN seq[i] ELSE e
  BY <1>1 DEF app
<1>4. app = [i \in 1..(Len(seq) + 1) |-> IF i <= Len(seq) THEN seq[i] ELSE e]
  BY <1>2, <1>3
<1> QED BY <1>4 DEF app

\* A message that is enqueued joins the line of its station and store.
LEMMA EnqueueBox ==
    ASSUME TypeOK, NEW s \in Stations, NEW due \in {"always", "later"}, Enqueue(s, due)
    PROVE  Box!Next
<1> DEFINE lasting == connected
           store   == IF connected THEN "table" ELSE "memory"
           message == [station |-> s, store |-> store, status |-> "PENDING", due |-> due]
           line    == IF due = "always" THEN <<s, lasting>> ELSE Nobody
           n       == Len(messages) + 1
<1>1. messages' = Append(messages, message) /\ UNCHANGED <<written, connected>>
  BY DEF Enqueue, EnqueueMessage, connectionVars, historyVars
<1>2. message \in Message /\ connected \in BOOLEAN /\ lasting \in BOOLEAN
  BY DEF Message, TypeOK, ConnectionTypeOK
<1>3. /\ DOMAIN messages = 1..Len(messages) /\ Len(messages) \in Nat /\ DOMAIN messages' = 1..n
      /\ \A m \in 1..Len(messages) : messages'[m] = messages[m]
      /\ messages'[n] = message
  <2> HIDE DEF message
  <2> QED BY <1>1, <1>2, AppendProperties, LenProperties DEF TypeOK, MessagesTypeOK
<1>4. /\ \A m \in 1..Len(messages) : EntryOf(m)' = EntryOf(m) /\ FateOf(m)' = FateOf(m)
      /\ \A m : m = n => EntryOf(m)' = [line |-> line, lasting |-> lasting] /\ FateOf(m)' = "queued"
  <2>1. \A m \in 1..Len(messages) : EntryOf(m)' = EntryOf(m) /\ FateOf(m)' = FateOf(m)
    BY <1>1, <1>3 DEF EntryOf, LineOf, Lasting, FateOf, Unsettled
  <2>2. ASSUME NEW m, m = n
        PROVE  EntryOf(m)' = [line |-> line, lasting |-> lasting] /\ FateOf(m)' = "queued"
    <3>1. /\ messages'[m].station = s /\ messages'[m].store = store
          /\ messages'[m].status = "PENDING" /\ messages'[m].due = due
      BY <1>3, <2>2
    <3>2. (messages'[m].store = "table") = lasting
      BY <1>2, <3>1
    <3>3. EntryOf(m)' = [line |-> line, lasting |-> lasting]
      BY <3>1, <3>2 DEF EntryOf, LineOf, Lasting
    <3>4. FateOf(m)' = "queued"
      BY <1>1, <3>1 DEF FateOf, Lasting, Unsettled
    <3> QED BY <3>3, <3>4
  <2> QED BY <2>1, <2>2
<1>5. Entries' = Append(Entries, [line |-> line, lasting |-> lasting])
  <2> DEFINE entry == [line |-> line, lasting |-> lasting]
             E     == {EntryOf(m) : m \in DOMAIN messages} \cup {entry}
  <2>1. Entries \in [1..Len(messages) -> E]
    BY <1>3 DEF Entries
  <2>2. Entries \in Seq(E) /\ Len(Entries) = Len(messages)
    BY <1>3, <2>1, SeqDef, LenProperties
  <2>3. DOMAIN Entries' = 1..n /\ \A m \in 1..n : Entries'[m] = EntryOf(m)'
    BY <1>3 DEF Entries
  <2>4. entry \in E /\ \A m \in 1..Len(messages) : Entries[m] = EntryOf(m)
    BY <1>3 DEF Entries
  <2> HIDE DEF entry, E
  <2>5. Entries' = [m \in 1..(Len(Entries) + 1) |-> IF m <= Len(Entries) THEN Entries[m] ELSE entry]
    <3>1. Entries' = [m \in 1..n |-> EntryOf(m)']
      BY <1>3 DEF Entries
    <3>2. \A m \in 1..n : EntryOf(m)' = IF m <= Len(messages) THEN Entries[m] ELSE entry
      BY <1>3, <1>4, <2>4 DEF entry
    <3> QED BY <2>2, <3>1, <3>2
  <2>6. Entries' = Append(Entries, entry)
    BY <2>2, <2>4, <2>5, AppendIs
  <2> QED BY <2>6 DEF entry
<1>6. Fate' = Append(Fate, "queued")
  <2> DEFINE E == {"queued", "settled", "lost"}
  <2>1. Fate \in [1..Len(messages) -> E]
    BY <1>3 DEF Fate, FateOf
  <2>2. Fate \in Seq(E) /\ Len(Fate) = Len(messages)
    BY <1>3, <2>1, SeqDef, LenProperties
  <2>3. \A m \in 1..Len(messages) : Fate[m] = FateOf(m)
    BY <1>3 DEF Fate
  <2>4. Fate' = [m \in 1..(Len(Fate) + 1) |-> IF m <= Len(Fate) THEN Fate[m] ELSE "queued"]
    <3>1. Fate' = [m \in 1..n |-> FateOf(m)']
      BY <1>3 DEF Fate
    <3>2. \A m \in 1..n : FateOf(m)' = IF m <= Len(messages) THEN Fate[m] ELSE "queued"
      BY <1>3, <1>4, <2>3
    <3> QED BY <2>2, <3>1, <3>2
  <2> QED BY <2>2, <2>4, AppendIs
<1>7. line \in (Stations \X BOOLEAN) \cup {Nobody}
  BY <1>2
<1>8. ASSUME NEW ln, ln = line, NEW la, la = lasting
      PROVE  Box!Join(ln, la)
  <2> HIDE DEF line, lasting
  <2>1. Entries' = Append(Entries, [line |-> ln, lasting |-> la])
    BY <1>5, <1>8
  <2> QED BY <1>1, <1>6, <2>1 DEF Box!Join, Entries, Fate, EntryOf, LineOf, FateOf
<1> HIDE DEF line, lasting
<1>9. \E ln \in (Stations \X BOOLEAN) \cup {Nobody}, la \in BOOLEAN : Box!Join(ln, la)
  BY <1>2, <1>7, <1>8
<1> QED BY <1>9 DEF Box!Next

LEMMA EventBox ==
    ASSUME TypeOK, ConnectingOK, MarkedWasWritten, EventNext
    PROVE  [Box!Next]_(Box!vars)
<1>1. ASSUME NEW k \in Sockets, NEW s \in Stations, Upgrade(s, k)
      PROVE  [Box!Next]_(Box!vars)
  <2>1. UNCHANGED connected
    BY <1>1 DEF Upgrade, connectionVars
  <2>2. CASE UNCHANGED <<messages, written>>
    BY <2>1, <2>2, LeftAlone
  <2>3. CASE ~UNCHANGED <<messages, written>>
    <3>1. Box!Serve
      BY <1>1, <2>1, <2>3, MemoryServed DEF Upgrade
    <3> QED BY <3>1 DEF Box!Next
  <2> QED BY <2>2, <2>3
<1>2. ASSUME NEW s \in Stations, NEW due \in {"always", "later"}, Enqueue(s, due)
      PROVE  [Box!Next]_(Box!vars)
  BY <1>2, EnqueueBox
<1>3. ASSUME NEW m \in DOMAIN messages, TimePasses(m)
      PROVE  [Box!Next]_(Box!vars)
  <2>1. \A n \in DOMAIN messages : messages[n] \in Message
    BY ElementOfSeq, LenProperties DEF TypeOK, MessagesTypeOK
  <2>2. messages[m].due = "later" /\ messages' = [messages EXCEPT ![m].due = "since"]
    BY <1>3 DEF TimePasses, BecomesDue
  <2>3. DOMAIN messages' = DOMAIN messages /\ \A n \in DOMAIN messages :
            /\ messages'[n].station = messages[n].station
            /\ messages'[n].store = messages[n].store
            /\ messages'[n].status = messages[n].status
            /\ messages'[n].due = "always" <=> messages[n].due = "always"
    BY <2>1, <2>2 DEF Message
  <2>4. UNCHANGED <<written, connected>>
    BY <1>3 DEF TimePasses, historyVars, connectionVars
  <2>5. SameEntries
    BY <2>3 DEF SameEntries, LineOf, Lasting
  <2>6. \A n \in DOMAIN messages : FateOf(n)' = FateOf(n)
    BY <2>3, <2>4 DEF FateOf, Unsettled, Lasting
  <2> QED BY <2>4, <2>5, <2>6, Stutters
<1>4. CASE DatabaseNext
  <2>1. UNCHANGED <<messages, written>>
    BY <1>4 DEF DatabaseNext, historyVars
  <2>2. CASE ReconnectTick \/ ConnectFail
    <3>1. UNCHANGED connected
      BY <2>2 DEF ReconnectTick, ConnectFail, ConnectingOK, TypeOK, ConnectionTypeOK
    <3> QED BY <2>1, <3>1, LeftAlone
  <2>3. CASE ConnectOk
    <3>1. connected' = TRUE /\ ~connected
      BY <2>3 DEF ConnectOk, ConnectingOK
    <3>2. SameEntries
      BY <2>1 DEF SameEntries, LineOf, Lasting
    <3>3. ASSUME NEW m \in DOMAIN messages
          PROVE  FateOf(m)' = IF FateOf(m) = "queued" /\ ~Lasting(m) THEN "lost" ELSE FateOf(m)
      BY <2>1, <3>1 DEF FateOf, Unsettled, Lasting
    <3>4. Box!GiveUp
      BY <2>1, <3>2, <3>3, GivesUp
    <3> QED BY <3>4 DEF Box!Next
  <2> QED BY <1>4, <2>2, <2>3 DEF DatabaseNext
<1>5. CASE Restart
  <2>1. Box!GiveUp
    BY <1>5, NewProcessGivesUp DEF Restart
  <2> QED BY <2>1 DEF Box!Next
<1>6. ASSUME NEW k \in Sockets, NEW kinds \in Chunks, Data(k, kinds)
      PROVE  UNCHANGED <<messages, written, connected>>
  BY <1>6 DEF Data, historyVars, connectionVars
<1>7. ASSUME \/ \E k \in Sockets : SocketCloses(k)
             \/ \E s \in Stations : Promoted(s)
             \/ Terminate \/ Shutdown
      PROVE  UNCHANGED <<messages, written, connected>>
  BY <1>7 DEF SocketCloses, Promoted, Terminate, ModuleDestroy, Shutdown, historyVars, connectionVars
<1> QED BY <1>1, <1>2, <1>3, <1>4, <1>5, <1>6, <1>7, LeftAlone DEF EventNext, SocketNext

\* The queue of server-initiated calls implements Outbox: a message is settled
\* only after it was sent, a line is served in order, nothing is lost of the
\* table, and of the memory queue only everything at once.
THEOREM QueueIsOutbox == Spec => OutboxSpec
<1>1. ServerInv /\ [Next]_vars => [Box!Next]_(Box!vars)
  <2> SUFFICES ASSUME ServerInv, [Next]_vars PROVE [Box!Next]_(Box!vars)
    OBVIOUS
  <2>1. TypeOK /\ ConnectingOK /\ FlushOK /\ MarkedWasWritten
    BY DEF ServerInv
  <2>2. CASE UNCHANGED vars
    <3>1. UNCHANGED <<messages, written, connected>>
      BY <2>2 DEF vars, historyVars, connectionVars
    <3> QED BY <3>1, LeftAlone
  <2> QED BY <2>1, <2>2, EventBox, TurnBox, ReturnBox DEF Next
<1> QED BY <1>1, BoxInit, ServerInvariant, PTL DEF Spec, OutboxSpec, Box!Spec

=============================================================================
