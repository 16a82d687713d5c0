-------------------------------- MODULE Outbox --------------------------------
(***************************************************************************)
(* What the queue of server-initiated calls promises, apart from sockets,  *)
(* flushes and the two stores: a message is sent, perhaps several times,   *)
(* before it is settled, and a line is served in order.  A line is what    *)
(* one station has in one store without a date to wait for.  Only volatile *)
(* messages can be lost, and only all of them at once, when their store is *)
(* given up: at the first connection of the database or with the process.  *)
(***************************************************************************)
EXTENDS Naturals, Sequences

CONSTANTS Lines, NoLine

VARIABLES
    entries,   \* per message its line, and whether its store lasts
    sent,      \* messages that were written to a socket
    fate       \* per message `queued', `settled' or `lost'

vars == <<entries, sent, fate>>

Init == entries = <<>> /\ sent = {} /\ fate = <<>>

Join(line, lasting) ==
    /\ entries' = Append(entries, [line |-> line, lasting |-> lasting])
    /\ fate' = Append(fate, "queued")
    /\ UNCHANGED sent

Ahead(m) == {e \in 1..(m - 1) : entries[e].line = entries[m].line /\ entries[m].line # NoLine}
Lost     == {m \in DOMAIN fate : fate[m] = "lost"}

\* Messages are sent, or settled that were sent, or both.
Serve ==
    /\ sent \subseteq sent'
    /\ \A m \in sent' \ sent : fate[m] = "queued" /\ Ahead(m) \subseteq sent' \cup Lost
    /\ DOMAIN fate' = DOMAIN fate
    /\ \A m \in DOMAIN fate :
           fate'[m] # fate[m] => fate[m] = "queued" /\ fate'[m] = "settled" /\ m \in sent'
    /\ UNCHANGED entries

GiveUp ==
    /\ fate' = [m \in DOMAIN fate |->
           IF fate[m] = "queued" /\ ~entries[m].lasting THEN "lost" ELSE fate[m]]
    /\ UNCHANGED <<entries, sent>>

Next ==
    \/ \E line \in Lines \cup {NoLine}, lasting \in BOOLEAN : Join(line, lasting)
    \/ Serve \/ GiveUp

Spec == Init /\ [][Next]_vars
===============================================================================
