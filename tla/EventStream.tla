----------------------------- MODULE EventStream -----------------------------
(***************************************************************************)
(* The resumable event stream of a workflow run                            *)
(* (engine/src/api/endpoints/agent.py): publish_event writes to a Redis    *)
(* counter, a bounded list and a pub/sub channel; the SSE generator        *)
(* replays the list and then follows the channel; a client that lost its   *)
(* connection resumes after the last event id it has seen, and a page      *)
(* that was refreshed resumes from zero.                                   *)
(*                                                                         *)
(* Redis is external: each command is atomic, and so is the MULTI/EXEC     *)
(* pipeline of publish_event.  Each await of the two coroutines on Redis   *)
(* is a step of its own.                                                   *)
(***************************************************************************)
EXTENDS Integers, Sequences

CONSTANTS
    Publishers,     \* tasks that publish on the channel of the run
    Script,         \* Script[p]: what task p publishes, in order
    Readers,        \* browser clients
    BufferLimit,    \* SSE_EVENT_BUFFER_LIMIT
    MaxDisconnects, \* bound on lost connections and page refreshes
    MaxExpiries     \* bound on silences of SSE_EVENT_TTL_SECONDS during a run

\* An item of a script.  remember: remember_run_conversation instead of an event.
\* separator: the payload holds a character such as U+2028 that str.splitlines
\* takes for a line end and json.dumps(ensure_ascii=False) leaves as it is.
Item == [remember : BOOLEAN, terminal : BOOLEAN, separator : BOOLEAN]

ASSUME StreamConstants ==
    /\ Script \in [Publishers -> Seq(Item)]
    /\ BufferLimit \in Nat \ {0}
    /\ MaxDisconnects \in Nat
    /\ MaxExpiries \in Nat

VARIABLES
    sequence,       \* the counter run:<id>:sequence, 0 when the key is gone
    buffer,         \* the list run:<id>:events
    mapped,         \* the key run:conversation:<id> exists
    pub,            \* pub[p]: the next item, and the event id it has been given
    reader,         \* reader[r]: a client and the generator that serves it
    seen,           \* seen[r][e]: how often the page of r has received event e
    published,      \* every event that ever reached the buffer
    disordered,     \* those of them that were published after a newer one, and those
                    \* that an older one came after
    disconnects,
    expiries

vars ==
    <<sequence, buffer, mapped, pub, reader, seen, published, disordered, disconnects, expiries>>

-----------------------------------------------------------------------------

Events == UNION {{p} \X DOMAIN Script[p] : p \in Publishers}

Entry == [id : Nat \ {0}, event : Events, terminal : BOOLEAN, separator : BOOLEAN]

\* States in which the generator is subscribed to the channel.
Connected == {"subscribed", "buffered", "replay", "live"}

ReaderRecord ==
    [pc : Connected \cup {"away", "gap", "closed"},
     last : Nat,                \* Last-Event-ID, last_sent_event_id
     snapshot : Seq(Entry),     \* decoded_buffer
     at : Nat,                  \* how much of it is replayed
     inbox : Seq(Entry),        \* messages of the subscription not read yet
     replayed : BOOLEAN,        \* replayed_any
     ended : BOOLEAN]           \* last_replayed_was_terminal

AwayReader ==
    [pc |-> "away", last |-> 0, snapshot |-> <<>>, at |-> 0, inbox |-> <<>>,
     replayed |-> FALSE, ended |-> FALSE]

Last(s) == s[Len(s)]

TrimmedTooFew(s) ==
    IF Len(s) <= BufferLimit THEN s ELSE SubSeq(s, Len(s) - BufferLimit, Len(s))

\* ltrim(key, -SSE_EVENT_BUFFER_LIMIT, -1)
Trimmed(s) ==
    IF Len(s) <= BufferLimit THEN s ELSE SubSeq(s, Len(s) - BufferLimit + 1, Len(s))

\* A check that is off by one.
HistoryGapTooLate(last, snapshot, latest) ==
    latest > last /\ (snapshot = <<>> \/ snapshot[1].id > last + 2)

\* _has_event_history_gap
HistoryGap(last, snapshot, latest) ==
    latest > last /\ (snapshot = <<>> \/ snapshot[1].id > last + 1)

-----------------------------------------------------------------------------
(* publish_event *)

Busy(p) == pub[p].next <= Len(Script[p])

PublishIncr(p) ==
    /\ Busy(p)
    /\ ~Script[p][pub[p].next].remember
    /\ pub[p].id = 0
    /\ sequence' = sequence + 1
    /\ pub' = [pub EXCEPT ![p].id = sequence + 1]
    /\ UNCHANGED <<buffer, mapped, reader, seen, published, disordered, disconnects, expiries>>

PublishPipeline(p) ==
    LET item == Script[p][pub[p].next]
        entry == [id |-> pub[p].id, event |-> <<p, pub[p].next>>,
                  terminal |-> item.terminal, separator |-> item.separator]
        newer == {e \in published : e.id >= entry.id}
    IN  /\ Busy(p)
        /\ pub[p].id # 0
        /\ buffer' = Trimmed(Append(buffer, entry))
        /\ reader' = [r \in Readers |->
                        IF reader[r].pc \in Connected
                        THEN [reader[r] EXCEPT !.inbox = Append(@, entry)]
                        ELSE reader[r]]
        /\ published' = published \cup {entry}
        /\ disordered' = IF newer = {} THEN disordered ELSE disordered \cup newer \cup {entry}
        /\ pub' = [pub EXCEPT ![p] = [next |-> @.next + 1, id |-> 0]]
        /\ UNCHANGED <<sequence, mapped, seen, disconnects, expiries>>

\* Redis refuses a command: the exception is logged and the event is gone.
PublishFails(p) ==
    /\ Busy(p)
    /\ ~Script[p][pub[p].next].remember
    /\ pub' = [pub EXCEPT ![p] = [next |-> @.next + 1, id |-> 0]]
    /\ UNCHANGED <<sequence, buffer, mapped, reader, seen, published, disordered, disconnects, expiries>>

\* remember_run_conversation, before a recovered mutation is published
Remember(p) ==
    /\ Busy(p)
    /\ Script[p][pub[p].next].remember
    /\ mapped' = TRUE
    /\ pub' = [pub EXCEPT ![p].next = @ + 1]
    /\ UNCHANGED <<sequence, buffer, reader, seen, published, disordered, disconnects, expiries>>

\* The three keys of a run are given the same time to live by every publish_event,
\* so they go together, after a silence in which no coroutine was between two
\* Redis commands.
Expire ==
    /\ \A p \in Publishers : pub[p].id = 0
    /\ \A r \in Readers : reader[r].pc \notin {"subscribed", "buffered", "replay"}
    /\ sequence' = 0
    /\ buffer' = <<>>
    /\ mapped' = FALSE
    /\ UNCHANGED <<pub, reader, seen, published, disordered, disconnects>>

ExpireAfterRun ==
    /\ \A p \in Publishers : ~Busy(p)
    /\ mapped
    /\ Expire
    /\ UNCHANGED expiries

\* The run, or the recovery of its mutation, goes on after the silence.
ExpireDuringRun ==
    /\ \E p \in Publishers : Busy(p)
    /\ expiries < MaxExpiries
    /\ expiries' = expiries + 1
    /\ Expire

-----------------------------------------------------------------------------
(* create_sse_event_generator *)

\* The page receives an event.
Deliver(r, entry) == seen' = [seen EXCEPT ![r][entry.event] = @ + 1]

\* resume_run_events, then the subscription.  A refreshed page has lost what it
\* had rendered and starts from zero.
Connect(r) ==
    /\ reader[r].pc = "away"
    /\ \/ /\ ~mapped
          /\ reader' = [reader EXCEPT ![r].pc = "gap"]
          /\ UNCHANGED seen
       \/ /\ mapped
          /\ reader' = [reader EXCEPT ![r] =
                [AwayReader EXCEPT !.pc = "subscribed", !.last = reader[r].last]]
          /\ UNCHANGED seen
       \/ /\ mapped
          /\ reader[r].last > 0
          /\ reader' = [reader EXCEPT ![r] = [AwayReader EXCEPT !.pc = "subscribed"]]
          /\ seen' = [seen EXCEPT ![r] = [e \in Events |-> 0]]
    /\ UNCHANGED <<sequence, buffer, mapped, pub, published, disordered, disconnects, expiries>>

\* LRANGE
ReadBuffer(r) ==
    /\ reader[r].pc = "subscribed"
    /\ reader' = [reader EXCEPT ![r].pc = "buffered", ![r].snapshot = buffer]
    /\ UNCHANGED <<sequence, buffer, mapped, pub, seen, published, disordered, disconnects, expiries>>

\* GET of the counter, and the check for a gap
ReadSequence(r) ==
    /\ reader[r].pc = "buffered"
    /\ reader' = [reader EXCEPT ![r].pc =
          IF HistoryGap(reader[r].last, reader[r].snapshot, sequence) THEN "gap" ELSE "replay"]
    /\ UNCHANGED <<sequence, buffer, mapped, pub, seen, published, disordered, disconnects, expiries>>

ReplayNext(r) ==
    LET me == reader[r]
        entry == me.snapshot[me.at + 1]
    IN  /\ me.pc = "replay"
        /\ me.at < Len(me.snapshot)
        /\ \/ /\ entry.id <= me.last
              /\ reader' = [reader EXCEPT ![r].at = @ + 1]
              /\ UNCHANGED seen
           \/ /\ entry.id > me.last
              /\ reader' = [reader EXCEPT ![r].at = @ + 1, ![r].last = entry.id,
                                          ![r].replayed = TRUE, ![r].ended = entry.terminal]
              /\ Deliver(r, entry)
        /\ UNCHANGED <<sequence, buffer, mapped, pub, published, disordered, disconnects, expiries>>

\* A stream that only ends on a terminal event it has just replayed or received.
ReplayOverWithoutResend(r) ==
    LET me == reader[r]
    IN  /\ me.pc = "replay"
        /\ me.at = Len(me.snapshot)
        /\ reader' = [reader EXCEPT ![r].pc = IF me.ended THEN "closed" ELSE "live"]
        /\ UNCHANGED <<sequence, buffer, mapped, pub, seen, published, disordered, disconnects, expiries>>

\* The stream ends after a terminal event; one that the client had already seen is
\* sent once more.
ReplayOver(r) ==
    LET me == reader[r]
        resend == ~me.replayed /\ me.snapshot # <<>> /\ Last(me.snapshot).terminal
    IN  /\ me.pc = "replay"
        /\ me.at = Len(me.snapshot)
        /\ \/ /\ me.ended
              /\ reader' = [reader EXCEPT ![r].pc = "closed"]
              /\ UNCHANGED seen
           \/ /\ ~me.ended
              /\ resend
              /\ reader' = [reader EXCEPT ![r].pc = "closed"]
              /\ Deliver(r, Last(me.snapshot))
           \/ /\ ~me.ended
              /\ ~resend
              /\ reader' = [reader EXCEPT ![r].pc = "live"]
              /\ UNCHANGED seen
        /\ UNCHANGED <<sequence, buffer, mapped, pub, published, disordered, disconnects, expiries>>

\* A live loop that forwards whatever the channel brings.
LiveNextUnfiltered(r) ==
    LET entry == Head(reader[r].inbox)
    IN  /\ reader[r].pc = "live"
        /\ reader[r].inbox # <<>>
        /\ reader' = [reader EXCEPT ![r].inbox = Tail(@), ![r].last = entry.id,
                        ![r].pc = IF entry.terminal THEN "closed" ELSE "live"]
        /\ Deliver(r, entry)
        /\ UNCHANGED <<sequence, buffer, mapped, pub, published, disordered, disconnects, expiries>>

\* The live loop.  _decode_published_event gives up on a message that splitlines
\* cuts inside its data line.
LiveNext(r) ==
    LET entry == Head(reader[r].inbox)
        skipped == entry.separator \/ entry.id <= reader[r].last
    IN  /\ reader[r].pc = "live"
        /\ reader[r].inbox # <<>>
        /\ \/ /\ skipped
              /\ reader' = [reader EXCEPT ![r].inbox = Tail(@)]
              /\ UNCHANGED seen
           \/ /\ ~skipped
              /\ reader' = [reader EXCEPT ![r].inbox = Tail(@), ![r].last = entry.id,
                              ![r].pc = IF entry.terminal THEN "closed" ELSE "live"]
              /\ Deliver(r, entry)
        /\ UNCHANGED <<sequence, buffer, mapped, pub, published, disordered, disconnects, expiries>>

\* The connection breaks; what the generator did not get across is lost with it.
Disconnect(r) ==
    /\ reader[r].pc \in Connected
    /\ disconnects < MaxDisconnects
    /\ disconnects' = disconnects + 1
    /\ reader' = [reader EXCEPT ![r] = [AwayReader EXCEPT !.last = reader[r].last]]
    /\ UNCHANGED <<sequence, buffer, mapped, pub, seen, published, disordered, expiries>>

-----------------------------------------------------------------------------

Init ==
    /\ sequence = 0
    /\ buffer = <<>>
    /\ mapped = TRUE
    /\ pub = [p \in Publishers |-> [next |-> 1, id |-> 0]]
    /\ reader = [r \in Readers |-> AwayReader]
    /\ seen = [r \in Readers |-> [e \in Events |-> 0]]
    /\ published = {}
    /\ disordered = {}
    /\ disconnects = 0
    /\ expiries = 0

PublisherStep(p) == PublishIncr(p) \/ PublishPipeline(p) \/ PublishFails(p) \/ Remember(p)

GeneratorStep(r) ==
    \/ ReadBuffer(r) \/ ReadSequence(r) \/ ReplayNext(r) \/ ReplayOver(r) \/ LiveNext(r)

Next ==
    \/ \E p \in Publishers : PublisherStep(p)
    \/ \E r \in Readers : Connect(r) \/ GeneratorStep(r) \/ Disconnect(r)
    \/ ExpireAfterRun
    \/ ExpireDuringRun

Spec == Init /\ [][Next]_vars

\* The event loop keeps running the generator of a connected client.  Clients need
\* not come back and publishers need not go on.
FairSpec == Spec /\ \A r \in Readers : WF_vars(GeneratorStep(r))

-----------------------------------------------------------------------------
(* Properties *)

\* Type invariant, with the bound on the Redis list.
TypeOK ==
    /\ sequence \in Nat
    /\ buffer \in Seq(Entry) /\ Len(buffer) <= BufferLimit
    /\ mapped \in BOOLEAN
    /\ pub \in [Publishers -> [next : Nat, id : Nat]]
    /\ reader \in [Readers -> ReaderRecord]
    /\ seen \in [Readers -> [Events -> Nat]]
    /\ published \subseteq Entry
    /\ disordered \subseteq published
    /\ disconnects \in 0..MaxDisconnects
    /\ expiries \in 0..MaxExpiries

Following(r) == reader[r].pc \in {"live", "closed"}

\* A client that follows the stream at event id n has received every event up to n
\* that was published in the order of the ids and has a payload the live loop can
\* read, from the replay or from the channel, across reconnects, trimming of the list
\* and other events that overtake each other; otherwise it has been told to reload
\* (create_sse_event_generator, _has_event_history_gap).  Ids that start again after
\* the keys have expired in the middle of a run say nothing about the position of a
\* client.
InOrderIsNotLost ==
    expiries = 0 =>
        \A r \in Readers : \A entry \in published \ disordered :
            Following(r) /\ ~entry.separator /\ entry.id <= reader[r].last
               => seen[r][entry.event] > 0

\* The same of every event: what the comments of the generator and of the buffer say,
\* and what is false of events that overtake each other or hold a line separator.
NoSilentLoss ==
    expiries = 0 =>
        \A r \in Readers : \A entry \in published :
            Following(r) /\ entry.id <= reader[r].last => seen[r][entry.event] > 0

\* An event that is both in the replayed list and in the subscription reaches
\* the page once; only a terminal event is ever repeated.
NoDuplicates ==
    \A r \in Readers : \A entry \in published :
        ~entry.terminal => seen[r][entry.event] <= 1

AllPublished == \A p \in Publishers : ~Busy(p)

\* Once the newest event of the run is a terminal one, which nothing overtook, no
\* client is left waiting on the stream: it ends, and does not heartbeat for ever.
StreamEnds ==
    \A r \in Readers :
        /\ expiries = 0
        /\ AllPublished
        /\ buffer # <<>>
        /\ Last(buffer).terminal /\ ~Last(buffer).separator
        /\ Last(buffer) \notin disordered
        /\ reader[r].pc \in Connected
        ~> reader[r].pc \notin Connected
=============================================================================
