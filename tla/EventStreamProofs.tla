------------------------- MODULE EventStreamProofs -------------------------
(***************************************************************************)
(* Proofs about the event stream of a run, for any publishers, payloads and *)
(* clients: that no event is repeated, and that none that was published in  *)
(* the order of the ids is lost unnoticed.                                  *)
(***************************************************************************)
EXTENDS EventStream, TLAPS

Held(s) == {s[i] : i \in DOMAIN s}

-----------------------------------------------------------------------------
(* The inductive invariant *)

\* Every event has one entry, made when its publisher came to it.
EntriesHold ==
    /\ Held(buffer) \subseteq published
    /\ \A p \in Publishers : pub[p].next # 0
    /\ \A e \in published : e.event[2] < pub[e.event[1]].next
    /\ \A e, f \in published : e.event = f.event => e = f

\* A client is only sent what was published.
CopyHolds(x) ==
    /\ x \in ReaderRecord
    /\ x.at <= Len(x.snapshot)
    /\ x.pc \in {"subscribed", "buffered"} => x.at = 0
    /\ Held(x.snapshot) \subseteq published
    /\ Held(x.inbox) \subseteq published

\* What page s has received was published, and lies behind the position of its client x.
ReaderHolds(x, s) ==
    /\ CopyHolds(x)
    /\ s \in [Events -> Nat]
    /\ \A v \in Events : s[v] > 0 => \E e \in published : e.event = v
    /\ \A e \in published : ~e.terminal =>
          /\ s[e.event] <= 1
          /\ s[e.event] > 0 => e.id <= x.last

StreamInv ==
    /\ TypeOK
    /\ EntriesHold
    /\ \A r \in Readers : ReaderHolds(reader[r], seen[r])

-----------------------------------------------------------------------------
(* Clients *)

\* Client r comes to x, its page to s.
Serves(r, x, s) ==
    /\ reader' = [reader EXCEPT ![r] = x]
    /\ seen' = [seen EXCEPT ![r] = s]
    /\ UNCHANGED <<sequence, buffer, mapped, pub, published, disordered, expiries>>

Received(r, entry) == [seen[r] EXCEPT ![entry.event] = @ + 1]

\* What a client holds has the type of its parts.
LEMMA Parts ==
    ASSUME NEW x \in ReaderRecord
    PROVE  /\ x.last \in Nat /\ x.at \in Nat
           /\ x.snapshot \in Seq(Entry) /\ x.inbox \in Seq(Entry)
  BY DEF ReaderRecord

\* A page receives an entry for the first time, or a terminal one.
LEMMA Receives ==
    ASSUME StreamInv, NEW r \in Readers, NEW entry \in published,
           entry.id > reader[r].last \/ entry.terminal,
           NEW x, CopyHolds(x),
           x.last >= reader[r].last, entry.terminal \/ x.last >= entry.id
    PROVE  ReaderHolds(x, Received(r, entry))
<1> DEFINE s == Received(r, entry)
<1>1. /\ published \subseteq Entry /\ ReaderHolds(reader[r], seen[r])
      /\ seen[r] \in [Events -> Nat] /\ reader[r] \in ReaderRecord
      /\ \A e, f \in published : e.event = f.event => e = f
  BY DEF StreamInv, TypeOK, EntriesHold
<1>2. x.last \in Nat /\ reader[r].last \in Nat /\ entry.id \in Nat /\ entry.event \in Events
  BY <1>1, Parts DEF CopyHolds, Entry
<1>3. s \in [Events -> Nat]
  BY <1>1, <1>2 DEF Received
<1>4. ASSUME NEW v \in Events, s[v] > 0 PROVE \E e \in published : e.event = v
  BY <1>1, <1>2, <1>4 DEF Received, ReaderHolds
<1>5. ASSUME NEW e \in published, ~e.terminal
      PROVE  s[e.event] <= 1 /\ (s[e.event] > 0 => e.id <= x.last)
  <2>1. e \in Entry /\ e.event \in Events /\ e.id \in Nat
    BY <1>1 DEF Entry
  <2>2. seen[r][e.event] \in Nat
    BY <1>1, <2>1
  <2>3. seen[r][e.event] <= 1 /\ (seen[r][e.event] > 0 => e.id <= reader[r].last)
    BY <1>1, <1>5 DEF ReaderHolds
  <2>4. CASE e.event # entry.event
    <3>1. s[e.event] = seen[r][e.event]
      BY <1>1, <2>1, <2>4 DEF Received
    <3> QED BY <1>2, <2>1, <2>3, <3>1
  <2>5. CASE e.event = entry.event
    <3>1. e = entry
      BY <1>1, <2>5
    <3>2. s[e.event] = seen[r][e.event] + 1
      BY <1>1, <2>1, <2>5 DEF Received
    <3>3. ~entry.terminal
      BY <1>5, <3>1
    <3>4. e.id > reader[r].last /\ x.last >= e.id
      BY <3>1, <3>3
    <3> QED BY <1>2, <2>1, <2>2, <2>3, <3>2, <3>4
  <2> QED BY <2>4, <2>5
<1> HIDE DEF s
<1> QED BY <1>3, <1>4, <1>5 DEF ReaderHolds, s

\* A page that receives nothing, of a client that does not fall back.
LEMMA ReceivesNothing ==
    ASSUME StreamInv, NEW r \in Readers,
           NEW x, CopyHolds(x),
           x.last >= reader[r].last
    PROVE  ReaderHolds(x, seen[r])
<1>1. /\ published \subseteq Entry /\ ReaderHolds(reader[r], seen[r])
      /\ reader[r].last \in Nat /\ x.last \in Nat
  BY Parts DEF StreamInv, TypeOK, CopyHolds
<1>2. \A e \in published : e.id \in Nat
  BY <1>1 DEF Entry
<1> QED BY <1>1, <1>2 DEF ReaderHolds

\* A connection that has not read anything yet.
Fresh(pc, last) ==
    [pc |-> pc, last |-> last, snapshot |-> <<>>, at |-> 0, inbox |-> <<>>,
     replayed |-> FALSE, ended |-> FALSE]

\* Nothing has been sent over it.
LEMMA FreshHolds ==
    ASSUME NEW pc \in {"away", "subscribed"}, NEW last \in Nat
    PROVE  CopyHolds(Fresh(pc, last))
<1>1. <<>> \in Seq(Entry) /\ Len(<<>>) = 0
  OBVIOUS
<1>2. Fresh(pc, last) \in ReaderRecord
  BY <1>1 DEF Fresh, ReaderRecord, Connected
<1>3. Held(<<>>) = {}
  BY DEF Held
<1> QED BY <1>1, <1>2, <1>3 DEF Fresh, CopyHolds

\* A step of a client as a move to a record of its own.
LEMMA ConnectServes ==
    ASSUME StreamInv, NEW r \in Readers, Connect(r)
    PROVE  \E x, s : Serves(r, x, s) /\ ReaderHolds(x, s)
<1>1. /\ reader[r] \in ReaderRecord /\ ReaderHolds(reader[r], seen[r])
      /\ reader \in [Readers -> ReaderRecord] /\ seen \in [Readers -> [Events -> Nat]]
      /\ reader[r].last \in Nat
  BY Parts DEF StreamInv, TypeOK
<1>2. CASE reader' = [reader EXCEPT ![r].pc = "gap"] /\ UNCHANGED seen
  <2> DEFINE x == [reader[r] EXCEPT !.pc = "gap"]
  <2>1. CopyHolds(x) /\ x.last = reader[r].last
    BY <1>1 DEF ReaderRecord, ReaderHolds, CopyHolds
  <2>2. Serves(r, x, seen[r])
    BY <1>1, <1>2 DEF Connect, Serves
  <2> HIDE DEF x
  <2>3. ReaderHolds(x, seen[r])
    BY <1>1, <2>1, ReceivesNothing
  <2> QED BY <2>2, <2>3
<1>4. CASE /\ reader' = [reader EXCEPT ![r] =
                 [AwayReader EXCEPT !.pc = "subscribed", !.last = reader[r].last]]
           /\ UNCHANGED seen
  <2> DEFINE x == Fresh("subscribed", reader[r].last)
  <2>1. CopyHolds(x) /\ x.last = reader[r].last
    BY <1>1, FreshHolds DEF Fresh
  <2>2. Serves(r, x, seen[r])
    BY <1>1, <1>4 DEF Connect, Serves, AwayReader, Fresh
  <2> HIDE DEF x
  <2>3. ReaderHolds(x, seen[r])
    BY <1>1, <2>1, ReceivesNothing
  <2> QED BY <2>2, <2>3
<1>5. CASE /\ reader' = [reader EXCEPT ![r] = [AwayReader EXCEPT !.pc = "subscribed"]]
           /\ seen' = [seen EXCEPT ![r] = [e \in Events |-> 0]]
  <2> DEFINE x == Fresh("subscribed", 0)
             s == [e \in Events |-> 0]
  <2>1. CopyHolds(x)
    BY FreshHolds
  <2>2. Serves(r, x, s)
    BY <1>1, <1>5 DEF Connect, Serves, AwayReader, Fresh
  <2>3. \A e \in published : e.event \in Events
    BY DEF StreamInv, TypeOK, Entry
  <2>4. ReaderHolds(x, s)
    <3> HIDE DEF x
    <3> QED BY <2>1, <2>3 DEF ReaderHolds
  <2> QED BY <2>2, <2>4
<1> QED BY <1>2, <1>4, <1>5 DEF Connect

\* A step of create_sse_event_generator, and what it delivers.
LEMMA GeneratorServes ==
    ASSUME StreamInv, NEW r \in Readers, GeneratorStep(r)
    PROVE  \E x, s : Serves(r, x, s) /\ ReaderHolds(x, s)
<1> DEFINE me == reader[r]
<1>1. /\ CopyHolds(me) /\ me \in ReaderRecord
      /\ reader \in [Readers -> ReaderRecord] /\ seen \in [Readers -> [Events -> Nat]]
      /\ me.last \in Nat /\ me.at \in Nat
      /\ me.snapshot \in Seq(Entry) /\ me.inbox \in Seq(Entry)
      /\ published \subseteq Entry
  BY Parts DEF StreamInv, TypeOK, ReaderHolds
\* An unchanged page.
<1>2. ASSUME NEW x, reader' = [reader EXCEPT ![r] = x], UNCHANGED seen,
             UNCHANGED <<sequence, buffer, mapped, pub, published, disordered, expiries>>,
             CopyHolds(x), x.last >= me.last
      PROVE  \E y, s : Serves(r, y, s) /\ ReaderHolds(y, s)
  <2>1. Serves(r, x, seen[r])
    BY <1>1, <1>2 DEF Serves
  <2> QED BY <1>2, <2>1, ReceivesNothing
\* A page that receives an entry.
<1>3. ASSUME NEW x, reader' = [reader EXCEPT ![r] = x], NEW entry \in published,
             Deliver(r, entry), entry.id > me.last \/ entry.terminal,
             entry.terminal \/ x.last >= entry.id,
             UNCHANGED <<sequence, buffer, mapped, pub, published, disordered, expiries>>,
             CopyHolds(x), x.last >= me.last
      PROVE  \E y, s : Serves(r, y, s) /\ ReaderHolds(y, s)
  <2>1. Serves(r, x, Received(r, entry))
    BY <1>1, <1>3 DEF Serves, Deliver, Received
  <2> QED BY <1>3, <2>1, Receives
<1>4. CASE ReadBuffer(r)
  <2> DEFINE x == [me EXCEPT !.pc = "buffered", !.snapshot = buffer]
  <2>1. buffer \in Seq(Entry) /\ Held(buffer) \subseteq published
    BY DEF StreamInv, TypeOK, EntriesHold
  <2>2. CopyHolds(x) /\ x.last = me.last
    <3>1. /\ x \in ReaderRecord /\ x.last = me.last
          /\ x.snapshot = buffer /\ x.inbox = me.inbox /\ x.at = me.at
      BY <1>1, <2>1 DEF ReaderRecord, Connected
    <3>2. me.at = 0
      BY <1>1, <1>4 DEF ReadBuffer, CopyHolds
    <3>3. Len(buffer) \in Nat
      BY <2>1
    <3> HIDE DEF x
    <3> QED BY <1>1, <2>1, <3>1, <3>2, <3>3 DEF CopyHolds
  <2>3. reader' = [reader EXCEPT ![r] = x] /\ UNCHANGED seen
    BY <1>1, <1>4 DEF ReadBuffer
  <2>4. UNCHANGED <<sequence, buffer, mapped, pub, published, disordered, expiries>>
    BY <1>4 DEF ReadBuffer
  <2>5. x.last >= me.last
    BY <1>1, <2>2
  <2> HIDE DEF x
  <2> QED BY <1>2, <2>2, <2>3, <2>4, <2>5
<1>5. CASE ReadSequence(r)
  <2> DEFINE x == [me EXCEPT !.pc = IF HistoryGap(me.last, me.snapshot, sequence)
                                    THEN "gap" ELSE "replay"]
  <2>1. CopyHolds(x) /\ x.last = me.last
    BY <1>1 DEF CopyHolds, ReaderRecord, Connected
  <2>2. reader' = [reader EXCEPT ![r] = x] /\ UNCHANGED seen
    BY <1>1, <1>5 DEF ReadSequence
  <2>3. UNCHANGED <<sequence, buffer, mapped, pub, published, disordered, expiries>>
    BY <1>5 DEF ReadSequence
  <2>4. x.last >= me.last
    BY <1>1, <2>1
  <2> HIDE DEF x
  <2> QED BY <1>2, <2>1, <2>2, <2>3, <2>4
<1>6. CASE ReplayNext(r)
  <2> DEFINE entry == me.snapshot[me.at + 1]
             passed == [me EXCEPT !.at = @ + 1]
             sent == [me EXCEPT !.at = @ + 1, !.last = entry.id, !.replayed = TRUE,
                                !.ended = entry.terminal]
  <2>1. me.pc = "replay" /\ me.at + 1 \in DOMAIN me.snapshot
    BY <1>1, <1>6 DEF ReplayNext
  <2>2. entry \in published /\ entry \in Entry
    BY <1>1, <2>1 DEF CopyHolds, Held
  <2>3. CopyHolds(passed) /\ passed.last = me.last
    <3>0. me.at + 1 \in Nat
      BY <1>1
    <3>1. /\ passed \in ReaderRecord /\ passed.last = me.last /\ passed.pc = me.pc
          /\ passed.snapshot = me.snapshot /\ passed.inbox = me.inbox
          /\ passed.at = me.at + 1
      BY <1>1, <3>0 DEF ReaderRecord
    <3> HIDE DEF passed
    <3> QED BY <1>1, <2>1, <3>1 DEF CopyHolds
  <2>4. CopyHolds(sent) /\ sent.last = entry.id
    <3>1. entry.id \in Nat /\ entry.terminal \in BOOLEAN /\ me.at + 1 \in Nat
      BY <1>1, <2>2 DEF Entry
    <3> HIDE DEF entry
    <3>2. /\ sent \in ReaderRecord /\ sent.last = entry.id /\ sent.pc = me.pc
          /\ sent.snapshot = me.snapshot /\ sent.inbox = me.inbox
          /\ sent.at = me.at + 1
      BY <1>1, <3>1 DEF ReaderRecord
    <3> HIDE DEF sent
    <3> QED BY <1>1, <2>1, <3>2 DEF CopyHolds
  <2>5. entry.id \in Nat
    BY <2>2 DEF Entry
  <2>6. \/ reader' = [reader EXCEPT ![r] = passed] /\ UNCHANGED seen
        \/ /\ reader' = [reader EXCEPT ![r] = sent]
           /\ Deliver(r, entry) /\ entry.id > me.last
    BY <1>1, <1>6 DEF ReplayNext
  <2>7. UNCHANGED <<sequence, buffer, mapped, pub, published, disordered, expiries>>
    BY <1>6 DEF ReplayNext
  <2> HIDE DEF entry, passed, sent
  <2> QED BY <1>1, <1>2, <1>3, <2>2, <2>3, <2>4, <2>5, <2>6, <2>7
<1>7. CASE ReplayOver(r)
  <2> DEFINE x(pc) == [me EXCEPT !.pc = pc]
             last == Last(me.snapshot)
  <2>1. ASSUME NEW pc \in {"closed", "live"} PROVE CopyHolds(x(pc)) /\ x(pc).last = me.last
    BY <1>1 DEF CopyHolds, ReaderRecord, Connected
  <2>2. UNCHANGED <<sequence, buffer, mapped, pub, published, disordered, expiries>>
    BY <1>7 DEF ReplayOver
  <2>3. \/ reader' = [reader EXCEPT ![r] = x("closed")] /\ UNCHANGED seen
        \/ reader' = [reader EXCEPT ![r] = x("live")] /\ UNCHANGED seen
        \/ /\ reader' = [reader EXCEPT ![r] = x("closed")]
           /\ me.snapshot # <<>> /\ last.terminal /\ Deliver(r, last)
    BY <1>1, <1>7 DEF ReplayOver
  <2>4. me.snapshot # <<>> => last \in published
    BY <1>1 DEF CopyHolds, Held, Last
  <2> HIDE DEF x, last
  <2> QED BY <1>1, <1>2, <1>3, <2>1, <2>2, <2>3, <2>4
<1>8. CASE LiveNext(r)
  <2> DEFINE entry == Head(me.inbox)
             skipped == [me EXCEPT !.inbox = Tail(@)]
             sent == [me EXCEPT !.inbox = Tail(@), !.last = entry.id,
                                !.pc = IF entry.terminal THEN "closed" ELSE "live"]
  <2>1. me.pc = "live" /\ me.inbox # <<>>
    BY <1>8 DEF LiveNext
  <2>2. entry \in published /\ entry \in Entry /\ entry.id \in Nat
    BY <1>1, <2>1 DEF CopyHolds, Held, Entry
  <2>3. Tail(me.inbox) \in Seq(Entry) /\ Held(Tail(me.inbox)) \subseteq Held(me.inbox)
    BY <1>1, <2>1 DEF Held
  <2>4. CopyHolds(skipped) /\ skipped.last = me.last
    BY <1>1, <2>1, <2>3 DEF CopyHolds, ReaderRecord
  <2>5. CopyHolds(sent) /\ sent.last = entry.id
    BY <1>1, <2>1, <2>2, <2>3 DEF CopyHolds, ReaderRecord, Connected
  <2>6. \/ reader' = [reader EXCEPT ![r] = skipped] /\ UNCHANGED seen
        \/ /\ reader' = [reader EXCEPT ![r] = sent]
           /\ Deliver(r, entry) /\ ~(entry.id <= me.last)
    BY <1>1, <1>8 DEF LiveNext
  <2>7. UNCHANGED <<sequence, buffer, mapped, pub, published, disordered, expiries>>
    BY <1>8 DEF LiveNext
  <2> HIDE DEF entry, skipped, sent
  <2>8. CASE reader' = [reader EXCEPT ![r] = skipped] /\ UNCHANGED seen
    <3>1. skipped.last >= me.last
      BY <1>1, <2>4
    <3> HIDE DEF me
    <3> QED BY <1>2, <2>4, <2>7, <2>8, <3>1
  <2>9. CASE /\ reader' = [reader EXCEPT ![r] = sent]
             /\ Deliver(r, entry) /\ ~(entry.id <= me.last)
    <3>1. entry.id > me.last /\ sent.last >= me.last /\ sent.last >= entry.id
      BY <1>1, <2>2, <2>5, <2>9
    <3> QED BY <1>3, <2>2, <2>5, <2>7, <2>9, <3>1
  <2> QED BY <2>6, <2>8, <2>9
<1> QED BY <1>4, <1>5, <1>6, <1>7, <1>8 DEF GeneratorStep

\* A lost connection leaves the page what it had.
LEMMA DisconnectServes ==
    ASSUME StreamInv, NEW r \in Readers, Disconnect(r)
    PROVE  \E x, s : Serves(r, x, s) /\ ReaderHolds(x, s)
<1> DEFINE x == [AwayReader EXCEPT !.last = reader[r].last]
<1>1. /\ reader[r].last \in Nat
      /\ reader \in [Readers -> ReaderRecord] /\ seen \in [Readers -> [Events -> Nat]]
  BY Parts DEF StreamInv, TypeOK
<1>2. CopyHolds(x) /\ x.last = reader[r].last
  <2>1. <<>> \in Seq(Entry) /\ Len(<<>>) = 0 /\ Held(<<>>) = {}
    BY DEF Held
  <2>2. /\ x \in ReaderRecord /\ x.last = reader[r].last
        /\ x.snapshot = <<>> /\ x.inbox = <<>> /\ x.at = 0
    BY <1>1, <2>1 DEF AwayReader, ReaderRecord
  <2> HIDE DEF x
  <2> QED BY <2>1, <2>2 DEF CopyHolds
<1>3. Serves(r, x, seen[r])
  BY <1>1 DEF Disconnect, Serves
<1> HIDE DEF x
<1> QED BY <1>1, <1>2, <1>3, ReceivesNothing

-----------------------------------------------------------------------------
(* Publishers *)

\* An appended entry is one more held.
LEMMA HeldAppend ==
    ASSUME NEW s \in Seq(Entry), NEW entry \in Entry
    PROVE  /\ Append(s, entry) \in Seq(Entry) /\ Append(s, entry) # <<>>
           /\ Held(Append(s, entry)) = Held(s) \cup {entry}
<1> DEFINE t == Append(s, entry)
<1>1. /\ t \in Seq(Entry) /\ t # <<>> /\ Len(t) = Len(s) + 1 /\ Len(s) \in Nat
      /\ \A i \in 1..Len(s) : t[i] = s[i]
      /\ t[Len(s) + 1] = entry
  OBVIOUS
<1>2. DOMAIN t = 1..(Len(s) + 1) /\ DOMAIN s = 1..Len(s)
  BY <1>1
<1> HIDE DEF t
<1>3. Held(t) \subseteq Held(s) \cup {entry}
  BY <1>1, <1>2 DEF Held
<1>4. Held(s) \subseteq Held(t) /\ entry \in Held(t)
  BY <1>1, <1>2 DEF Held
<1> QED BY <1>1, <1>3, <1>4 DEF t

\* LTRIM keeps the end of the list.
LEMMA TrimmedKeepsEnd ==
    ASSUME NEW s \in Seq(Entry), s # <<>>
    PROVE  /\ Trimmed(s) \in Seq(Entry) /\ Trimmed(s) # <<>>
           /\ Len(Trimmed(s)) <= BufferLimit
           /\ \E k \in Nat : /\ Len(Trimmed(s)) = Len(s) - k
                           /\ \A i \in 1..(Len(s) - k) : Trimmed(s)[i] = s[i + k]
<1>1. Len(s) \in Nat /\ Len(s) > 0 /\ BufferLimit \in Nat \ {0}
  BY StreamConstants
<1>2. CASE Len(s) <= BufferLimit
  BY <1>1, <1>2 DEF Trimmed
<1>3. CASE Len(s) > BufferLimit
  <2> DEFINE k == Len(s) - BufferLimit
             t == SubSeq(s, Len(s) - BufferLimit + 1, Len(s))
  <2>1. Trimmed(s) = t
    BY <1>1, <1>3 DEF Trimmed
  <2>2. t \in Seq(Entry) /\ Len(t) = BufferLimit
    BY <1>1, <1>3
  <2>3. \A i \in 1..BufferLimit : t[i] = s[i + k]
    BY <1>1, <1>3
  <2>4. k \in Nat /\ Len(s) - k = BufferLimit
    BY <1>1, <1>3
  <2> HIDE DEF k, t
  <2>5. t # <<>>
    BY <1>1, <2>2
  <2> QED BY <1>1, <2>1, <2>2, <2>3, <2>4, <2>5
<1> QED BY <1>1, <1>2, <1>3

\* What the pipeline makes of the next event of p.
NextEntry(p) ==
    [id |-> pub[p].id, event |-> <<p, pub[p].next>>,
     terminal |-> Script[p][pub[p].next].terminal,
     separator |-> Script[p][pub[p].next].separator]

\* It is an entry for an event that had none.
LEMMA NextEntryIsNew ==
    ASSUME StreamInv, NEW p \in Publishers, Busy(p), pub[p].id # 0
    PROVE  /\ NextEntry(p) \in Entry
           /\ \A e \in published : e.event # NextEntry(p).event
<1>1. /\ pub[p].next \in Nat \ {0} /\ pub[p].id \in Nat \ {0}
      /\ Script[p] \in Seq(Item)
  BY StreamConstants DEF StreamInv, TypeOK, EntriesHold
<1>2. pub[p].next \in DOMAIN Script[p]
  BY <1>1 DEF Busy
<1>3. <<p, pub[p].next>> \in Events /\ Script[p][pub[p].next] \in Item
  BY <1>1, <1>2 DEF Events
<1>4. NextEntry(p) \in Entry
  BY <1>1, <1>3 DEF NextEntry, Entry, Item
<1>5. ASSUME NEW e \in published, e.event = <<p, pub[p].next>> PROVE FALSE
  <2>1. e.event[1] = p /\ e.event[2] = pub[p].next
    BY <1>5
  <2> QED BY <1>1, <2>1 DEF StreamInv, EntriesHold
<1> QED BY <1>4, <1>5 DEF NextEntry

\* The pipeline adds one entry to the list, the channel and what is published.
LEMMA PipelineHolds ==
    ASSUME StreamInv, NEW p \in Publishers, PublishPipeline(p)
    PROVE  StreamInv'
<1> DEFINE entry == NextEntry(p)
           list == Append(buffer, entry)
<1>1. /\ entry \in Entry /\ \A e \in published : e.event # entry.event
      /\ pub[p].next \in Nat /\ pub \in [Publishers -> [next : Nat, id : Nat]]
      /\ buffer \in Seq(Entry) /\ published \subseteq Entry
      /\ seen \in [Readers -> [Events -> Nat]] /\ reader \in [Readers -> ReaderRecord]
  BY NextEntryIsNew DEF PublishPipeline, StreamInv, TypeOK
<1>2. /\ buffer' = Trimmed(list)
      /\ published' = published \cup {entry}
      /\ disordered' \subseteq disordered \cup published \cup {entry}
      /\ pub' = [pub EXCEPT ![p] = [next |-> pub[p].next + 1, id |-> 0]]
      /\ reader' = [r \in Readers |->
                       IF reader[r].pc \in Connected
                       THEN [reader[r] EXCEPT !.inbox = Append(@, entry)]
                       ELSE reader[r]]
      /\ UNCHANGED <<sequence, mapped, seen, disconnects, expiries>>
  BY DEF PublishPipeline, NextEntry
<1>3. entry.event[1] = p /\ entry.event[2] = pub[p].next
  BY DEF NextEntry
<1> HIDE DEF entry
<1>4. list \in Seq(Entry) /\ list # <<>> /\ Held(list) = Held(buffer) \cup {entry}
  BY <1>1, HeldAppend
<1>5. /\ buffer' \in Seq(Entry) /\ Len(buffer') <= BufferLimit
      /\ Held(buffer') \subseteq Held(list)
  <2> HIDE DEF list
  <2> DEFINE kept == Trimmed(list)
  <2>1. /\ kept \in Seq(Entry) /\ Len(kept) <= BufferLimit
        /\ \E k \in Nat : /\ Len(kept) = Len(list) - k
                        /\ \A i \in 1..(Len(list) - k) : kept[i] = list[i + k]
    BY <1>4, TrimmedKeepsEnd
  <2>2. PICK k \in Nat : /\ Len(kept) = Len(list) - k
                        /\ \A i \in 1..(Len(list) - k) : kept[i] = list[i + k]
    BY <2>1
  <2>3. ASSUME NEW i \in DOMAIN kept PROVE kept[i] \in Held(list)
    <3>1. Len(list) \in Nat /\ DOMAIN list = 1..Len(list) /\ DOMAIN kept = 1..Len(kept)
      BY <1>4, <2>1
    <3> HIDE DEF kept
    <3>2. i \in 1..(Len(list) - k) /\ i + k \in DOMAIN list
      BY <2>2, <3>1
    <3> QED BY <2>2, <3>2 DEF Held
  <2> QED BY <1>2, <2>1, <2>3 DEF Held
<1>6. EntriesHold'
  <2>1. Held(buffer') \subseteq published'
    BY <1>2, <1>4, <1>5 DEF StreamInv, EntriesHold
  <2>2. \A q \in Publishers : pub'[q].next # 0 /\ pub'[q].next >= pub[q].next
    BY <1>1, <1>2 DEF StreamInv, EntriesHold
  <2>3. \A e \in published' : e.event[2] < pub'[e.event[1]].next
    <3>1. ASSUME NEW e \in published PROVE e.event[2] < pub'[e.event[1]].next
      <4>1. e.event \in Events
        BY <1>1 DEF Entry
      <4>2. e.event[1] \in Publishers /\ e.event[2] \in Nat
        BY <4>1, StreamConstants DEF Events
      <4>3. pub[e.event[1]].next \in Nat /\ pub'[e.event[1]].next \in Nat
        BY <1>1, <1>2, <4>2
      <4>4. e.event[2] < pub[e.event[1]].next
        BY DEF StreamInv, EntriesHold
      <4> QED BY <2>2, <4>2, <4>3, <4>4
    <3>2. entry.event[2] < pub'[entry.event[1]].next
      BY <1>1, <1>2, <1>3
    <3> QED BY <1>2, <3>1, <3>2
  <2>4. \A e, f \in published' : e.event = f.event => e = f
    BY <1>1, <1>2 DEF StreamInv, EntriesHold
  <2> QED BY <2>1, <2>2, <2>3, <2>4 DEF EntriesHold
<1>7. ASSUME NEW r \in Readers PROVE ReaderHolds(reader[r], seen[r])' /\ reader'[r] \in ReaderRecord
  <2>1. ReaderHolds(reader[r], seen[r]) /\ reader[r] \in ReaderRecord
    BY <1>1 DEF StreamInv
  <2>2. /\ reader[r].inbox \in Seq(Entry) /\ reader[r].last \in Nat
    BY <2>1, Parts
  <2>3. /\ reader'[r] \in ReaderRecord
        /\ reader'[r].pc = reader[r].pc /\ reader'[r].last = reader[r].last
        /\ reader'[r].at = reader[r].at /\ reader'[r].snapshot = reader[r].snapshot
        /\ reader'[r].inbox \in {reader[r].inbox, Append(reader[r].inbox, entry)}
    <3>1. Append(reader[r].inbox, entry) \in Seq(Entry)
      BY <1>1, <2>2
    <3> QED BY <1>2, <2>1, <3>1 DEF ReaderRecord
  <2>4. Held(Append(reader[r].inbox, entry)) = Held(reader[r].inbox) \cup {entry}
    BY <1>1, <2>2, HeldAppend
  <2>5. CopyHolds(reader[r])'
    BY <1>2, <2>1, <2>3, <2>4 DEF ReaderHolds, CopyHolds
  <2>6. seen[r] \in [Events -> Nat] /\ entry.event \in Events
    BY <1>1 DEF Entry
  <2>7. seen[r][entry.event] = 0
    <3>1. ~(seen[r][entry.event] > 0)
      BY <1>1, <2>1, <2>6 DEF ReaderHolds
    <3>2. seen[r][entry.event] \in Nat
      BY <2>6
    <3> QED BY <3>1, <3>2
  <2> QED BY <1>2, <2>1, <2>3, <2>5, <2>6, <2>7 DEF ReaderHolds
<1>8. TypeOK'
  <2>1. reader' \in [Readers -> ReaderRecord]
    BY <1>2, <1>7
  <2>2. pub' \in [Publishers -> [next : Nat, id : Nat]]
    BY <1>1, <1>2
  <2> QED BY <1>1, <1>2, <1>5, <2>1, <2>2 DEF StreamInv, TypeOK
<1> QED BY <1>6, <1>7, <1>8 DEF StreamInv

\* The other steps of a publisher, and the expiry of the keys, leave the readers alone.
LEMMA AroundReadersHolds ==
    ASSUME StreamInv, UNCHANGED <<reader, seen, published, disordered>>,
           Held(buffer') \subseteq published,
           \A p \in Publishers : pub'[p].next # 0 /\ pub'[p].next >= pub[p].next,
           TypeOK'
    PROVE  StreamInv'
<1>1. ASSUME NEW e \in published PROVE e.event[2] < pub'[e.event[1]].next
  <2>1. e.event \in Events
    BY DEF StreamInv, TypeOK, Entry
  <2>2. e.event[1] \in Publishers /\ e.event[2] \in Nat
    BY <2>1, StreamConstants DEF Events
  <2>3. pub[e.event[1]].next \in Nat /\ pub'[e.event[1]].next \in Nat
    BY <2>2 DEF StreamInv, TypeOK
  <2> QED BY <2>2, <2>3 DEF StreamInv, EntriesHold
<1>2. EntriesHold'
  BY <1>1 DEF StreamInv, EntriesHold
<1>3. \A r \in Readers : ReaderHolds(reader[r], seen[r])'
  BY DEF StreamInv, ReaderHolds, CopyHolds
<1> QED BY <1>2, <1>3 DEF StreamInv

-----------------------------------------------------------------------------
(* Type correctness, and no event twice *)

\* At first nothing is published and nobody is connected.
LEMMA StreamStarts == Init => StreamInv
<1> SUFFICES ASSUME Init PROVE StreamInv
  OBVIOUS
<1>1. AwayReader = Fresh("away", 0)
  BY DEF AwayReader, Fresh
<1>2. \A r \in Readers : CopyHolds(reader[r]) /\ ReaderHolds(reader[r], seen[r])
  <2>1. CopyHolds(AwayReader)
    BY <1>1, FreshHolds
  <2> QED BY <2>1 DEF Init, ReaderHolds
<1>3. EntriesHold
  BY DEF Init, EntriesHold, Held
<1>4. TypeOK
  <2>1. reader \in [Readers -> ReaderRecord]
    BY <1>2 DEF Init, CopyHolds
  <2>2. <<>> \in Seq(Entry) /\ Len(<<>>) = 0
    OBVIOUS
  <2> QED BY <2>1, <2>2, StreamConstants DEF Init, TypeOK
<1> QED BY <1>2, <1>3, <1>4 DEF StreamInv

\* A client that moves leaves the others as they are.
LEMMA ClientMoves ==
    ASSUME StreamInv, NEW r \in Readers, NEW x, NEW s, Serves(r, x, s), ReaderHolds(x, s),
           disconnects' \in 0..MaxDisconnects
    PROVE  StreamInv'
<1>1. /\ reader \in [Readers -> ReaderRecord] /\ seen \in [Readers -> [Events -> Nat]]
      /\ x \in ReaderRecord /\ s \in [Events -> Nat]
  BY DEF StreamInv, TypeOK, ReaderHolds, CopyHolds
<1>2. TypeOK'
  BY <1>1 DEF StreamInv, TypeOK, Serves
<1>3. EntriesHold'
  BY DEF StreamInv, EntriesHold, Serves
<1>4. ASSUME NEW q \in Readers PROVE ReaderHolds(reader[q], seen[q])'
  <2>1. ReaderHolds(reader'[q], seen'[q])
    BY <1>1 DEF StreamInv, Serves
  <2> QED BY <2>1 DEF ReaderHolds, CopyHolds, Serves
<1> QED BY <1>2, <1>3, <1>4 DEF StreamInv

\* Every step of a publisher, a client or Redis keeps the invariant.
LEMMA StreamNext == StreamInv /\ [Next]_vars => StreamInv'
<1> SUFFICES ASSUME StreamInv, [Next]_vars PROVE StreamInv'
  OBVIOUS
<1>1. /\ TypeOK /\ Held(buffer) \subseteq published
      /\ \A p \in Publishers : /\ pub[p].next \in Nat \ {0} /\ pub[p].id \in Nat
                               /\ pub[p] \in [next : Nat, id : Nat]
  BY DEF StreamInv, TypeOK, EntriesHold
<1>2. ASSUME NEW p \in Publishers, PublishIncr(p) PROVE StreamInv'
  <2>1. /\ pub' = [pub EXCEPT ![p] = [pub[p] EXCEPT !.id = sequence + 1]]
        /\ [pub[p] EXCEPT !.id = sequence + 1] \in [next : Nat, id : Nat]
        /\ [pub[p] EXCEPT !.id = sequence + 1].next = pub[p].next
    BY <1>1, <1>2 DEF PublishIncr, TypeOK
  <2>2. TypeOK'
    BY <1>1, <1>2, <2>1 DEF PublishIncr, TypeOK
  <2>3. \A q \in Publishers : pub'[q].next = pub[q].next
    BY <1>1, <2>1 DEF TypeOK
  <2> QED BY <1>1, <1>2, <2>2, <2>3, AroundReadersHolds DEF PublishIncr
<1>3. ASSUME NEW p \in Publishers, PublishPipeline(p) PROVE StreamInv'
  BY <1>3, PipelineHolds
<1>4. ASSUME NEW p \in Publishers, PublishFails(p) PROVE StreamInv'
  <2>1. /\ pub' = [pub EXCEPT ![p] = [next |-> pub[p].next + 1, id |-> 0]]
        /\ [next |-> pub[p].next + 1, id |-> 0] \in [next : Nat, id : Nat]
    BY <1>1, <1>4 DEF PublishFails
  <2>2. TypeOK'
    BY <1>1, <1>4, <2>1 DEF PublishFails, TypeOK
  <2>3. \A q \in Publishers : pub'[q].next # 0 /\ pub'[q].next >= pub[q].next
    BY <1>1, <2>1 DEF TypeOK
  <2> QED BY <1>1, <1>4, <2>2, <2>3, AroundReadersHolds DEF PublishFails
<1>5. ASSUME NEW p \in Publishers, Remember(p) PROVE StreamInv'
  <2>1. /\ pub' = [pub EXCEPT ![p] = [pub[p] EXCEPT !.next = @ + 1]]
        /\ [pub[p] EXCEPT !.next = @ + 1] \in [next : Nat, id : Nat]
        /\ [pub[p] EXCEPT !.next = @ + 1].next = pub[p].next + 1
    <3>1. pub[p].next + 1 \in Nat
      BY <1>1
    <3> QED BY <1>1, <1>5, <3>1 DEF Remember, TypeOK
  <2>2. TypeOK'
    BY <1>1, <1>5, <2>1 DEF Remember, TypeOK
  <2>3. \A q \in Publishers : pub'[q].next # 0 /\ pub'[q].next >= pub[q].next
    BY <1>1, <2>1 DEF TypeOK
  <2> QED BY <1>1, <1>5, <2>2, <2>3, AroundReadersHolds DEF Remember
<1>6. ASSUME NEW r \in Readers, Connect(r) PROVE StreamInv'
  BY <1>1, <1>6, ConnectServes, ClientMoves DEF Connect, TypeOK
<1>7. ASSUME NEW r \in Readers, GeneratorStep(r) PROVE StreamInv'
  <2>1. UNCHANGED disconnects
    BY <1>7 DEF GeneratorStep, ReadBuffer, ReadSequence, ReplayNext, ReplayOver, LiveNext
  <2> QED BY <1>1, <1>7, <2>1, GeneratorServes, ClientMoves DEF TypeOK
<1>8. ASSUME NEW r \in Readers, Disconnect(r) PROVE StreamInv'
  <2>1. disconnects' \in 0..MaxDisconnects
    BY <1>1, <1>8, StreamConstants DEF Disconnect, TypeOK
  <2> QED BY <1>8, <2>1, DisconnectServes, ClientMoves
<1>9. ASSUME Expire, expiries' \in 0..MaxExpiries PROVE StreamInv'
  <2>1. <<>> \in Seq(Entry) /\ Len(<<>>) = 0 /\ Held(<<>>) = {} /\ BufferLimit \in Nat
    BY StreamConstants DEF Held
  <2>2. TypeOK'
    <3>1. buffer' \in Seq(Entry) /\ Len(buffer') <= BufferLimit
      BY <1>9, <2>1 DEF Expire
    <3>2. sequence' \in Nat /\ mapped' \in BOOLEAN
      BY <1>9 DEF Expire
    <3>3. UNCHANGED <<pub, reader, seen, published, disordered, disconnects>>
      BY <1>9 DEF Expire
    <3> QED BY <1>1, <1>9, <3>1, <3>2, <3>3 DEF TypeOK
  <2> QED BY <1>1, <1>9, <2>1, <2>2, AroundReadersHolds DEF Expire
<1>10. CASE ExpireAfterRun \/ ExpireDuringRun
  <2>1. Expire /\ expiries' \in 0..MaxExpiries
    BY <1>1, <1>10, StreamConstants DEF ExpireAfterRun, ExpireDuringRun, TypeOK
  <2> QED BY <1>9, <2>1
<1>11. CASE UNCHANGED vars
  <2>1. TypeOK'
    BY <1>1, <1>11 DEF vars, TypeOK
  <2> QED BY <1>1, <1>11, <2>1, AroundReadersHolds DEF vars
<1> QED BY <1>2, <1>3, <1>4, <1>5, <1>6, <1>7, <1>8, <1>10, <1>11
       DEF Next, PublisherStep

\* The invariant holds for any publishers, clients, lost connections and expiries.
THEOREM StreamInvariant == Spec => []StreamInv
  BY StreamStarts, StreamNext, PTL DEF Spec

\* Type correctness: the Redis list never outgrows SSE_EVENT_BUFFER_LIMIT.
THEOREM StreamTypeCorrect == Spec => []TypeOK
<1>1. StreamInv => TypeOK
  BY DEF StreamInv
<1> QED BY <1>1, StreamInvariant, PTL

\* However replay and subscription overlap, whoever publishes in whatever order, and
\* though ids start again after an expiry, a page receives no event twice that is not
\* the last of its stream (create_sse_event_generator, last_sent_event_id).
THEOREM NoEventTwice == Spec => []NoDuplicates
<1>1. StreamInv => NoDuplicates
  BY DEF StreamInv, ReaderHolds, NoDuplicates
<1> QED BY <1>1, StreamInvariant, PTL

-----------------------------------------------------------------------------
(* Events in order *)

InOrder == published \ disordered

\* The events of which InOrderIsNotLost speaks.
Readable == {e \in InOrder : ~e.separator}

\* The entries of s that are in G have their place among the others.
Ordered(s, G) ==
    \A i, j \in DOMAIN s :
       i < j /\ {s[i], s[j]} \cap G # {} => s[i].id < s[j].id

\* What is missing from s and in order was published before s begins or after it ends.
Whole(s) ==
    s # <<>> => \A e \in InOrder :
                   \/ e \in Held(s)
                   \/ e.id < s[1].id
                   \/ \A f \in Held(s) : f.id < e.id

\* Until the keys expire after the run, no id is ahead of the counter, and an entry in
\* order is in the list or older than all of it.  A client is at the start or at an entry.
ChannelHolds ==
    /\ \A r \in Readers : reader[r].last = 0 \/ \E e \in published : reader[r].last = e.id
    /\ ~mapped => \A p \in Publishers : ~Busy(p)
    /\ mapped =>
          /\ \A e \in published : e.id <= sequence
          /\ \A p \in Publishers : pub[p].id <= sequence
          /\ \A e \in InOrder :
                buffer # <<>> /\ (e \in Held(buffer) \/ \A f \in Held(buffer) : e.id < f.id)
          /\ Ordered(buffer, InOrder)

\* Client x has received what is readable behind its position; what lies ahead is in the
\* rest of its replay or in its subscription.
FollowerHolds(x, s) ==
    /\ \A e \in Readable : e.id <= x.last => s[e.event] > 0
    /\ Ordered(x.snapshot, InOrder) /\ Whole(x.snapshot)
    /\ Ordered(x.inbox, InOrder)
    /\ x.pc \in {"subscribed", "buffered", "replay"} => mapped
    /\ x.pc = "buffered" => \A e \in InOrder :
          \/ e \in Held(x.inbox)
          \/ x.snapshot # <<>> /\ (e \in Held(x.snapshot) \/ e.id < x.snapshot[1].id)
    /\ x.pc = "replay" =>
          /\ \A e \in InOrder : e.id > x.last => e \in Held(x.inbox) \cup Held(x.snapshot)
          /\ \A i \in DOMAIN x.snapshot : i <= x.at => x.snapshot[i].id <= x.last
          /\ x.snapshot # <<>> => x.snapshot[1].id <= x.last + 1
    /\ x.pc = "live" => \A e \in Readable : e.id > x.last => e \in Held(x.inbox)

FollowInv ==
    expiries = 0 => ChannelHolds /\ \A r \in Readers : FollowerHolds(reader[r], seen[r])

-----------------------------------------------------------------------------
(* What clients rely on *)

\* The first of a sequence comes before the entries in order of the rest.
LEMMA TailFollows ==
    ASSUME NEW G, NEW s \in Seq(Entry), s # <<>>, Ordered(s, G)
    PROVE  /\ Ordered(Tail(s), G)
           /\ \A e \in Held(s) : e = Head(s) \/ e \in Held(Tail(s))
           /\ \A e \in Held(s) \cap G : e = Head(s) \/ e.id > Head(s).id
<1>1. Len(s) \in Nat \ {0} /\ DOMAIN s = 1..Len(s) /\ Head(s) = s[1]
  OBVIOUS
<1>2. /\ Tail(s) \in Seq(Entry) /\ Len(Tail(s)) = Len(s) - 1
      /\ DOMAIN Tail(s) = 1..(Len(s) - 1)
      /\ \A i \in 1..(Len(s) - 1) : Tail(s)[i] = s[i + 1]
  BY <1>1
<1>3. \A i \in DOMAIN s : s[i].id \in Nat
  <2>1. \A i \in DOMAIN s : s[i] \in Entry
    BY <1>1
  <2> QED BY <2>1 DEF Entry
<1> DEFINE t == Tail(s)
<1> HIDE DEF t
<1>4. Ordered(t, G)
  <2> SUFFICES ASSUME NEW i \in DOMAIN t, NEW j \in DOMAIN t, i < j,
                      {t[i], t[j]} \cap G # {}
               PROVE  t[i].id < t[j].id
    BY DEF Ordered
  <2>1. /\ i + 1 \in DOMAIN s /\ j + 1 \in DOMAIN s /\ i + 1 < j + 1
        /\ t[i] = s[i + 1] /\ t[j] = s[j + 1]
    BY <1>1, <1>2 DEF t
  <2> QED BY <2>1 DEF Ordered
<1>5. ASSUME NEW i \in DOMAIN s, s[i] # Head(s)
      PROVE  s[i] \in Held(t) /\ (s[i] \in G => s[i].id > Head(s).id)
  <2>1. i \in 2..Len(s) /\ i - 1 \in 1..(Len(s) - 1) /\ (i - 1) + 1 = i
    BY <1>1, <1>5
  <2>2. t[i - 1] = s[i] /\ i - 1 \in DOMAIN t
    BY <1>2, <2>1 DEF t
  <2>3. s[i] \in G => s[1].id < s[i].id
    <3>1. 1 \in DOMAIN s /\ 1 < i
      BY <1>1, <2>1
    <3> QED BY <3>1 DEF Ordered
  <2> QED BY <1>1, <1>3, <2>2, <2>3 DEF Held
<1> QED BY <1>4, <1>5 DEF t, Held

\* An entry after those it is in order with.
LEMMA AppendOrders ==
    ASSUME NEW G, NEW s \in Seq(Entry), Ordered(s, G), NEW entry \in Entry,
           \A e \in Held(s) : {e, entry} \cap G # {} => e.id < entry.id
    PROVE  Ordered(Append(s, entry), G)
<1> DEFINE t == Append(s, entry)
<1>1. /\ Len(s) \in Nat /\ DOMAIN s = 1..Len(s) /\ DOMAIN t = 1..(Len(s) + 1)
      /\ \A i \in 1..Len(s) : t[i] = s[i]
      /\ t[Len(s) + 1] = entry
  OBVIOUS
<1> HIDE DEF t
<1> SUFFICES ASSUME NEW i \in DOMAIN t, NEW j \in DOMAIN t, i < j,
                    {t[i], t[j]} \cap G # {}
             PROVE  t[i].id < t[j].id
  BY DEF Ordered, t
<1>2. i \in DOMAIN s /\ t[i] = s[i] /\ s[i] \in Held(s)
  BY <1>1 DEF Held
<1>3. CASE j = Len(s) + 1
  BY <1>1, <1>2, <1>3
<1>4. CASE j # Len(s) + 1
  <2>1. j \in DOMAIN s /\ t[j] = s[j]
    BY <1>1, <1>4
  <2> QED BY <1>2, <2>1 DEF Ordered
<1> QED BY <1>3, <1>4

\* While the run has not expired there is one list, and each client relies on its own stage.
FollowedBy(r) ==
    /\ StreamInv
    /\ ChannelHolds
    /\ FollowerHolds(reader[r], seen[r])

\* A position is zero, kept, or that of an entry.
Positioned(r, x) ==
    x.last \in {0, reader[r].last} \/ \E e \in published : x.last = e.id

\* What is published has a number, and is not mistaken by the live loop.
LEMMA EntryNumbers ==
    ASSUME StreamInv, NEW e \in published
    PROVE  e \in Entry /\ e.id \in Nat /\ e.id > 0 /\ e.event \in Events
  BY DEF StreamInv, TypeOK, Entry

\* A new connection relies on nothing yet but its position.
LEMMA ConnectFollows ==
    ASSUME NEW r \in Readers, FollowedBy(r), Connect(r)
    PROVE  \E x, s : Serves(r, x, s) /\ FollowerHolds(x, s) /\ Positioned(r, x)
<1>1. /\ reader[r] \in ReaderRecord /\ FollowerHolds(reader[r], seen[r])
      /\ reader \in [Readers -> ReaderRecord] /\ seen \in [Readers -> [Events -> Nat]]
      /\ reader[r].last \in Nat
  BY Parts DEF FollowedBy, StreamInv, TypeOK
<1>2. CASE reader' = [reader EXCEPT ![r].pc = "gap"] /\ UNCHANGED seen
  <2> DEFINE x == [reader[r] EXCEPT !.pc = "gap"]
  <2>1. /\ x.pc = "gap" /\ x.last = reader[r].last
        /\ x.snapshot = reader[r].snapshot /\ x.inbox = reader[r].inbox
    BY <1>1 DEF ReaderRecord
  <2>2. Serves(r, x, seen[r])
    BY <1>1, <1>2 DEF Connect, Serves
  <2> HIDE DEF x
  <2>3. FollowerHolds(x, seen[r])
    BY <1>1, <2>1 DEF FollowerHolds
  <2> QED BY <2>1, <2>2, <2>3 DEF Positioned
<1>3. ASSUME NEW l \in Nat, NEW s, mapped, \A e \in Readable : e.id <= l => s[e.event] > 0
      PROVE  FollowerHolds(Fresh("subscribed", l), s)
  <2>1. Ordered(<<>>, InOrder) /\ Whole(<<>>)
    BY DEF Ordered, Whole
  <2> QED BY <1>3, <2>1 DEF FollowerHolds, Fresh
<1>4. CASE /\ mapped
           /\ reader' = [reader EXCEPT ![r] =
                 [AwayReader EXCEPT !.pc = "subscribed", !.last = reader[r].last]]
           /\ UNCHANGED seen
  <2> DEFINE x == Fresh("subscribed", reader[r].last)
  <2>1. Serves(r, x, seen[r])
    BY <1>1, <1>4 DEF Connect, Serves, AwayReader, Fresh
  <2>2. FollowerHolds(x, seen[r])
    BY <1>1, <1>3, <1>4 DEF FollowerHolds
  <2>3. Positioned(r, x)
    BY DEF Positioned, Fresh
  <2> QED BY <2>1, <2>2, <2>3
<1>5. CASE /\ mapped
           /\ reader' = [reader EXCEPT ![r] = [AwayReader EXCEPT !.pc = "subscribed"]]
           /\ seen' = [seen EXCEPT ![r] = [e \in Events |-> 0]]
  <2> DEFINE x == Fresh("subscribed", 0)
             s == [e \in Events |-> 0]
  <2>1. Serves(r, x, s)
    BY <1>1, <1>5 DEF Connect, Serves, AwayReader, Fresh
  <2>2. \A e \in Readable : ~(e.id <= 0)
    BY EntryNumbers DEF FollowedBy, Readable, InOrder
  <2>3. FollowerHolds(x, s)
    <3> HIDE DEF s
    <3> QED BY <1>3, <1>5, <2>2
  <2>4. Positioned(r, x)
    BY DEF Positioned, Fresh
  <2> QED BY <2>1, <2>3, <2>4
<1> QED BY <1>2, <1>4, <1>5 DEF Connect

\* A client that is away keeps its position, and has what lies behind it.
LEMMA DisconnectFollows ==
    ASSUME NEW r \in Readers, FollowedBy(r), Disconnect(r)
    PROVE  \E x, s : Serves(r, x, s) /\ FollowerHolds(x, s) /\ Positioned(r, x)
<1> DEFINE x == [AwayReader EXCEPT !.last = reader[r].last]
<1>1. /\ reader[r].last \in Nat /\ FollowerHolds(reader[r], seen[r])
      /\ reader \in [Readers -> ReaderRecord] /\ seen \in [Readers -> [Events -> Nat]]
  BY Parts DEF FollowedBy, StreamInv, TypeOK
<1>2. x.last = reader[r].last /\ x.pc = "away" /\ x.snapshot = <<>> /\ x.inbox = <<>>
  BY DEF AwayReader
<1>3. Serves(r, x, seen[r])
  BY <1>1 DEF Disconnect, Serves
<1> HIDE DEF x
<1>4. Ordered(<<>>, InOrder) /\ Whole(<<>>)
  BY DEF Ordered, Whole
<1>5. FollowerHolds(x, seen[r])
  BY <1>1, <1>2, <1>4 DEF FollowerHolds
<1> QED BY <1>2, <1>3, <1>5 DEF Positioned

\* Replay and live loop skip nothing that lies ahead: what a client passes over it has
\* received, or it is told to reload.
LEMMA GeneratorFollows ==
    ASSUME NEW r \in Readers, FollowedBy(r), GeneratorStep(r)
    PROVE  \E x, s : Serves(r, x, s) /\ FollowerHolds(x, s) /\ Positioned(r, x)
<1> DEFINE me == reader[r]
<1>1. /\ CopyHolds(me) /\ FollowerHolds(me, seen[r]) /\ me \in ReaderRecord
      /\ reader \in [Readers -> ReaderRecord] /\ seen \in [Readers -> [Events -> Nat]]
      /\ me.last \in Nat /\ me.at \in Nat
      /\ me.snapshot \in Seq(Entry) /\ me.inbox \in Seq(Entry)
      /\ seen[r] \in [Events -> Nat]
  BY Parts DEF FollowedBy, StreamInv, TypeOK, ReaderHolds
<1>2. /\ \A e \in published : e \in Entry /\ e.id \in Nat /\ e.event \in Events
      /\ Readable \subseteq InOrder /\ InOrder \subseteq published
  BY EntryNumbers DEF FollowedBy, Readable, InOrder
\* A page that receives something keeps what it had.
<1>3. ASSUME NEW entry \in published
      PROVE  /\ \A e \in published : seen[r][e.event] > 0 => Received(r, entry)[e.event] > 0
             /\ Received(r, entry)[entry.event] > 0
  <2>1. \A v \in Events : seen[r][v] \in Nat
    BY <1>1
  <2>2. ASSUME NEW v \in Events
        PROVE  Received(r, entry)[v] = IF v = entry.event THEN seen[r][v] + 1 ELSE seen[r][v]
    BY <1>1, <1>2 DEF Received
  <2> QED BY <1>2, <2>1, <2>2
<1>4. CASE ReadBuffer(r)
  <2> DEFINE x == [me EXCEPT !.pc = "buffered", !.snapshot = buffer]
  <2>1. mapped /\ UNCHANGED seen /\ reader' = [reader EXCEPT ![r] = x]
    BY <1>1, <1>4 DEF ReadBuffer, FollowerHolds
  <2>2. /\ x.pc = "buffered" /\ x.snapshot = buffer /\ x.inbox = me.inbox /\ x.last = me.last
    BY <1>1 DEF ReaderRecord
  <2>3. UNCHANGED <<sequence, buffer, mapped, pub, published, disordered, expiries>>
    BY <1>4 DEF ReadBuffer
  <2>4. Serves(r, x, seen[r])
    BY <1>1, <2>1, <2>3 DEF Serves
  <2> HIDE DEF x
  <2>5. /\ Ordered(buffer, InOrder)
        /\ \A e \in InOrder : buffer # <<>> /\ (e \in Held(buffer) \/ e.id < buffer[1].id)
    <3>1. buffer # <<>> => buffer[1] \in Held(buffer)
      BY DEF Held, FollowedBy, StreamInv, TypeOK
    <3> QED BY <2>1, <3>1 DEF FollowedBy, ChannelHolds
  <2>6. FollowerHolds(x, seen[r])
    BY <1>1, <2>1, <2>2, <2>5 DEF FollowerHolds, Whole
  <2> QED BY <2>2, <2>4, <2>6 DEF Positioned
<1>5. CASE ReadSequence(r)
  <2> DEFINE x == [me EXCEPT !.pc = IF HistoryGap(me.last, me.snapshot, sequence)
                                    THEN "gap" ELSE "replay"]
  <2>1. /\ me.pc = "buffered" /\ mapped /\ me.at = 0
        /\ UNCHANGED seen /\ reader' = [reader EXCEPT ![r] = x]
    BY <1>1, <1>5 DEF ReadSequence, FollowerHolds, CopyHolds
  <2>2. /\ x.snapshot = me.snapshot /\ x.inbox = me.inbox /\ x.last = me.last /\ x.at = me.at
        /\ x.pc = IF HistoryGap(me.last, me.snapshot, sequence) THEN "gap" ELSE "replay"
    BY <1>1 DEF ReaderRecord
  <2>3. UNCHANGED <<sequence, buffer, mapped, pub, published, disordered, expiries>>
    BY <1>5 DEF ReadSequence
  <2>4. Serves(r, x, seen[r])
    BY <1>1, <2>1, <2>3 DEF Serves
  <2> HIDE DEF x
  <2>5. CASE HistoryGap(me.last, me.snapshot, sequence)
    <3>1. FollowerHolds(x, seen[r])
      BY <1>1, <2>2, <2>5 DEF FollowerHolds
    <3> QED BY <2>2, <2>4, <3>1 DEF Positioned
  <2>6. CASE ~HistoryGap(me.last, me.snapshot, sequence)
    <3>1. sequence \in Nat /\ \A e \in published : e.id <= sequence
      BY <2>1 DEF FollowedBy, StreamInv, TypeOK, ChannelHolds
    <3>2. me.snapshot # <<>> => me.snapshot[1] \in published
      BY <1>1 DEF CopyHolds, Held
    <3>3. me.snapshot # <<>> => me.snapshot[1].id <= me.last + 1
      BY <1>1, <1>2, <2>6, <3>1, <3>2 DEF HistoryGap
    <3>4. ASSUME NEW e \in InOrder, e.id > me.last
          PROVE  e \in Held(me.inbox) \cup Held(me.snapshot)
      <4>1. sequence > me.last
        BY <1>1, <1>2, <3>1, <3>4
      <4>2. me.snapshot # <<>>
        BY <2>6, <4>1 DEF HistoryGap
      <4>3. ~(e.id < me.snapshot[1].id)
        BY <1>1, <1>2, <3>2, <3>3, <3>4, <4>2
      <4> QED BY <1>1, <2>1, <4>3 DEF FollowerHolds
    <3>5. \A i \in DOMAIN me.snapshot : ~(i <= me.at)
      BY <1>1, <2>1
    <3>6. FollowerHolds(x, seen[r])
      BY <1>1, <2>1, <2>2, <2>6, <3>3, <3>4, <3>5 DEF FollowerHolds
    <3> QED BY <2>2, <2>4, <3>6 DEF Positioned
  <2> QED BY <2>5, <2>6
<1>6. CASE ReplayNext(r)
  <2> DEFINE entry == me.snapshot[me.at + 1]
             passed == [me EXCEPT !.at = @ + 1]
             sent == [me EXCEPT !.at = @ + 1, !.last = entry.id, !.replayed = TRUE,
                                !.ended = entry.terminal]
  <2>1. /\ me.pc = "replay" /\ mapped /\ me.at + 1 \in DOMAIN me.snapshot
        /\ DOMAIN me.snapshot \subseteq Nat /\ 1 \in DOMAIN me.snapshot
        /\ me.snapshot # <<>>
    BY <1>1, <1>6 DEF ReplayNext, FollowerHolds
  <2>2. entry \in published /\ \A i \in DOMAIN me.snapshot : me.snapshot[i] \in published
    BY <1>1, <2>1 DEF CopyHolds, Held
  <2>3. /\ passed.pc = "replay" /\ passed.at = me.at + 1 /\ passed.last = me.last
        /\ passed.snapshot = me.snapshot /\ passed.inbox = me.inbox
    BY <1>1, <2>1 DEF ReaderRecord
  <2>4. /\ sent.pc = "replay" /\ sent.at = me.at + 1 /\ sent.last = entry.id
        /\ sent.snapshot = me.snapshot /\ sent.inbox = me.inbox
    BY <1>1, <2>1 DEF ReaderRecord
  <2>5. /\ \/ reader' = [reader EXCEPT ![r] = passed] /\ UNCHANGED seen /\ entry.id <= me.last
           \/ /\ reader' = [reader EXCEPT ![r] = sent]
              /\ seen' = [seen EXCEPT ![r] = Received(r, entry)] /\ entry.id > me.last
        /\ UNCHANGED <<sequence, buffer, mapped, pub, published, disordered, expiries>>
    BY <1>1, <1>6 DEF ReplayNext, Deliver, Received
  <2> HIDE DEF entry, passed, sent
  <2>6. CASE reader' = [reader EXCEPT ![r] = passed] /\ UNCHANGED seen /\ entry.id <= me.last
    <3>1. Serves(r, passed, seen[r])
      BY <1>1, <2>5, <2>6 DEF Serves
    <3>2. \A i \in DOMAIN me.snapshot : i <= me.at + 1 => me.snapshot[i].id <= me.last
      BY <1>1, <2>1, <2>6 DEF FollowerHolds, entry
    <3>3. FollowerHolds(passed, seen[r])
      BY <1>1, <2>1, <2>3, <3>2 DEF FollowerHolds
    <3> QED BY <2>3, <3>1, <3>3 DEF Positioned
  <2>7. CASE /\ reader' = [reader EXCEPT ![r] = sent]
             /\ seen' = [seen EXCEPT ![r] = Received(r, entry)] /\ entry.id > me.last
    <3>1. Serves(r, sent, Received(r, entry))
      BY <2>5, <2>7 DEF Serves
    <3>2. ASSUME NEW i \in DOMAIN me.snapshot, i <= me.at + 1
          PROVE  me.snapshot[i].id <= entry.id
      <4>1. me.snapshot[i].id \in Nat /\ entry.id \in Nat
        BY <1>2, <2>2
      <4>2. CASE i <= me.at
        BY <1>1, <2>1, <2>7, <4>1, <4>2 DEF FollowerHolds
      <4>3. CASE i = me.at + 1
        BY <4>1, <4>3 DEF entry
      <4> QED BY <1>1, <2>1, <3>2, <4>2, <4>3
    <3>3. ASSUME NEW e \in InOrder, e.id <= entry.id, e.id > me.last
          PROVE  e = entry
      <4>0. e.id \in Nat /\ entry.id \in Nat
        BY <1>2, <2>2
      <4>1. CASE e \in Held(me.snapshot)
        <5>1. PICK i \in DOMAIN me.snapshot : e = me.snapshot[i]
          BY <4>1 DEF Held
        <5>2. ~(i <= me.at)
          BY <1>1, <1>2, <2>1, <3>3, <5>1 DEF FollowerHolds
        <5>3. ~(i > me.at + 1)
          <6> SUFFICES ASSUME i > me.at + 1 PROVE FALSE
            OBVIOUS
          <6>1. {me.snapshot[me.at + 1], me.snapshot[i]} \cap InOrder # {}
            BY <3>3, <5>1
          <6>2. Ordered(me.snapshot, InOrder)
            BY <1>1 DEF FollowerHolds
          <6>3. me.snapshot[me.at + 1].id < me.snapshot[i].id
            BY <2>1, <6>1, <6>2 DEF Ordered
          <6> QED BY <3>3, <4>0, <5>1, <6>3 DEF entry
        <5>4. i = me.at + 1
          BY <1>1, <2>1, <5>2, <5>3
        <5> QED BY <5>1, <5>4 DEF entry
      <4>2. CASE e \notin Held(me.snapshot)
        <5>1. e.id < me.snapshot[1].id \/ \A f \in Held(me.snapshot) : f.id < e.id
          BY <1>1, <2>1, <4>2 DEF FollowerHolds, Whole
        <5>2. ~(e.id < me.snapshot[1].id)
          BY <1>1, <1>2, <2>1, <2>2, <3>3 DEF FollowerHolds
        <5>3. entry \in Held(me.snapshot)
          BY <2>1 DEF entry, Held
        <5>4. ~(entry.id < e.id)
          BY <3>3, <4>0
        <5> QED BY <5>1, <5>2, <5>3, <5>4
      <4> QED BY <4>1, <4>2
    <3>4. ASSUME NEW e \in Readable, e.id <= entry.id PROVE Received(r, entry)[e.event] > 0
      <4>1. e = entry \/ ~(e.id > me.last)
        BY <1>2, <3>3, <3>4
      <4>2. e = entry \/ e.id <= me.last
        BY <1>1, <1>2, <4>1
      <4> QED BY <1>1, <1>2, <1>3, <2>2, <4>2 DEF FollowerHolds
    <3>5. \A e \in InOrder : e.id > entry.id => e \in Held(me.inbox) \cup Held(me.snapshot)
      BY <1>1, <1>2, <2>1, <2>2, <2>7 DEF FollowerHolds
    <3>6. me.snapshot[1].id <= entry.id + 1
      BY <1>1, <1>2, <2>1, <2>2, <2>7 DEF FollowerHolds
    <3>7. FollowerHolds(sent, Received(r, entry))
      BY <1>1, <2>1, <2>4, <3>2, <3>4, <3>5, <3>6 DEF FollowerHolds
    <3> QED BY <2>2, <2>4, <3>1, <3>7 DEF Positioned
  <2> QED BY <2>5, <2>6, <2>7
<1>7. CASE ReplayOver(r)
  <2> DEFINE x(pc) == [me EXCEPT !.pc = pc]
             last == Last(me.snapshot)
  <2>1. /\ me.pc = "replay" /\ me.at = Len(me.snapshot)
        /\ UNCHANGED <<sequence, buffer, mapped, pub, published, disordered, expiries>>
    BY <1>7 DEF ReplayOver
  <2>2. \/ reader' = [reader EXCEPT ![r] = x("closed")] /\ UNCHANGED seen
        \/ reader' = [reader EXCEPT ![r] = x("live")] /\ UNCHANGED seen
        \/ /\ reader' = [reader EXCEPT ![r] = x("closed")]
           /\ me.snapshot # <<>> /\ seen' = [seen EXCEPT ![r] = Received(r, last)]
    BY <1>1, <1>7 DEF ReplayOver, Deliver, Received
  <2>3. \A pc \in {"closed", "live"} :
           /\ x(pc).pc = pc /\ x(pc).last = me.last
           /\ x(pc).snapshot = me.snapshot /\ x(pc).inbox = me.inbox
    BY <1>1 DEF ReaderRecord
  <2>4. me.snapshot # <<>> => last \in published
    BY <1>1 DEF CopyHolds, Held, Last
  <2>5. ASSUME NEW e \in InOrder, e.id > me.last PROVE e \in Held(me.inbox)
    <3>1. e \notin Held(me.snapshot)
      <4> SUFFICES ASSUME NEW i \in DOMAIN me.snapshot, e = me.snapshot[i] PROVE FALSE
        BY DEF Held
      <4>1. i <= me.at
        BY <1>1, <2>1
      <4> QED BY <1>1, <1>2, <2>1, <2>5, <4>1 DEF FollowerHolds
    <3> QED BY <1>1, <2>1, <2>5, <3>1 DEF FollowerHolds
  <2> HIDE DEF x, last
  <2>6. ASSUME NEW pc \in {"closed", "live"}, NEW s,
               \A e \in published : seen[r][e.event] > 0 => s[e.event] > 0
        PROVE  FollowerHolds(x(pc), s) /\ Positioned(r, x(pc))
    BY <1>1, <1>2, <2>3, <2>5, <2>6 DEF FollowerHolds, Positioned
  <2>7. CASE UNCHANGED seen
    <3>1. PICK pc \in {"closed", "live"} : reader' = [reader EXCEPT ![r] = x(pc)]
      BY <2>2
    <3>2. Serves(r, x(pc), seen[r])
      BY <1>1, <2>1, <2>7, <3>1 DEF Serves
    <3> QED BY <2>6, <3>2
  <2>8. CASE /\ reader' = [reader EXCEPT ![r] = x("closed")]
             /\ me.snapshot # <<>> /\ seen' = [seen EXCEPT ![r] = Received(r, last)]
    <3>1. Serves(r, x("closed"), Received(r, last))
      BY <2>1, <2>8 DEF Serves
    <3>2. FollowerHolds(x("closed"), Received(r, last)) /\ Positioned(r, x("closed"))
      BY <1>3, <2>4, <2>6, <2>8
    <3> QED BY <3>1, <3>2
  <2> QED BY <2>2, <2>7, <2>8
<1>8. CASE LiveNext(r)
  <2> DEFINE entry == Head(me.inbox)
             skipped == [me EXCEPT !.inbox = Tail(@)]
             sent == [me EXCEPT !.inbox = Tail(@), !.last = entry.id,
                                !.pc = IF entry.terminal THEN "closed" ELSE "live"]
  <2>1. me.pc = "live" /\ me.inbox # <<>>
    BY <1>8 DEF LiveNext
  <2>2. entry \in published /\ entry.id \in Nat
    BY <1>1, <1>2, <2>1 DEF CopyHolds, Held
  <2>3. /\ \/ /\ reader' = [reader EXCEPT ![r] = skipped] /\ UNCHANGED seen
              /\ entry.separator \/ entry.id <= me.last
           \/ /\ reader' = [reader EXCEPT ![r] = sent]
              /\ seen' = [seen EXCEPT ![r] = Received(r, entry)] /\ ~(entry.id <= me.last)
        /\ UNCHANGED <<sequence, buffer, mapped, pub, published, disordered, expiries>>
    BY <1>1, <1>8 DEF LiveNext, Deliver, Received
  <2>4. /\ skipped.pc = "live" /\ skipped.last = me.last
        /\ skipped.snapshot = me.snapshot /\ skipped.inbox = Tail(me.inbox)
    BY <1>1, <2>1 DEF ReaderRecord
  <2>5. /\ sent.pc \in {"closed", "live"} /\ sent.last = entry.id
        /\ sent.snapshot = me.snapshot /\ sent.inbox = Tail(me.inbox)
    BY <1>1 DEF ReaderRecord
  <2>6. /\ Ordered(Tail(me.inbox), InOrder)
        /\ \A e \in Held(me.inbox) : e = entry \/ e \in Held(Tail(me.inbox))
        /\ \A e \in Held(me.inbox) \cap InOrder : e = entry \/ e.id > entry.id
    BY <1>1, <2>1, TailFollows DEF FollowerHolds
  <2> HIDE DEF entry, skipped, sent
  <2>7. \A e \in Readable : e.id > me.last =>
           e = entry \/ (e \in Held(Tail(me.inbox)) /\ e.id > entry.id)
    BY <1>1, <1>2, <2>1, <2>6 DEF FollowerHolds
  <2>8. CASE /\ reader' = [reader EXCEPT ![r] = skipped] /\ UNCHANGED seen
             /\ entry.separator \/ entry.id <= me.last
    <3>1. Serves(r, skipped, seen[r])
      BY <1>1, <2>3, <2>8 DEF Serves
    <3>2. \A e \in Readable : e.id > me.last => e \in Held(Tail(me.inbox))
      BY <1>1, <1>2, <2>2, <2>7, <2>8 DEF Readable
    <3>3. FollowerHolds(skipped, seen[r])
      BY <1>1, <2>4, <2>6, <3>2 DEF FollowerHolds
    <3> QED BY <2>4, <3>1, <3>3 DEF Positioned
  <2>9. CASE /\ reader' = [reader EXCEPT ![r] = sent]
             /\ seen' = [seen EXCEPT ![r] = Received(r, entry)] /\ ~(entry.id <= me.last)
    <3>1. Serves(r, sent, Received(r, entry))
      BY <2>3, <2>9 DEF Serves
    <3>2. ASSUME NEW e \in Readable, e.id > entry.id PROVE e \in Held(Tail(me.inbox))
      <4>1. e.id \in Nat /\ me.last \in Nat
        BY <1>1, <1>2
      <4>2. e.id > me.last /\ e # entry
        BY <2>2, <2>9, <3>2, <4>1
      <4> QED BY <2>7, <4>2
    <3>3. ASSUME NEW e \in Readable, e.id <= entry.id PROVE Received(r, entry)[e.event] > 0
      <4>1. e.id <= me.last \/ e = entry
        <5>1. e.id \in Nat /\ me.last \in Nat
          BY <1>1, <1>2
        <5>2. ~(e.id > entry.id)
          BY <2>2, <3>3, <5>1
        <5> QED BY <2>7, <5>1, <5>2
      <4> QED BY <1>1, <1>2, <1>3, <2>2, <4>1 DEF FollowerHolds
    <3>4. FollowerHolds(sent, Received(r, entry))
      BY <1>1, <2>5, <2>6, <3>2, <3>3 DEF FollowerHolds
    <3> QED BY <2>2, <2>5, <3>1, <3>4 DEF Positioned
  <2> QED BY <2>3, <2>8, <2>9
<1> QED BY <1>4, <1>5, <1>6, <1>7, <1>8 DEF GeneratorStep

\* A client that moves comes to the start or to an entry.
LEMMA ChannelStays ==
    ASSUME StreamInv, ChannelHolds, NEW r \in Readers, NEW x, NEW s,
           Serves(r, x, s), Positioned(r, x)
    PROVE  ChannelHolds'
<1>1. UNCHANGED <<sequence, buffer, mapped, pub, published, disordered>>
  BY DEF Serves
<1>2. reader \in [Readers -> ReaderRecord]
  BY DEF StreamInv, TypeOK
<1>3. ASSUME NEW q \in Readers
      PROVE  reader'[q].last = 0 \/ \E e \in published : reader'[q].last = e.id
  <2>1. CASE q # r
    <3>1. reader'[q] = reader[q]
      BY <1>2, <2>1 DEF Serves
    <3> QED BY <3>1 DEF ChannelHolds
  <2>2. CASE q = r
    <3>1. reader'[q] = x
      BY <1>2, <2>2 DEF Serves
    <3> QED BY <3>1 DEF ChannelHolds, Positioned
  <2> QED BY <2>1, <2>2
<1>4. \A p \in Publishers : Busy(p)' = Busy(p)
  BY <1>1 DEF Busy
<1> QED BY <1>1, <1>3, <1>4 DEF ChannelHolds, Ordered, InOrder, Held

FollowersHold == \A r \in Readers : FollowerHolds(reader[r], seen[r])

\* A client that moves leaves the others what they rely on.
LEMMA ClientFollows ==
    ASSUME StreamInv, ChannelHolds, FollowersHold, NEW r \in Readers, NEW x, NEW s,
           Serves(r, x, s), Positioned(r, x), FollowerHolds(x, s)
    PROVE  (ChannelHolds /\ FollowersHold)'
<1>1. reader \in [Readers -> ReaderRecord] /\ seen \in [Readers -> [Events -> Nat]]
  BY DEF StreamInv, TypeOK
<1>2. ASSUME NEW q \in Readers PROVE FollowerHolds(reader[q], seen[q])'
  <2>1. FollowerHolds(reader'[q], seen'[q])
    BY <1>1 DEF FollowersHold, Serves
  <2> QED BY <2>1 DEF FollowerHolds, Whole, Ordered, Readable, InOrder, Serves
<1> QED BY <1>2, ChannelStays DEF FollowersHold

\* Steps that publish nothing leave the clients what they rely on.
LEMMA FollowersStay ==
    ASSUME FollowersHold, UNCHANGED <<reader, seen, published, disordered>>,
           \A r \in Readers : reader[r].pc \in {"subscribed", "buffered", "replay"} => mapped'
    PROVE  FollowersHold'
  BY DEF FollowersHold, FollowerHolds, Whole, Ordered, Readable, InOrder

\* What LTRIM takes away of the entries in order is older than all that stays.
LEMMA TrimmedChannel ==
    ASSUME NEW G, NEW s \in Seq(Entry), s # <<>>, Ordered(s, G)
    PROVE  /\ Ordered(Trimmed(s), G) /\ Trimmed(s) # <<>> /\ Held(Trimmed(s)) \subseteq Held(s)
           /\ \A e \in Held(s) \cap G :
                 e \in Held(Trimmed(s)) \/ \A f \in Held(Trimmed(s)) : e.id < f.id
<1> DEFINE t == Trimmed(s)
<1>1. t \in Seq(Entry) /\ t # <<>>
  BY TrimmedKeepsEnd
<1>2. PICK k \in Nat : /\ Len(t) = Len(s) - k
                      /\ \A i \in 1..(Len(s) - k) : t[i] = s[i + k]
  BY TrimmedKeepsEnd
<1> HIDE DEF t
<1>3. /\ DOMAIN s = 1..Len(s) /\ DOMAIN t = 1..(Len(s) - k) /\ Len(s) \in Nat
      /\ Len(s) - k \in Nat \ {0}
  BY <1>1, <1>2
<1>4. \A i \in DOMAIN t : i + k \in DOMAIN s /\ t[i] = s[i + k]
  BY <1>2, <1>3
<1>5. Ordered(t, G)
  <2> SUFFICES ASSUME NEW i \in DOMAIN t, NEW j \in DOMAIN t, i < j,
                      {t[i], t[j]} \cap G # {}
               PROVE  t[i].id < t[j].id
    BY DEF Ordered
  <2>1. i + k \in DOMAIN s /\ j + k \in DOMAIN s /\ i + k < j + k
    BY <1>2, <1>3
  <2> QED BY <1>4, <2>1 DEF Ordered
<1>7. ASSUME NEW i \in DOMAIN s, s[i] \in G
      PROVE  s[i] \in Held(t) \/ \A f \in Held(t) : s[i].id < f.id
  <2>1. CASE i < 1 + k
    <3>1. ASSUME NEW j \in DOMAIN t PROVE s[i].id < t[j].id
      <4>1. i < j + k /\ j + k \in DOMAIN s
        BY <1>2, <1>3, <2>1
      <4> QED BY <1>4, <1>7, <4>1 DEF Ordered
    <3> QED BY <3>1 DEF Held
  <2>2. CASE i >= 1 + k
    <3>1. i - k \in DOMAIN t /\ (i - k) + k = i
      BY <1>2, <1>3, <2>2
    <3>2. t[i - k] = s[i]
      BY <1>4, <3>1
    <3> QED BY <3>1, <3>2 DEF Held
  <2> QED BY <1>2, <1>3, <2>1, <2>2
<1>8. \A e \in Held(s) \cap G : e \in Held(t) \/ \A f \in Held(t) : e.id < f.id
  BY <1>7 DEF Held
<1>9. Held(t) \subseteq Held(s)
  BY <1>4 DEF Held
<1> QED BY <1>1, <1>5, <1>8, <1>9 DEF t

\* Of fewer entries it is asked less.
LEMMA OrderedFewer ==
    ASSUME NEW G, NEW H, NEW s, Ordered(s, G), H \cap Held(s) \subseteq G
    PROVE  Ordered(s, H)
  BY DEF Ordered, Held

\* A new entry that is in order lies ahead of every client and is newer than the list and
\* each subscription; one that is not takes what it overtakes or falls behind with it.
LEMMA PipelineFollows ==
    ASSUME StreamInv, ChannelHolds, FollowersHold, NEW p \in Publishers, PublishPipeline(p)
    PROVE  (ChannelHolds /\ FollowersHold)'
<1> DEFINE entry == NextEntry(p)
           list == Append(buffer, entry)
           newer == {e \in published : e.id >= entry.id}
<1>1. /\ entry \in Entry /\ entry.id = pub[p].id /\ entry.id \in Nat /\ entry.id > 0
      /\ entry.event \in Events
  <2>1. Busy(p) /\ pub[p].id # 0
    BY DEF PublishPipeline
  <2> QED BY <2>1, NextEntryIsNew DEF NextEntry, Entry
<1>2. /\ buffer' = Trimmed(list)
      /\ published' = published \cup {entry}
      /\ disordered' = IF newer = {} THEN disordered ELSE disordered \cup newer \cup {entry}
      /\ pub' = [pub EXCEPT ![p] = [next |-> pub[p].next + 1, id |-> 0]]
      /\ reader' = [r \in Readers |->
                       IF reader[r].pc \in Connected
                       THEN [reader[r] EXCEPT !.inbox = Append(@, entry)]
                       ELSE reader[r]]
      /\ UNCHANGED <<sequence, mapped, seen>>
      /\ Busy(p)
  BY DEF PublishPipeline, NextEntry
<1> HIDE DEF entry
<1>3. /\ mapped /\ sequence \in Nat /\ entry.id <= sequence
      /\ Ordered(buffer, InOrder) /\ buffer \in Seq(Entry) /\ Held(buffer) \subseteq published
  BY <1>1, <1>2 DEF ChannelHolds, StreamInv, TypeOK, EntriesHold
<1>4. \A e \in published : e \in Entry /\ e.id \in Nat /\ e.event \in Events
  BY EntryNumbers
<1>5. InOrder' \subseteq InOrder \cup {entry}
  BY <1>2 DEF InOrder
<1>6. ASSUME NEW e \in published, {e, entry} \cap InOrder' # {}
      PROVE  e.id < entry.id
  <2>1. e \notin newer
    BY <1>2, <1>6 DEF InOrder
  <2> QED BY <1>1, <1>4, <2>1
<1> HIDE DEF newer
\* The order of a sequence of published entries outlasts the step.
<1>7. ASSUME NEW s \in Seq(Entry), Held(s) \subseteq published, Ordered(s, InOrder)
      PROVE  Ordered(s, InOrder') /\ Ordered(Append(s, entry), InOrder')
  <2>1. ASSUME entry \in Held(s) PROVE entry \in InOrder' => entry \in InOrder
    BY <1>1, <1>6, <1>7, <2>1
  <2>2. Ordered(s, InOrder')
    <3>1. InOrder' \cap Held(s) \subseteq InOrder
      BY <1>5, <2>1
    <3> QED BY <1>7, <3>1, OrderedFewer
  <2>3. \A e \in Held(s) : {e, entry} \cap InOrder' # {} => e.id < entry.id
    BY <1>6, <1>7
  <2> QED BY <1>1, <1>7, <2>2, <2>3, AppendOrders
<1>8. /\ list \in Seq(Entry) /\ list # <<>> /\ Held(list) = Held(buffer) \cup {entry}
      /\ Ordered(list, InOrder')
      /\ buffer # <<>> => list[1] = buffer[1]
  BY <1>1, <1>3, <1>7, HeldAppend
<1> HIDE DEF list
<1>9. ASSUME NEW r \in Readers
      PROVE  /\ reader'[r].pc = reader[r].pc /\ reader'[r].last = reader[r].last
             /\ reader'[r].at = reader[r].at /\ reader'[r].snapshot = reader[r].snapshot
             /\ reader'[r].inbox = IF reader[r].pc \in Connected
                                   THEN Append(reader[r].inbox, entry) ELSE reader[r].inbox
  <2>1. reader[r] \in ReaderRecord
    BY DEF StreamInv, TypeOK
  <2> QED BY <1>2, <2>1 DEF ReaderRecord
<1>10. ChannelHolds'
  <2>1. /\ Ordered(buffer', InOrder') /\ buffer' # <<>> /\ Held(buffer') \subseteq Held(list)
        /\ \A e \in Held(list) \cap InOrder' :
              e \in Held(buffer') \/ \A f \in Held(buffer') : e.id < f.id
    BY <1>2, <1>8, TrimmedChannel
  <2>2. ASSUME NEW e \in InOrder'
        PROVE  e \in Held(buffer') \/ \A f \in Held(buffer') : e.id < f.id
    <3>1. CASE e \in Held(list)
      BY <2>1, <2>2, <3>1
    <3>2. CASE e \notin Held(list)
      <4>1. e \in InOrder /\ e.id < entry.id
        BY <1>5, <1>6, <1>8, <2>2, <3>2 DEF InOrder
      <4>2. \A f \in Held(buffer) : e.id < f.id
        BY <1>3, <1>8, <3>2, <4>1 DEF ChannelHolds
      <4> QED BY <1>8, <2>1, <4>1, <4>2
    <3> QED BY <3>1, <3>2
  <2>3. \A e \in published' : e.id <= sequence'
    BY <1>1, <1>2, <1>3 DEF ChannelHolds
  <2>4. \A q \in Publishers : pub'[q].id <= sequence'
    BY <1>2, <1>3 DEF ChannelHolds, StreamInv, TypeOK
  <2>5. \A r \in Readers : reader'[r].last = 0 \/ \E e \in published' : reader'[r].last = e.id
    BY <1>2, <1>9 DEF ChannelHolds
  <2>6. mapped'
    BY <1>2, <1>3
  <2> QED BY <2>1, <2>2, <2>3, <2>4, <2>5, <2>6 DEF ChannelHolds, Held, Ordered
<1>11. ASSUME NEW r \in Readers PROVE FollowerHolds(reader[r], seen[r])'
  <2> DEFINE me == reader[r]
             x == reader'[r]
  <2>1. /\ me \in ReaderRecord /\ CopyHolds(me) /\ FollowerHolds(me, seen[r])
        /\ me.last \in Nat /\ me.inbox \in Seq(Entry) /\ me.snapshot \in Seq(Entry)
        /\ Held(me.inbox) \subseteq published /\ Held(me.snapshot) \subseteq published
    BY Parts DEF StreamInv, TypeOK, ReaderHolds, CopyHolds, FollowersHold
  <2>2. /\ x.pc = me.pc /\ x.last = me.last /\ x.at = me.at /\ x.snapshot = me.snapshot
        /\ x.inbox = IF me.pc \in Connected THEN Append(me.inbox, entry) ELSE me.inbox
    BY <1>9
  <2>3. me.last = 0 \/ \E e \in published : me.last = e.id
    BY DEF ChannelHolds
  <2> HIDE DEF x, me
  <2>4. entry \in InOrder' => ~(entry.id <= me.last)
    <3> SUFFICES ASSUME entry \in InOrder' PROVE me.last < entry.id
      BY <1>1, <2>1
    <3> QED BY <1>1, <1>6, <2>3
  <2>5. Held(x.inbox) = IF me.pc \in Connected THEN Held(me.inbox) \cup {entry}
                                              ELSE Held(me.inbox)
    BY <1>1, <2>1, <2>2, HeldAppend
  <2>6. Ordered(x.inbox, InOrder') /\ Ordered(x.snapshot, InOrder')
    BY <1>7, <2>1, <2>2 DEF FollowerHolds
  <2>7. ASSUME x.snapshot # <<>>, NEW e \in InOrder'
        PROVE  \/ e \in Held(x.snapshot)
               \/ e.id < x.snapshot[1].id
               \/ \A f \in Held(x.snapshot) : f.id < e.id
    <3>1. CASE e = entry
      BY <1>6, <2>1, <2>2, <2>7, <3>1
    <3>2. CASE e # entry
      BY <1>5, <2>1, <2>2, <2>7, <3>2 DEF FollowerHolds, Whole
    <3> QED BY <3>1, <3>2
  <2>8. ASSUME NEW e \in Readable', e.id <= x.last PROVE seen'[r][e.event] > 0
    <3>1. e \in InOrder' /\ ~e.separator
      BY <2>8 DEF Readable
    <3>2. e \in Readable
      BY <1>5, <2>2, <2>4, <2>8, <3>1 DEF Readable
    <3> QED BY <1>2, <2>1, <2>2, <2>8, <3>2 DEF FollowerHolds
  <2>9. x.pc \in {"subscribed", "buffered", "replay"} => mapped'
    BY <1>2, <1>3
  <2>10. ASSUME x.pc = "buffered", NEW e \in InOrder'
         PROVE  \/ e \in Held(x.inbox)
                \/ x.snapshot # <<>> /\ (e \in Held(x.snapshot) \/ e.id < x.snapshot[1].id)
    BY <1>5, <2>1, <2>2, <2>5, <2>10 DEF FollowerHolds, Connected
  <2>11. ASSUME x.pc = "replay"
         PROVE  /\ \A e \in InOrder' : e.id > x.last => e \in Held(x.inbox) \cup Held(x.snapshot)
                /\ \A i \in DOMAIN x.snapshot : i <= x.at => x.snapshot[i].id <= x.last
                /\ x.snapshot # <<>> => x.snapshot[1].id <= x.last + 1
    BY <1>5, <2>1, <2>2, <2>5, <2>11 DEF FollowerHolds, Connected
  <2>12. ASSUME x.pc = "live", NEW e \in Readable', e.id > x.last
         PROVE  e \in Held(x.inbox)
    <3>1. e \in Readable \cup {entry}
      BY <1>5, <2>12 DEF Readable
    <3> QED BY <2>1, <2>2, <2>5, <2>12, <3>1 DEF FollowerHolds, Connected
  <2> QED BY <2>6, <2>7, <2>8, <2>9, <2>10, <2>11, <2>12
         DEF FollowerHolds, Whole, Ordered, x
<1> QED BY <1>10, <1>11 DEF FollowersHold

-----------------------------------------------------------------------------
(* Nothing is lost unnoticed *)

\* At first there is nothing to miss.
LEMMA FollowStarts ==
    ASSUME Init PROVE FollowInv
<1>1. AwayReader.pc = "away" /\ AwayReader.snapshot = <<>> /\ AwayReader.inbox = <<>>
      /\ AwayReader.last = 0
  BY DEF AwayReader
<1>2. Ordered(<<>>, InOrder) /\ Whole(<<>>)
  BY DEF Ordered, Whole
<1>3. ChannelHolds
  BY <1>1, <1>2 DEF Init, ChannelHolds, InOrder
<1>4. ASSUME NEW r \in Readers PROVE FollowerHolds(reader[r], seen[r])
  <2>1. reader[r] = AwayReader /\ published = {}
    BY DEF Init
  <2> QED BY <1>1, <1>2, <2>1 DEF FollowerHolds, Readable, InOrder
<1> QED BY <1>3, <1>4 DEF FollowInv

\* Every step before the keys expire keeps what clients rely on.
LEMMA FollowNext ==
    ASSUME StreamInv, FollowInv, [Next]_vars
    PROVE  FollowInv'
<1>1. expiries \in Nat
  BY DEF StreamInv, TypeOK
<1>2. CASE expiries # 0
  <2>1. expiries' \in {expiries, expiries + 1}
    BY DEF Next, PublisherStep, PublishIncr, PublishPipeline, PublishFails, Remember, Connect,
           GeneratorStep, ReadBuffer, ReadSequence, ReplayNext, ReplayOver, LiveNext,
           Disconnect, ExpireAfterRun, ExpireDuringRun, vars
  <2> QED BY <1>1, <1>2, <2>1 DEF FollowInv
<1>3. CASE expiries = 0
  <2>1. ChannelHolds /\ FollowersHold
    BY <1>3 DEF FollowInv, FollowersHold
  <2>2. SUFFICES ASSUME expiries' = 0 PROVE (ChannelHolds /\ FollowersHold)'
    BY DEF FollowInv, FollowersHold
  <2>3. /\ sequence \in Nat /\ pub \in [Publishers -> [next : Nat, id : Nat]]
        /\ \A e \in published : e.id \in Nat
        /\ \A r \in Readers : reader[r].last \in Nat
    BY EntryNumbers, Parts DEF StreamInv, TypeOK
  <2>4. \A r \in Readers : FollowedBy(r)
    BY <2>1 DEF FollowedBy, FollowersHold
  <2>5. \A r \in Readers : reader[r].pc \in {"subscribed", "buffered", "replay"} => mapped
    BY <2>1 DEF FollowersHold, FollowerHolds
  <2>6. ASSUME NEW p \in Publishers, PublishIncr(p) PROVE (ChannelHolds /\ FollowersHold)'
    <3>1. mapped /\ UNCHANGED <<buffer, mapped, reader, seen, published, disordered>>
      BY <2>1, <2>6 DEF PublishIncr, ChannelHolds
    <3>2. sequence' = sequence + 1 /\ pub' = [pub EXCEPT ![p] = [@ EXCEPT !.id = sequence']]
      BY <2>3, <2>6 DEF PublishIncr
    <3>3. \A e \in published : e.id <= sequence'
      BY <2>1, <2>3, <3>1, <3>2 DEF ChannelHolds
    <3>4. ASSUME NEW q \in Publishers PROVE pub'[q].id <= sequence'
      BY <2>1, <2>3, <3>1, <3>2 DEF ChannelHolds
    <3>5. ChannelHolds'
      BY <2>1, <3>1, <3>3, <3>4 DEF ChannelHolds, Ordered, InOrder, Held
    <3> QED BY <2>1, <2>5, <3>1, <3>5, FollowersStay
  <2>7. ASSUME NEW p \in Publishers, PublishPipeline(p) PROVE (ChannelHolds /\ FollowersHold)'
    BY <2>1, <2>7, PipelineFollows
  <2>8. ASSUME NEW p \in Publishers, PublishFails(p) PROVE (ChannelHolds /\ FollowersHold)'
    <3>1. mapped /\ UNCHANGED <<sequence, buffer, mapped, reader, seen, published, disordered>>
      BY <2>1, <2>8 DEF PublishFails, ChannelHolds
    <3>2. \A q \in Publishers : pub'[q].id \in {pub[q].id, 0}
      BY <2>3, <2>8 DEF PublishFails
    <3>3. ChannelHolds'
      BY <2>1, <2>3, <3>1, <3>2 DEF ChannelHolds, Ordered, InOrder, Held
    <3> QED BY <2>1, <2>5, <3>1, <3>3, FollowersStay
  <2>9. ASSUME NEW p \in Publishers, Remember(p) PROVE (ChannelHolds /\ FollowersHold)'
    <3>1. mapped /\ mapped' /\ UNCHANGED <<sequence, buffer, reader, seen, published, disordered>>
      BY <2>1, <2>9 DEF Remember, ChannelHolds
    <3>2. \A q \in Publishers : pub'[q].id = pub[q].id
      BY <2>3, <2>9 DEF Remember
    <3>3. ChannelHolds'
      BY <2>1, <2>3, <3>1, <3>2 DEF ChannelHolds, Ordered, InOrder, Held
    <3> QED BY <2>1, <3>1, <3>3, FollowersStay
  <2>10. ASSUME NEW r \in Readers, Connect(r) \/ GeneratorStep(r) \/ Disconnect(r)
         PROVE  (ChannelHolds /\ FollowersHold)'
    <3>1. \E x, s : Serves(r, x, s) /\ FollowerHolds(x, s) /\ Positioned(r, x)
      BY <2>4, <2>10, ConnectFollows, GeneratorFollows, DisconnectFollows
    <3> QED BY <2>1, <3>1, ClientFollows
  <2>11. CASE ExpireAfterRun
    <3>1. /\ ~mapped' /\ UNCHANGED <<pub, reader, seen, published, disordered>>
          /\ \A p \in Publishers : ~Busy(p)
          /\ \A r \in Readers : reader[r].pc \notin {"subscribed", "buffered", "replay"}
      BY <2>11 DEF ExpireAfterRun, Expire
    <3>2. ChannelHolds'
      BY <2>1, <3>1 DEF ChannelHolds, Busy
    <3> QED BY <2>1, <3>1, <3>2, FollowersStay
  <2>12. CASE ExpireDuringRun
    BY <1>1, <2>2, <2>12 DEF ExpireDuringRun
  <2>13. CASE UNCHANGED vars
    <3>1. UNCHANGED <<sequence, buffer, mapped, pub, reader, seen, published, disordered>>
      BY <2>13 DEF vars
    <3>2. ChannelHolds'
      BY <2>1, <3>1 DEF ChannelHolds, Busy, Ordered, InOrder, Held
    <3> QED BY <2>1, <2>5, <3>1, <3>2, FollowersStay
  <2> QED BY <2>6, <2>7, <2>8, <2>9, <2>10, <2>11, <2>12, <2>13 DEF Next, PublisherStep
<1> QED BY <1>2, <1>3

\* Whoever publishes what, and whatever reconnects, is trimmed, fails or is published
\* between two reads of a client: one that follows the stream at event id n has received
\* every event up to n that was published in the order of the ids and that the live loop
\* can read, or has been told to reload (create_sse_event_generator,
\* _has_event_history_gap).  Events that overtake each other may be lost themselves; they
\* take no other with them.
THEOREM NothingInOrderIsLost == Spec => []InOrderIsNotLost
<1>1. Init => FollowInv
  BY FollowStarts
<1>2. StreamInv /\ FollowInv /\ [Next]_vars => FollowInv'
  BY FollowNext
<1>3. Spec => []FollowInv
  BY <1>1, <1>2, StreamInvariant, PTL DEF Spec
<1>4. FollowInv => InOrderIsNotLost
  BY DEF FollowInv, FollowerHolds, Readable, InOrder, InOrderIsNotLost
<1> QED BY <1>3, <1>4, PTL
=============================================================================
