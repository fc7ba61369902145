-------------------------- MODULE MemoryDocsProofs --------------------------
(***************************************************************************)
(* Proofs about the documents of the memory system: for every set of       *)
(* requests, stores, users and contents, and any number of documents and   *)
(* versions.                                                               *)
(*                                                                         *)
(* The copies that requests hold may be old.  What makes them harmless for *)
(* the history is what each of them may become: a copy is written back     *)
(* with a version of its own, made in the same step or, for a deletion,    *)
(* just before.  What makes the edits that check the SHA exact is the lock *)
(* of the row, which everyone who writes it waits for.                     *)
(***************************************************************************)
EXTENDS MemoryDocs, TLAPS

Document ==
    [store : Stores, content : Contents, status : {"active", "draft", "archived"},
     deleted : BOOLEAN, current : Nat]

VersionRow ==
    [document : Nat, operation : {"create", "update", "patch", "delete"},
     content : Contents \cup {NoContent}, previous : Nat, redacted : BOOLEAN]

Store ==
    [scope : {"workspace", "user", "conversation"}, owner : Users \cup {NoUser},
     seeded : BOOLEAN, archived : BOOLEAN]

\* The stages a request may be at, with the copies it holds there.
Edits == [op : {"update", "patch"}, at : {"locked"}, doc : Nat, row : Document]
Patches == [op : {"patch"}, at : {"allowed"}, doc : Nat]
Remembers == [op : {"remember"}, at : {"allowed", "absent"}, store : Stores]
Seedings == [op : {"seed"}, at : {"absent"}, store : Stores]
Updates ==
    [op : {"remember"}, at : {"found"}, doc : Nat, row : Document, named : BOOLEAN]
Deletions == [op : {"delete"}, at : {"read", "recorded"}, doc : Nat, row : Document]
StoreSaves == [op : {"store"}, at : {"read"}, store : Stores, row : Store]

Request ==
    {Idle} \cup Edits \cup Patches \cup Remembers \cup Seedings \cup Updates
       \cup Deletions \cup StoreSaves

RowsTyped ==
    /\ documents \in Seq(Document)
    /\ versions \in Seq(VersionRow)
    /\ stores \in [Stores -> Store]
    /\ rowLock \in Seq(Requests \cup {NoRequest})
    /\ Len(rowLock) = Len(documents)
    /\ req \in [Requests -> Request]

\* The version that a row or a copy of a row names is one of document d and says
\* what the row says.
RowTells(row, d) ==
    /\ row.current \in DOMAIN versions
    /\ versions[row.current].document = d
    /\ (versions[row.current].operation = "delete") = row.deleted
    /\ ~row.deleted => Tells(row.current, row.content)

\* What request q relies on at its stage r.
RequestHolds(q, r) ==
    /\ r.at \in {"locked", "found", "recorded"} \/ r.op \in {"delete", "patch"} =>
          r.doc \in DocumentIds
    /\ r.at \in {"locked", "found"} => ~r.row.deleted
    /\ r.at = "locked" => rowLock[r.doc] = q /\ documents[r.doc] = r.row
    /\ r.at = "recorded" => RowTells(r.row, r.doc)

DocumentsHold == \A d \in DocumentIds : RowTells(documents[d], d)
RequestsHold == \A q \in Requests : RequestHolds(q, req[q])
GivenHolds == given # NoUse => Tells(given.version, given.content)

MemoryInv ==
    /\ RowsTyped
    /\ DocumentsHold
    /\ RequestsHold
    /\ GivenHolds

-----------------------------------------------------------------------------
(* Requests *)

\* What the stage of a request says of its copies.
LEMMA Shapes ==
    ASSUME NEW r \in Request
    PROVE  /\ r.at = "locked" => r \in Edits
           /\ r.at = "found" => r \in Updates
           /\ r.at = "recorded" => r \in Deletions
           /\ r.op = "delete" => r \in Deletions
           /\ r.op = "store" => r \in StoreSaves
           /\ r.op = "remember" /\ r.at = "allowed" => r \in Remembers
           /\ r.op = "patch" /\ r.at = "allowed" => r \in Patches
           /\ r.at = "absent" => r \in Remembers \cup Seedings
           /\ r.at \in {"idle", "locked", "allowed", "absent", "found", "read", "recorded"}
  BY DEF Request, Idle, Edits, Patches, Remembers, Seedings, Updates, Deletions, StoreSaves

\* A request that starts or ends holds no copy.
LEMMA IdleHolds ==
    ASSUME NEW q PROVE  Idle \in Request /\ RequestHolds(q, Idle)
  BY DEF Idle, Request, RequestHolds

-----------------------------------------------------------------------------
(* Versions *)

\* No version changes what it is of, what was done, and, unless it is redacted,
\* what it says.
VersionsKept ==
    \A v \in DOMAIN versions :
       /\ v \in DOMAIN versions'
       /\ versions'[v].document = versions[v].document
       /\ versions'[v].operation = versions[v].operation
       /\ versions'[v].redacted \/ (/\ versions'[v].content = versions[v].content
                                    /\ versions'[v].redacted = versions[v].redacted)

\* A version goes on to tell what it told.
LEMMA KeptTells ==
    ASSUME VersionsKept, NEW row, NEW d, RowTells(row, d)
    PROVE  RowTells(row, d)'
<1>1. row.current \in DOMAIN versions
  BY DEF RowTells
<1>2. /\ row.current \in DOMAIN versions'
      /\ versions'[row.current].document = versions[row.current].document
      /\ versions'[row.current].operation = versions[row.current].operation
      /\ versions'[row.current].redacted
           \/ (/\ versions'[row.current].content = versions[row.current].content
               /\ versions'[row.current].redacted = versions[row.current].redacted)
  BY <1>1 DEF VersionsKept
<1> QED  BY <1>2 DEF RowTells, Tells

\* A version that is added is the last one, and the others stay.
LEMMA AddedVersion ==
    ASSUME RowsTyped, NEW d \in Nat, NEW op \in {"create", "update", "patch", "delete"},
           NEW content \in Contents \cup {NoContent}, NEW previous \in Nat,
           AddVersion(d, op, content, previous)
    PROVE  /\ VersionsKept
           /\ versions' \in Seq(VersionRow)
           /\ DOMAIN versions' \ DOMAIN versions = {Len(versions) + 1}
           /\ versions'[Len(versions) + 1] = Version(d, op, content, previous)
           /\ \A row : /\ row.current = Len(versions) + 1
                       /\ row.deleted = (op = "delete")
                       /\ op # "delete" => row.content = content
                       => RowTells(row, d)'
<1> DEFINE v == Version(d, op, content, previous)
           n == Len(versions) + 1
<1>1. v \in VersionRow
  BY DEF Version, VersionRow
<1>2. /\ v.document = d /\ v.operation = op /\ v.content = content
      /\ v.redacted = FALSE /\ v.previous = previous
  BY DEF Version
<1>3. versions' = Append(versions, v)
  BY DEF AddVersion
<1> HIDE DEF v
<1>4. /\ versions' \in Seq(VersionRow)
      /\ DOMAIN versions' = 1 .. n
      /\ DOMAIN versions = 1 .. Len(versions)
      /\ versions'[n] = v
      /\ \A i \in DOMAIN versions : versions'[i] = versions[i]
  BY <1>1, <1>3 DEF RowsTyped
<1>5. Len(versions) \in Nat
  BY DEF RowsTyped
<1>6. VersionsKept
  BY <1>4, <1>5 DEF VersionsKept
<1>7. n \in DOMAIN versions' /\ DOMAIN versions' \ DOMAIN versions = {n}
  BY <1>4, <1>5
<1>8. ASSUME NEW row, row.current = n, row.deleted = (op = "delete"),
             op # "delete" => row.content = content
      PROVE  RowTells(row, d)'
  BY <1>2, <1>4, <1>7, <1>8 DEF RowTells, Tells
<1> QED  BY <1>4, <1>6, <1>7, <1>8 DEF v

-----------------------------------------------------------------------------
(* Steps *)

\* The stage of one request changes.
LEMMA OneRequestMoves ==
    ASSUME RowsTyped, NEW q \in Requests, NEW stage \in Request, Reaches(q, stage)
    PROVE  /\ req' \in [Requests -> Request]
           /\ req'[q] = stage
           /\ \A p \in Requests \ {q} : req'[p] = req[p]
  BY DEF RowsTyped, Reaches

\* What every step of a request, or of an endpoint with a step of its own, comes to:
\* the rows tell what their versions say, and nobody touches a row that another
\* request has locked.
LEMMA StepHolds ==
    ASSUME MemoryInv, NEW q,
           RowsTyped', VersionsKept, DocumentsHold', given' = NoUse,
           DocumentIds \subseteq DocumentIds',
           q \in Requests => RequestHolds(q, req[q])',
           \A p \in Requests \ {q} :
              /\ req'[p] = req[p]
              /\ \A d \in DocumentIds : rowLock[d] = p =>
                    rowLock'[d] = p /\ documents'[d] = documents[d]
    PROVE  MemoryInv'
<1>1. ASSUME NEW p \in Requests \ {q}
      PROVE  RequestHolds(p, req[p])'
  <2> DEFINE r == req[p]
  <2>1. RequestHolds(p, r) /\ r' = r
    BY DEF MemoryInv, RequestsHold
  <2>2. r.at \in {"locked", "found", "recorded"} \/ r.op \in {"delete", "patch"} =>
           r.doc \in DocumentIds'
    BY <2>1 DEF RequestHolds
  <2>3. r.at = "locked" => rowLock'[r.doc] = p /\ documents'[r.doc] = r.row
    BY <2>1 DEF RequestHolds
  <2>4. r.at = "recorded" => RowTells(r.row, r.doc)'
    <3> SUFFICES ASSUME r.at = "recorded"
                 PROVE  RowTells(r.row, r.doc)'
      OBVIOUS
    <3> DEFINE row == r.row
               d == r.doc
    <3>1. RowTells(row, d) /\ row' = row /\ d' = d
      BY <2>1 DEF RequestHolds
    <3> HIDE DEF r
    <3>2. ASSUME NEW x, NEW y, RowTells(x, y)
          PROVE  RowTells(x, y)'
      BY <3>2, KeptTells
    <3> QED  BY <3>1, <3>2 DEF RowTells, Tells
  <2> QED  BY <2>1, <2>2, <2>3, <2>4 DEF RequestHolds
<1>2. RequestsHold'
  BY <1>1 DEF RequestsHold
<1> QED  BY <1>2 DEF MemoryInv, GivenHolds

\* A request goes on without writing a document.
LEMMA QuietHolds ==
    ASSUME MemoryInv, NEW q \in Requests, NEW stage \in Request, Reaches(q, stage),
           RequestHolds(q, stage), UNCHANGED <<documents, versions, rowLock>>,
           stores' \in [Stores -> Store], given' = NoUse
    PROVE  MemoryInv'
<1>1. /\ req' \in [Requests -> Request] /\ req'[q] = stage
      /\ \A p \in Requests \ {q} : req'[p] = req[p]
  BY OneRequestMoves DEF MemoryInv
<1>2. RowsTyped' /\ DocumentsHold' /\ DocumentIds' = DocumentIds /\ VersionsKept
  BY <1>1 DEF MemoryInv, RowsTyped, DocumentsHold, DocumentIds, RowTells, Tells,
              VersionsKept
<1>3. RequestHolds(q, req[q])'
  BY <1>1 DEF RequestHolds, DocumentIds, RowTells, Tells
<1> QED  BY <1>1, <1>2, <1>3, StepHolds

\* A request ends with a row written, which nobody else has locked.
LEMMA RowWritten ==
    ASSUME MemoryInv, NEW q \in Requests, NEW d \in DocumentIds, NEW row \in Document,
           WriteBack(d, row), Finish(q), VersionsKept, versions' \in Seq(VersionRow),
           RowTells(row, d)', rowLock[d] \in {q, NoRequest}, UNCHANGED stores,
           UNCHANGED rowLock \/ Release(d), given' = NoUse
    PROVE  MemoryInv'
<1>1. /\ req' \in [Requests -> Request] /\ req'[q] = Idle
      /\ \A p \in Requests \ {q} : req'[p] = req[p]
  BY OneRequestMoves, IdleHolds DEF MemoryInv, Finish, Reaches
<1>2. /\ documents' \in Seq(Document) /\ Len(documents') = Len(documents)
      /\ DocumentIds' = DocumentIds
      /\ documents'[d] = row
      /\ \A e \in DocumentIds \ {d} : documents'[e] = documents[e]
  BY DEF WriteBack, MemoryInv, RowsTyped, DocumentIds
<1>3. /\ rowLock' \in Seq(Requests \cup {NoRequest}) /\ Len(rowLock') = Len(rowLock)
      /\ \A e \in DocumentIds \ {d} : rowLock'[e] = rowLock[e]
  <2>1. CASE UNCHANGED rowLock
    BY <2>1 DEF MemoryInv, RowsTyped
  <2>2. CASE Release(d)
    <3>1. rowLock' = [rowLock EXCEPT ![d] = NoRequest] /\ d \in DOMAIN rowLock
          /\ DocumentIds = DOMAIN rowLock
      BY <2>2 DEF Release, MemoryInv, RowsTyped, DocumentIds
    <3> QED  BY <3>1 DEF MemoryInv, RowsTyped
  <2> QED  BY <2>1, <2>2
<1>4. RowsTyped'
  BY <1>1, <1>2, <1>3 DEF MemoryInv, RowsTyped, DocumentIds
<1>5. DocumentsHold'
  <2> SUFFICES ASSUME NEW e \in DocumentIds
               PROVE  RowTells(documents[e], e)'
    BY <1>2 DEF DocumentsHold
  <2>1. CASE e = d
    BY <1>2, <2>1 DEF RowTells, Tells
  <2>2. CASE e # d
    <3>1. RowTells(documents[e], e) /\ documents'[e] = documents[e]
      BY <1>2, <2>2 DEF MemoryInv, DocumentsHold
    <3>2. ASSUME NEW x, NEW y, RowTells(x, y)
          PROVE  RowTells(x, y)'
      BY <3>2, KeptTells
    <3> QED  BY <3>1, <3>2 DEF RowTells, Tells
  <2> QED  BY <2>1, <2>2
<1>6. \A p \in Requests \ {q} : \A e \in DocumentIds : rowLock[e] = p =>
         rowLock'[e] = p /\ documents'[e] = documents[e]
  BY <1>2, <1>3, NobodyIsNoRequest
<1>7. RequestHolds(q, req[q])'
  BY <1>1 DEF RequestHolds, Idle
<1> QED  BY <1>1, <1>2, <1>4, <1>5, <1>6, <1>7, StepHolds

\* A document is created with its first version; whoever does it ends or is none.
LEMMA InsertHolds ==
    ASSUME MemoryInv, NEW q, NEW s \in Stores, NEW content \in Contents,
           NEW status \in {"active", "draft"}, InsertDocument(s, content, status),
           req' \in [Requests -> Request], q \in Requests => req'[q] = Idle,
           \A p \in Requests \ {q} : req'[p] = req[p],
           UNCHANGED stores, given' = NoUse
    PROVE  MemoryInv'
<1> SUFFICES ASSUME NEW n, n = Len(documents) + 1,
                    NEW row, row = [store |-> s, content |-> content, status |-> status,
                                    deleted |-> FALSE, current |-> Len(versions) + 1]
             PROVE  MemoryInv'
  OBVIOUS
<1>1. Len(documents) \in Nat /\ Len(versions) \in Nat /\ DocumentIds = 1 .. Len(documents)
  BY DEF MemoryInv, RowsTyped, DocumentIds
<1>2. /\ AddVersion(n, "create", content, 0)
      /\ documents' = Append(documents, row)
      /\ rowLock' = Append(rowLock, NoRequest)
  BY DEF InsertDocument
<1>3. row \in Document
  BY <1>1 DEF Document
<1>4. row.current = Len(versions) + 1 /\ row.deleted = FALSE /\ row.content = content
  OBVIOUS
<1>5. /\ documents' \in Seq(Document)
      /\ DocumentIds' = 1 .. n
      /\ documents'[n] = row
      /\ \A e \in DocumentIds : documents'[e] = documents[e]
  BY <1>1, <1>2, <1>3 DEF MemoryInv, RowsTyped, DocumentIds
<1>6. /\ rowLock' \in Seq(Requests \cup {NoRequest})
      /\ Len(rowLock') = Len(documents')
      /\ \A e \in DocumentIds : rowLock'[e] = rowLock[e]
  BY <1>1, <1>2, <1>3 DEF MemoryInv, RowsTyped, DocumentIds
<1>7. /\ VersionsKept
      /\ versions' \in Seq(VersionRow)
      /\ RowTells(row, n)'
  <2>1. n \in Nat /\ 0 \in Nat
    BY <1>1
  <2>2. /\ VersionsKept
        /\ versions' \in Seq(VersionRow)
        /\ \A x : /\ x.current = Len(versions) + 1
                  /\ x.deleted = ("create" = "delete")
                  /\ "create" # "delete" => x.content = content
                  => RowTells(x, n)'
    BY <1>2, <2>1, AddedVersion DEF MemoryInv
  <2> QED  BY <1>4, <2>2
<1>8. RowsTyped'
  BY <1>5, <1>6, <1>7 DEF MemoryInv, RowsTyped
<1>9. DocumentsHold'
  <2> SUFFICES ASSUME NEW e \in 1 .. n
               PROVE  RowTells(documents[e], e)'
    BY <1>5 DEF DocumentsHold
  <2>1. CASE e = n
    BY <1>5, <1>7, <2>1 DEF RowTells, Tells
  <2>2. CASE e # n
    <3>1. RowTells(documents[e], e) /\ documents'[e] = documents[e]
      BY <1>1, <1>5, <2>2 DEF MemoryInv, DocumentsHold
    <3>2. ASSUME NEW x, NEW y, RowTells(x, y)
          PROVE  RowTells(x, y)'
      BY <1>7, <3>2, KeptTells
    <3> QED  BY <3>1, <3>2 DEF RowTells, Tells
  <2> QED  BY <2>1, <2>2
<1>10. DocumentIds \subseteq DocumentIds'
  BY <1>1, <1>5
<1>11. q \in Requests => RequestHolds(q, req[q])'
  BY DEF RequestHolds, Idle
<1> QED  BY <1>5, <1>6, <1>7, <1>8, <1>9, <1>10, <1>11, StepHolds

-----------------------------------------------------------------------------
(* The operations *)

\* A row field by field.
LEMMA RowFields ==
    ASSUME NEW row \in Document, NEW content \in Contents, NEW n \in Nat,
           NEW status \in {"active", "draft", "archived"}, NEW deleted \in BOOLEAN,
           NEW new, new = [store |-> row.store, content |-> content, status |-> status,
                           deleted |-> deleted, current |-> n]
    PROVE  /\ new \in Document /\ new.content = content /\ new.current = n
           /\ new.deleted = deleted
  BY DEF Document

\* What goes back of an edit, field by field.
LEMMA EditedRow ==
    ASSUME NEW row \in Document, NEW content, NEW status,
           NEW new, new = Edited(row, content, status)
    PROVE  new = [store |-> row.store, content |-> content, status |-> status,
                  deleted |-> row.deleted, current |-> Len(versions) + 1]
  BY DEF Edited, Document

\* What goes back of a deletion, field by field.
LEMMA DeletedRow ==
    ASSUME NEW row \in Document, NEW new, new = Deleted(row)
    PROVE  new = [store |-> row.store, content |-> row.content, status |-> "archived",
                  deleted |-> TRUE, current |-> Len(versions) + 1]
  BY DEF Deleted, Document

\* The stage of a request whose deletion is recorded.
LEMMA RecordedStage ==
    ASSUME NEW r \in Deletions, NEW new,
           NEW stage, stage = [r EXCEPT !.at = "recorded", !.row = new]
    PROVE  stage = [op |-> "delete", at |-> "recorded", doc |-> r.doc, row |-> new]
  BY DEF Deletions

\* The row is locked and copied.
LEMMA LockHolds ==
    ASSUME MemoryInv, NEW q \in Requests, NEW op \in {"update", "patch"},
           NEW d \in DocumentIds, LockAndRead(q, op, d),
           UNCHANGED <<documents, versions, stores>>, given' = NoUse
    PROVE  MemoryInv'
<1> SUFFICES ASSUME NEW row, row = documents[d],
                    NEW stage, stage = [op |-> op, at |-> "locked", doc |-> d, row |-> row]
             PROVE  MemoryInv'
  OBVIOUS
<1>1. row \in Document /\ d \in Nat /\ d \in DOMAIN rowLock /\ ~row.deleted
  BY DEF MemoryInv, RowsTyped, DocumentIds, LockAndRead, Live
<1>2. stage \in Request
  BY <1>1 DEF Request, Edits
<1>3. /\ req' \in [Requests -> Request] /\ req'[q] = stage
      /\ \A p \in Requests \ {q} : req'[p] = req[p]
  BY <1>2, OneRequestMoves DEF MemoryInv, LockAndRead
<1>4. rowLock' = [rowLock EXCEPT ![d] = q] /\ rowLock[d] = NoRequest
  BY DEF LockAndRead, Unlocked
<1>5. /\ rowLock' \in Seq(Requests \cup {NoRequest}) /\ Len(rowLock') = Len(rowLock)
      /\ rowLock'[d] = q
      /\ \A e \in DOMAIN rowLock : e # d => rowLock'[e] = rowLock[e]
  BY <1>1, <1>4 DEF MemoryInv, RowsTyped
<1>6. RowsTyped' /\ DocumentsHold' /\ DocumentIds' = DocumentIds /\ VersionsKept
      /\ DocumentIds = DOMAIN rowLock
  BY <1>3, <1>5 DEF MemoryInv, RowsTyped, DocumentsHold, DocumentIds, RowTells, Tells,
                   VersionsKept
<1>7. RequestHolds(q, req[q])'
  BY <1>1, <1>3, <1>5 DEF RequestHolds, DocumentIds
<1>8. \A p \in Requests \ {q} : \A e \in DocumentIds : rowLock[e] = p =>
         rowLock'[e] = p /\ documents'[e] = documents[e]
  BY <1>4, <1>5, <1>6, NobodyIsNoRequest
<1> QED  BY <1>3, <1>6, <1>7, <1>8, StepHolds

\* An endpoint that edits locks the row first.
LEMMA AdminUpdatesHolds ==
    ASSUME MemoryInv, NEW q \in Requests, AdminUpdates(q), given' = NoUse
    PROVE  MemoryInv'
  BY LockHolds DEF AdminUpdates

\* A patch of the agent begins without a copy.
LEMMA AgentPatchesHolds ==
    ASSUME MemoryInv, NEW q \in Requests, AgentPatches(q), given' = NoUse
    PROVE  MemoryInv'
<1>1. PICK d \in DocumentIds : Reaches(q, [op |-> "patch", at |-> "allowed", doc |-> d])
  BY DEF AgentPatches
<1> DEFINE stage == [op |-> "patch", at |-> "allowed", doc |-> d]
<1>2. stage \in Request
  BY DEF Request, Patches, MemoryInv, RowsTyped, DocumentIds
<1>3. RequestHolds(q, stage)
  BY DEF RequestHolds
<1>4. stores' \in [Stores -> Store] /\ UNCHANGED <<documents, versions, rowLock>>
  BY DEF AgentPatches, MemoryInv, RowsTyped
<1> HIDE DEF stage
<1> QED  BY <1>1, <1>2, <1>3, <1>4, QuietHolds DEF stage

\* It reads the row under its lock, or finds it deleted.
LEMMA PatchReadsHolds ==
    ASSUME MemoryInv, NEW q \in Requests, PatchReads(q), given' = NoUse
    PROVE  MemoryInv'
<1> SUFFICES ASSUME NEW d, d = req[q].doc
             PROVE  MemoryInv'
  OBVIOUS
<1>1. d \in DocumentIds
  BY DEF MemoryInv, RequestsHold, RequestHolds, PatchReads
<1>2. CASE LockAndRead(q, "patch", d)
  BY <1>1, <1>2, LockHolds DEF PatchReads
<1>3. CASE Finish(q) /\ UNCHANGED rowLock
  <2>1. stores' \in [Stores -> Store] /\ UNCHANGED <<documents, versions, rowLock>>
    BY <1>3 DEF PatchReads, MemoryInv, RowsTyped
  <2> QED  BY <1>3, <2>1, IdleHolds, QuietHolds DEF Finish, Reaches
<1> QED  BY <1>2, <1>3 DEF PatchReads

\* The copy that goes back is that of the locked row; its version is new.
LEMMA EditEndsHolds ==
    ASSUME MemoryInv, NEW q \in Requests, EditEnds(q), given' = NoUse
    PROVE  MemoryInv'
<1> SUFFICES ASSUME NEW d, d = req[q].doc, NEW row, row = req[q].row
             PROVE  MemoryInv'
  OBVIOUS
<1>1. req[q] \in Edits /\ RequestHolds(q, req[q]) /\ req[q].at = "locked"
  BY Shapes DEF EditEnds, MemoryInv, RowsTyped, RequestsHold
<1>2. /\ d \in DocumentIds /\ d \in Nat
      /\ row \in Document /\ ~row.deleted /\ documents[d] = row /\ rowLock[d] = q
      /\ req[q].op \in {"update", "patch"}
  BY <1>1 DEF RequestHolds, Edits
<1>3. Finish(q) /\ Release(d) /\ UNCHANGED stores
  BY DEF EditEnds
<1>4. PICK expected \in Contents, content \in Contents,
           status \in {row.status, "active", "draft"} :
         IF row.content = expected
           THEN /\ AddVersion(d, req[q].op, content, row.current)
                /\ WriteBack(d, Edited(row, content, status))
           ELSE UNCHANGED <<documents, versions>>
  BY DEF EditEnds
<1>5. CASE UNCHANGED <<documents, versions>>
  <2>1. WriteBack(d, row)
    BY <1>2, <1>5 DEF WriteBack, MemoryInv, RowsTyped
  <2>2. VersionsKept /\ versions' \in Seq(VersionRow)
    BY <1>5 DEF VersionsKept, MemoryInv, RowsTyped
  <2>3. RowTells(documents[d], d)
    BY <1>2 DEF MemoryInv, DocumentsHold
  <2>4. RowTells(row, d)'
    BY <1>2, <2>2, <2>3, KeptTells
  <2> QED  BY <1>2, <1>3, <2>1, <2>2, <2>4, RowWritten
<1>6. CASE AddVersion(d, req[q].op, content, row.current)
           /\ WriteBack(d, Edited(row, content, status))
  <2> SUFFICES ASSUME NEW op, op = req[q].op,
                      NEW new, new = [store |-> row.store, content |-> content,
                                      status |-> status, deleted |-> row.deleted,
                                      current |-> Len(versions) + 1]
               PROVE  MemoryInv'
    OBVIOUS
  <2>1. Len(versions) \in Nat /\ row.current \in Nat
    BY <1>2 DEF MemoryInv, RowsTyped, Document
  <2>2. /\ new \in Document /\ new.content = content /\ new.current = Len(versions) + 1
        /\ new.deleted = row.deleted
    <3>1. status \in {"active", "draft", "archived"} /\ Len(versions) + 1 \in Nat
      BY <1>2, <2>1 DEF Document
    <3>2. row.deleted \in BOOLEAN
      BY <1>2 DEF Document
    <3> QED  BY <1>2, <3>1, <3>2, RowFields
  <2>3. /\ VersionsKept /\ versions' \in Seq(VersionRow)
        /\ \A x : /\ x.current = Len(versions) + 1
                  /\ x.deleted = (op = "delete")
                  /\ op # "delete" => x.content = content
                  => RowTells(x, d)'
    BY <1>2, <1>6, <2>1, AddedVersion DEF MemoryInv
  <2>4. new.deleted = (op = "delete")
    BY <1>2, <2>2 DEF Document
  <2>5. RowTells(new, d)'
    BY <2>2, <2>3, <2>4
  <2>6. WriteBack(d, new)
    <3>1. Edited(row, content, status) =
             [store |-> row.store, content |-> content, status |-> status,
              deleted |-> row.deleted, current |-> Len(versions) + 1]
      BY <1>2, EditedRow
    <3> QED  BY <1>6, <3>1
  <2> QED  BY <1>2, <1>3, <2>2, <2>3, <2>5, <2>6, RowWritten
<1> QED  BY <1>4, <1>5, <1>6

\* The stages of agent_remember and the seeding that only read.
LEMMA RememberReadsHold ==
    ASSUME MemoryInv, NEW q \in Requests, given' = NoUse,
           AgentRemembers(q) \/ Seeds(q) \/ FindExisting(q)
    PROVE  MemoryInv'
<1>1. UNCHANGED <<documents, versions, rowLock>> /\ stores' \in [Stores -> Store]
  BY DEF AgentRemembers, Seeds, FindExisting, MemoryInv, RowsTyped
<1>2. CASE AgentRemembers(q)
  <2>1. PICK s \in Stores : Reaches(q, [op |-> "remember", at |-> "allowed", store |-> s])
    BY <1>2 DEF AgentRemembers
  <2> DEFINE stage == [op |-> "remember", at |-> "allowed", store |-> s]
  <2>2. stage \in Request /\ RequestHolds(q, stage)
    BY DEF Request, Remembers, RequestHolds
  <2> HIDE DEF stage
  <2> QED  BY <1>1, <2>1, <2>2, QuietHolds DEF stage
<1>3. CASE Seeds(q)
  <2>1. PICK s \in Stores : Reaches(q, [op |-> "seed", at |-> "absent", store |-> s])
    BY <1>3 DEF Seeds
  <2> DEFINE stage == [op |-> "seed", at |-> "absent", store |-> s]
  <2>2. stage \in Request /\ RequestHolds(q, stage)
    BY DEF Request, Seedings, RequestHolds
  <2> HIDE DEF stage
  <2> QED  BY <1>1, <2>1, <2>2, QuietHolds DEF stage
<1>4. CASE FindExisting(q)
  <2>1. req[q] \in Remembers
    BY <1>4, Shapes DEF FindExisting, MemoryInv, RowsTyped
  <2>2. CASE Reaches(q, [req[q] EXCEPT !.at = "absent"])
    <3> DEFINE stage == [req[q] EXCEPT !.at = "absent"]
    <3>1. stage \in Remembers /\ stage.at = "absent" /\ stage.op = "remember"
      BY <2>1 DEF Remembers
    <3>2. stage \in Request /\ RequestHolds(q, stage)
      BY <3>1 DEF Request, RequestHolds
    <3> HIDE DEF stage
    <3> QED  BY <1>1, <2>2, <3>2, QuietHolds DEF stage
  <2>3. ASSUME NEW d \in DocumentIds, NEW named \in BOOLEAN, Live(d),
               Reaches(q, [op |-> "remember", at |-> "found", doc |-> d,
                           row |-> documents[d], named |-> named])
        PROVE  MemoryInv'
    <3> DEFINE stage == [op |-> "remember", at |-> "found", doc |-> d,
                         row |-> documents[d], named |-> named]
    <3>1. documents[d] \in Document /\ d \in Nat /\ ~documents[d].deleted
      BY <2>3 DEF MemoryInv, RowsTyped, DocumentIds, Live
    <3>2. stage \in Request /\ RequestHolds(q, stage)
      BY <3>1 DEF Request, Updates, RequestHolds
    <3> HIDE DEF stage
    <3> QED  BY <1>1, <2>3, <3>2, QuietHolds DEF stage
  <2>4. CASE Finish(q)
    BY <1>1, <2>4, IdleHolds, QuietHolds DEF Finish, Reaches
  <2> QED  BY <1>4, <2>2, <2>3, <2>4 DEF FindExisting
<1> QED  BY <1>2, <1>3, <1>4

\* A document that was not there is created, or its path was taken meanwhile.
LEMMA AbsentCreatedHolds ==
    ASSUME MemoryInv, NEW q \in Requests, AbsentCreated(q), given' = NoUse
    PROVE  MemoryInv'
<1>1. Finish(q) /\ UNCHANGED stores /\ req[q].store \in Stores
  BY Shapes DEF AbsentCreated, MemoryInv, RowsTyped, Remembers, Seedings
<1>2. CASE UNCHANGED <<documents, versions, rowLock>>
  <2>1. stores' \in [Stores -> Store]
    BY <1>1 DEF MemoryInv, RowsTyped
  <2> QED  BY <1>1, <1>2, <2>1, IdleHolds, QuietHolds DEF Finish, Reaches
<1>3. ASSUME NEW content \in Contents, InsertDocument(req[q].store, content, "active")
      PROVE  MemoryInv'
  <2>1. /\ req' \in [Requests -> Request] /\ req'[q] = Idle
        /\ \A p \in Requests \ {q} : req'[p] = req[p]
    BY <1>1, OneRequestMoves, IdleHolds DEF MemoryInv, Finish, Reaches
  <2> QED  BY <1>1, <1>3, <2>1, InsertHolds
<1> QED  BY <1>2, <1>3 DEF AbsentCreated

\* An endpoint creates a document in one transaction.
LEMMA AdminCreatesHolds ==
    ASSUME MemoryInv, AdminCreates, given' = NoUse
    PROVE  MemoryInv'
<1>1. req' \in [Requests -> Request] /\ UNCHANGED req /\ UNCHANGED stores
      /\ NoRequest \notin Requests
  BY NobodyIsNoRequest DEF AdminCreates, MemoryInv, RowsTyped
<1>2. PICK s \in Stores, content \in Contents, status \in {"active", "draft"} :
         InsertDocument(s, content, status)
  BY DEF AdminCreates
<1>3. (NoRequest \in Requests => req'[NoRequest] = Idle)
      /\ \A p \in Requests \ {NoRequest} : req'[p] = req[p]
  BY <1>1
<1> QED  BY <1>1, <1>2, <1>3, InsertHolds

\* The whole copy goes back, however old it is, with a version of its own.
LEMMA RememberUpdatesHolds ==
    ASSUME MemoryInv, NEW q \in Requests, RememberUpdates(q), given' = NoUse
    PROVE  MemoryInv'
<1> SUFFICES ASSUME NEW d, d = req[q].doc, NEW row, row = req[q].row
             PROVE  MemoryInv'
  OBVIOUS
<1>1. req[q] \in Updates /\ RequestHolds(q, req[q]) /\ req[q].at = "found"
  BY Shapes DEF RememberUpdates, MemoryInv, RowsTyped, RequestsHold
<1>2. d \in DocumentIds /\ d \in Nat /\ row \in Document /\ ~row.deleted
  BY <1>1 DEF RequestHolds, Updates
<1>3. Finish(q) /\ UNCHANGED <<stores, rowLock>> /\ rowLock[d] = NoRequest
  BY DEF RememberUpdates, Unlocked
<1>4. CASE UNCHANGED <<documents, versions>>
  <2>1. stores' \in [Stores -> Store]
    BY <1>3 DEF MemoryInv, RowsTyped
  <2> QED  BY <1>3, <1>4, <2>1, IdleHolds, QuietHolds DEF Finish, Reaches
<1>5. ASSUME NEW content \in Contents, AddVersion(d, "update", content, row.current),
             WriteBack(d, Remembered(d, row, content))
      PROVE  MemoryInv'
  <2> SUFFICES ASSUME NEW new, new = Remembered(d, row, content)
               PROVE  MemoryInv'
    OBVIOUS
  <2>1. Len(versions) + 1 \in Nat /\ row.current \in Nat
        /\ row.status \in {"active", "draft", "archived"}
    BY <1>2 DEF MemoryInv, RowsTyped, Document
  <2>2. /\ new \in Document /\ new.content = content /\ new.current = Len(versions) + 1
        /\ new.deleted = row.deleted
    <3>1. new = [store |-> row.store, content |-> content, status |-> row.status,
                 deleted |-> row.deleted, current |-> Len(versions) + 1]
      BY <1>2 DEF Document, Remembered
    <3>2. row.deleted \in BOOLEAN
      BY <1>2 DEF Document
    <3> QED  BY <1>2, <2>1, <3>1, <3>2, RowFields
  <2>3. /\ VersionsKept /\ versions' \in Seq(VersionRow)
        /\ \A x : /\ x.current = Len(versions) + 1
                  /\ x.deleted = ("update" = "delete")
                  /\ "update" # "delete" => x.content = content
                  => RowTells(x, d)'
    BY <1>2, <1>5, <2>1, AddedVersion DEF MemoryInv
  <2>4. new.deleted = ("update" = "delete")
    BY <1>2, <2>2 DEF Document
  <2>5. RowTells(new, d)'
    BY <2>2, <2>3, <2>4
  <2> QED  BY <1>2, <1>3, <1>5, <2>2, <2>3, <2>5, RowWritten
<1> QED  BY <1>4, <1>5 DEF RememberUpdates

\* The deletion is recorded, then the copy with it goes back.
LEMMA DeletesHold ==
    ASSUME MemoryInv, NEW q \in Requests, given' = NoUse,
           AdminDeletes(q) \/ DeleteRecords(q) \/ DeleteSaves(q)
    PROVE  MemoryInv'
<1>1. CASE AdminDeletes(q)
  <2>1. PICK d \in DocumentIds :
           Reaches(q, [op |-> "delete", at |-> "read", doc |-> d, row |-> documents[d]])
    BY <1>1 DEF AdminDeletes
  <2> DEFINE stage == [op |-> "delete", at |-> "read", doc |-> d, row |-> documents[d]]
  <2>2. documents[d] \in Document /\ d \in Nat
    BY DEF MemoryInv, RowsTyped, DocumentIds
  <2>3. stage \in Request /\ RequestHolds(q, stage)
    BY <2>2 DEF Request, Deletions, RequestHolds
  <2>4. UNCHANGED <<documents, versions, rowLock>> /\ stores' \in [Stores -> Store]
    BY <1>1 DEF AdminDeletes, MemoryInv, RowsTyped
  <2> HIDE DEF stage
  <2> QED  BY <2>1, <2>3, <2>4, QuietHolds DEF stage
<1>2. CASE DeleteRecords(q)
  <2> SUFFICES ASSUME NEW d, d = req[q].doc, NEW row, row = req[q].row,
                      NEW new, new = [store |-> row.store, content |-> row.content,
                                      status |-> "archived", deleted |-> TRUE,
                                      current |-> Len(versions) + 1],
                      NEW stage, stage = [op |-> "delete", at |-> "recorded", doc |-> d,
                                          row |-> new]
               PROVE  MemoryInv'
    OBVIOUS
  <2>1. req[q] \in Deletions /\ RequestHolds(q, req[q]) /\ req[q].op = "delete"
    BY <1>2, Shapes DEF DeleteRecords, MemoryInv, RowsTyped, RequestsHold
  <2>2. d \in DocumentIds /\ d \in Nat /\ row \in Document
    BY <2>1 DEF RequestHolds, Deletions
  <2>3. Len(versions) + 1 \in Nat /\ row.current \in Nat
    BY <2>2 DEF MemoryInv, RowsTyped, Document
  <2>4. new \in Document /\ new.current = Len(versions) + 1 /\ new.deleted = TRUE
    BY <2>2, <2>3 DEF Document
  <2>5. stage \in Request
    BY <2>2, <2>4 DEF Request, Deletions
  <2>6. Reaches(q, stage)
    <3>1. Deleted(row) = [store |-> row.store, content |-> row.content,
                          status |-> "archived", deleted |-> TRUE,
                          current |-> Len(versions) + 1]
      BY <2>2, DeletedRow
    <3>2. [req[q] EXCEPT !.at = "recorded", !.row = new] =
             [op |-> "delete", at |-> "recorded", doc |-> d, row |-> new]
      BY <2>1, RecordedStage
    <3>3. Reaches(q, [req[q] EXCEPT !.at = "recorded", !.row = Deleted(row)])
      BY <1>2 DEF DeleteRecords
    <3> QED  BY <3>1, <3>2, <3>3
  <2>7. AddVersion(d, "delete", NoContent, row.current) /\ UNCHANGED <<documents, stores, rowLock>>
    BY <1>2 DEF DeleteRecords
  <2>8. /\ VersionsKept /\ versions' \in Seq(VersionRow)
        /\ \A x : /\ x.current = Len(versions) + 1
                  /\ x.deleted = ("delete" = "delete")
                  /\ "delete" # "delete" => x.content = NoContent
                  => RowTells(x, d)'
    BY <2>2, <2>3, <2>7, AddedVersion DEF MemoryInv
  <2>9. RowTells(new, d)'
    BY <2>4, <2>8
  <2>10. /\ req' \in [Requests -> Request] /\ req'[q] = stage
         /\ \A p \in Requests \ {q} : req'[p] = req[p]
    BY <2>5, <2>6, OneRequestMoves DEF MemoryInv
  <2>11. RowsTyped' /\ DocumentIds' = DocumentIds
    BY <2>7, <2>8, <2>10 DEF MemoryInv, RowsTyped, DocumentIds
  <2>12. DocumentsHold'
    <3>1. ASSUME NEW x, NEW y, RowTells(x, y)
          PROVE  RowTells(x, y)'
      BY <2>8, <3>1, KeptTells
    <3>2. \A e \in DocumentIds : RowTells(documents[e], e) /\ documents'[e] = documents[e]
      BY <2>7 DEF MemoryInv, DocumentsHold
    <3> QED  BY <2>11, <3>1, <3>2 DEF DocumentsHold, RowTells, Tells
  <2>13. RequestHolds(q, req[q])'
    <3>1. stage.at = "recorded" /\ stage.doc = d /\ stage.row = new
      OBVIOUS
    <3> QED  BY <2>2, <2>9, <2>10, <2>11, <3>1 DEF RequestHolds, RowTells, Tells
  <2> QED  BY <2>7, <2>8, <2>10, <2>11, <2>12, <2>13, StepHolds
<1>3. CASE DeleteSaves(q)
  <2> SUFFICES ASSUME NEW d, d = req[q].doc, NEW row, row = req[q].row
               PROVE  MemoryInv'
    OBVIOUS
  <2>1. req[q] \in Deletions /\ RequestHolds(q, req[q]) /\ req[q].at = "recorded"
    BY <1>3, Shapes DEF DeleteSaves, MemoryInv, RowsTyped, RequestsHold
  <2>2. d \in DocumentIds /\ row \in Document /\ RowTells(row, d)
    BY <2>1 DEF RequestHolds, Deletions
  <2>3. WriteBack(d, row) /\ Finish(q) /\ UNCHANGED <<versions, stores, rowLock>>
        /\ rowLock[d] = NoRequest
    BY <1>3 DEF DeleteSaves, Unlocked
  <2>4. VersionsKept /\ versions' \in Seq(VersionRow)
    BY <2>3 DEF VersionsKept, MemoryInv, RowsTyped
  <2>5. RowTells(row, d)'
    BY <2>2, <2>4, KeptTells
  <2> QED  BY <2>2, <2>3, <2>4, <2>5, RowWritten
<1> QED  BY <1>1, <1>2, <1>3

\* What an endpoint read of a store goes back whole.
LEMMA StoresHold ==
    ASSUME MemoryInv, NEW q \in Requests, AdminReadsStore(q) \/ AdminSavesStore(q), given' = NoUse
    PROVE  MemoryInv'
<1>1. CASE AdminReadsStore(q)
  <2>1. PICK s \in Stores, archives \in BOOLEAN :
           Reaches(q, [op |-> "store", at |-> "read", store |-> s,
                       row |-> [stores[s] EXCEPT !.archived = @ \/ archives]])
    BY <1>1 DEF AdminReadsStore
  <2> DEFINE row == [stores[s] EXCEPT !.archived = @ \/ archives]
             stage == [op |-> "store", at |-> "read", store |-> s, row |-> row]
  <2>2. row \in Store
    BY DEF MemoryInv, RowsTyped, Store
  <2> HIDE DEF row
  <2>3. stage \in Request /\ RequestHolds(q, stage)
    BY <2>2 DEF Request, StoreSaves, RequestHolds
  <2>4. UNCHANGED <<documents, versions, rowLock>> /\ stores' \in [Stores -> Store]
    BY <1>1 DEF AdminReadsStore, MemoryInv, RowsTyped
  <2>5. Reaches(q, stage)
    BY <2>1 DEF row
  <2> HIDE DEF stage
  <2> QED  BY <2>3, <2>4, <2>5, QuietHolds
<1>2. CASE AdminSavesStore(q)
  <2>1. req[q] \in StoreSaves
    BY <1>2, Shapes DEF AdminSavesStore, MemoryInv, RowsTyped
  <2>2. UNCHANGED <<documents, versions, rowLock>> /\ stores' \in [Stores -> Store]
    BY <1>2, <2>1 DEF AdminSavesStore, MemoryInv, RowsTyped, StoreSaves
  <2> QED  BY <1>2, <2>2, IdleHolds, QuietHolds DEF AdminSavesStore, Finish, Reaches
<1> QED  BY <1>1, <1>2

\* A request that dies lets go of the rows it had locked, and of no other.
LEMMA RequestDiesHolds ==
    ASSUME MemoryInv, NEW q \in Requests, RequestDies(q), given' = NoUse
    PROVE  MemoryInv'
<1>1. /\ req' \in [Requests -> Request] /\ req'[q] = Idle
      /\ \A p \in Requests \ {q} : req'[p] = req[p]
  BY OneRequestMoves, IdleHolds DEF MemoryInv, RequestDies, Finish, Reaches
<1>2. /\ rowLock' = [d \in DocumentIds |-> IF rowLock[d] = q THEN NoRequest ELSE rowLock[d]]
      /\ UNCHANGED <<documents, versions, stores>>
  BY DEF RequestDies
<1>3. /\ DocumentIds = 1 .. Len(documents) /\ Len(documents) \in Nat
      /\ \A d \in DocumentIds : rowLock[d] \in Requests \cup {NoRequest}
  BY DEF MemoryInv, RowsTyped, DocumentIds
<1>4. rowLock' \in Seq(Requests \cup {NoRequest}) /\ Len(rowLock') = Len(documents)
  BY <1>2, <1>3
<1>5. RowsTyped' /\ DocumentsHold' /\ DocumentIds' = DocumentIds /\ VersionsKept
  BY <1>1, <1>2, <1>4 DEF MemoryInv, RowsTyped, DocumentsHold, DocumentIds, RowTells, Tells,
                         VersionsKept
<1>6. RequestHolds(q, req[q])'
  BY <1>1 DEF RequestHolds, Idle
<1>7. \A p \in Requests \ {q} : \A d \in DocumentIds : rowLock[d] = p =>
         rowLock'[d] = p /\ documents'[d] = documents[d]
  BY <1>2
<1> QED  BY <1>1, <1>5, <1>6, <1>7, StepHolds

\* A redacted version says nothing, and is still what it was of.
LEMMA AdminRedactsHolds ==
    ASSUME MemoryInv, AdminRedacts, given' = NoUse
    PROVE  MemoryInv'
<1>1. PICK v \in DOMAIN versions :
         versions' = [versions EXCEPT ![v].redacted = TRUE, ![v].content = NoContent]
  BY DEF AdminRedacts
<1> SUFFICES ASSUME NEW new, new = [versions[v] EXCEPT !.redacted = TRUE, !.content = NoContent]
             PROVE  MemoryInv'
  OBVIOUS
<1>2. versions' = [versions EXCEPT ![v] = new]
  BY <1>1
<1>3. versions[v] \in VersionRow
  BY DEF MemoryInv, RowsTyped
<1>4. new = [document |-> versions[v].document, operation |-> versions[v].operation,
             content |-> NoContent, previous |-> versions[v].previous, redacted |-> TRUE]
  BY <1>3 DEF VersionRow
<1>5. /\ new \in VersionRow /\ new.document = versions[v].document
      /\ new.operation = versions[v].operation /\ new.redacted
  BY <1>3, <1>4 DEF VersionRow
<1>6. /\ versions' \in Seq(VersionRow) /\ DOMAIN versions' = DOMAIN versions
      /\ versions'[v] = new
      /\ \A u \in DOMAIN versions : u # v => versions'[u] = versions[u]
  BY <1>2, <1>5 DEF MemoryInv, RowsTyped
<1>7. VersionsKept
  BY <1>5, <1>6 DEF VersionsKept
<1>8. UNCHANGED <<documents, stores, rowLock, req>>
  BY DEF AdminRedacts
<1>9. RowsTyped' /\ DocumentIds' = DocumentIds
  BY <1>6, <1>8 DEF MemoryInv, RowsTyped, DocumentIds
<1>10. DocumentsHold'
  <2>1. ASSUME NEW x, NEW y, RowTells(x, y)
        PROVE  RowTells(x, y)'
    BY <1>7, <2>1, KeptTells
  <2>2. \A e \in DocumentIds : RowTells(documents[e], e) /\ documents'[e] = documents[e]
    BY <1>8 DEF MemoryInv, DocumentsHold
  <2> QED  BY <1>9, <2>1, <2>2 DEF DocumentsHold, RowTells, Tells
<1>11. \A p \in Requests \ {NoRequest} : req'[p] = req[p]
  BY <1>8
<1>12. NoRequest \in Requests => RequestHolds(NoRequest, req[NoRequest])'
  BY NobodyIsNoRequest
<1>13. \A p \in Requests \ {NoRequest} : \A d \in DocumentIds : rowLock[d] = p =>
          rowLock'[d] = p /\ documents'[d] = documents[d]
  BY <1>8
<1> QED  BY <1>7, <1>9, <1>10, <1>11, <1>12, <1>13, StepHolds

\* What the model is given is what a live row says, and so what its version says.
LEMMA ReadsHold ==
    ASSUME MemoryInv, MemoryReads
    PROVE  MemoryInv'
<1>1. PICK d \in DocumentIds : Live(d) /\ given' = UseOf(d)
  BY DEF MemoryReads, AgentReads, RetrieveForTurn
<1>2. UNCHANGED <<documents, versions, stores, rowLock, req>>
  BY DEF MemoryReads, AgentReads, RetrieveForTurn
<1>3. RowTells(documents[d], d) /\ ~documents[d].deleted
  BY <1>1 DEF MemoryInv, DocumentsHold, Live
<1>4. GivenHolds'
  BY <1>1, <1>2, <1>3 DEF GivenHolds, UseOf, RowTells, Tells
<1>5. RowsTyped' /\ DocumentsHold' /\ RequestsHold'
  BY <1>2 DEF MemoryInv, RowsTyped, DocumentsHold, RequestsHold, RequestHolds, DocumentIds,
              RowTells, Tells
<1> QED  BY <1>4, <1>5 DEF MemoryInv

-----------------------------------------------------------------------------
(* The theorems *)

\* Without documents there is nothing to tell.
LEMMA MemoryStarts == MemoryInit => MemoryInv
<1> SUFFICES ASSUME MemoryInit
             PROVE  MemoryInv
  OBVIOUS
<1>1. /\ <<>> \in Seq(Document) /\ <<>> \in Seq(VersionRow)
      /\ <<>> \in Seq(Requests \cup {NoRequest})
  OBVIOUS
<1>2. stores \in [Stores -> Store]
  BY MemoryConstants DEF MemoryInit, Store
<1>3. req \in [Requests -> Request] /\ \A q \in Requests : req[q] = Idle
  BY DEF MemoryInit, Request
<1>4. RowsTyped
  BY <1>1, <1>2, <1>3 DEF MemoryInit, RowsTyped
<1>5. RequestsHold
  BY <1>3, IdleHolds DEF RequestsHold
<1>6. DocumentsHold /\ GivenHolds
  BY DEF MemoryInit, DocumentsHold, DocumentIds, GivenHolds
<1> QED  BY <1>4, <1>5, <1>6 DEF MemoryInv

\* What the rows, the versions and the copies of the requests in flight rely on
\* (services/memory, endpoints/memory).
THEOREM MemoryInvariant == MemorySpec => []MemoryInv
<1>1. MemoryInv /\ [MemoryNext]_memoryVars => MemoryInv'
  <2> SUFFICES ASSUME MemoryInv, [MemoryNext]_memoryVars
               PROVE  MemoryInv'
    OBVIOUS
  <2>1. CASE UNCHANGED memoryVars
    BY <2>1 DEF memoryVars, MemoryInv, RowsTyped, DocumentsHold, RequestsHold, RequestHolds,
                GivenHolds, DocumentIds, RowTells, Tells
  <2>2. CASE MemoryReads
    BY <2>2, ReadsHold
  <2>3. CASE MemoryWrites /\ given' = NoUse
    <3>1. CASE AdminCreates \/ AdminRedacts
      BY <2>3, <3>1, AdminCreatesHolds, AdminRedactsHolds
    <3>2. ASSUME NEW q \in Requests,
                 AdminUpdates(q) \/ AgentPatches(q) \/ PatchReads(q) \/ EditEnds(q)
          PROVE  MemoryInv'
      BY <2>3, <3>2, AdminUpdatesHolds, AgentPatchesHolds, PatchReadsHolds, EditEndsHolds
    <3>3. ASSUME NEW q \in Requests,
                 \/ AgentRemembers(q) \/ FindExisting(q) \/ Seeds(q)
                 \/ AbsentCreated(q) \/ RememberUpdates(q)
          PROVE  MemoryInv'
      BY <2>3, <3>3, RememberReadsHold, AbsentCreatedHolds, RememberUpdatesHolds
    <3>4. ASSUME NEW q \in Requests,
                 \/ AdminDeletes(q) \/ DeleteRecords(q) \/ DeleteSaves(q)
                 \/ AdminReadsStore(q) \/ AdminSavesStore(q) \/ RequestDies(q)
          PROVE  MemoryInv'
      BY <2>3, <3>4, DeletesHold, StoresHold, RequestDiesHolds
    <3> QED  BY <2>3, <3>1, <3>2, <3>3, <3>4 DEF MemoryWrites
  <2> QED  BY <2>1, <2>2, <2>3 DEF MemoryNext
<1> QED  BY <1>1, MemoryStarts, PTL DEF MemorySpec

\* A document and its history agree, whoever wrote last from however old a copy, and
\* what the model was given is what the recorded version says (MemoryVersion).
THEOREM HistoryTellsTheRows == MemorySpec => []HistoryTellsContent
<1>1. MemoryInv => HistoryTellsContent
  BY DEF MemoryInv, DocumentsHold, GivenHolds, RowTells, Tells, Live, HistoryTellsContent
<1> QED  BY <1>1, MemoryInvariant, PTL

\* An edit under the lock of the row replaces just what it was made from
\* (update_document, patch_document): the lock is held from the read to the commit,
\* and everyone who writes the row, agent_remember too, waits for it.
THEOREM EditsAreExact == MemorySpec => LockedEditsReplaceWhatTheySaw
<1> DEFINE Builds ==
      \A v \in DOMAIN versions' \ DOMAIN versions, q \in Requests :
         HoldsRow(q) /\ Commits(q, v) => StillAsRead(q) /\ FollowsCurrent(q, v)
<1>1. ASSUME MemoryInv, NEW q \in Requests, req[q].at = "locked", req'[q] = Idle,
             NEW v \in DOMAIN versions' \ DOMAIN versions, [MemoryNext]_memoryVars
      PROVE  EditEnds(q)
  <2>1. req[q] # Idle
    BY <1>1 DEF Idle
  <2>2. req \in [Requests -> Request] /\ req'[q] # req[q]
    BY <1>1, <2>1 DEF MemoryInv, RowsTyped
  <2>3. ~UNCHANGED versions
    BY <1>1
  <2>4. ~AdminCreates /\ ~AdminRedacts /\ ~MemoryReads /\ ~UNCHANGED memoryVars
    BY <2>2, <2>3 DEF AdminCreates, AdminRedacts, MemoryReads, AgentReads, RetrieveForTurn,
                      memoryVars
  <2>5. PICK p \in Requests :
           EditEnds(p) \/ AbsentCreated(p) \/ RememberUpdates(p) \/ DeleteRecords(p)
    BY <1>1, <2>3, <2>4 DEF MemoryNext, MemoryWrites, AdminUpdates, AgentPatches, PatchReads,
          AgentRemembers, FindExisting, Seeds, AdminDeletes, DeleteSaves, AdminReadsStore,
          AdminSavesStore, RequestDies
  <2>6. p = q
    BY <2>2, <2>5 DEF EditEnds, AbsentCreated, RememberUpdates, DeleteRecords, Finish, Reaches
  <2>7. ~AbsentCreated(q) /\ ~RememberUpdates(q) /\ ~DeleteRecords(q)
    BY <1>1 DEF AbsentCreated, RememberUpdates, DeleteRecords
  <2> QED  BY <2>5, <2>6, <2>7
<1>2. ASSUME MemoryInv, NEW q \in Requests, EditEnds(q),
             NEW v \in DOMAIN versions' \ DOMAIN versions
      PROVE  StillAsRead(q) /\ FollowsCurrent(q, v)
  <2> SUFFICES ASSUME NEW d, d = req[q].doc, NEW row, row = req[q].row, NEW op, op = req[q].op
               PROVE  /\ Live(d) /\ documents[d].content = row.content
                      /\ versions'[v].previous = documents[d].current
    BY DEF StillAsRead, FollowsCurrent
  <2>1. req[q] \in Edits /\ RequestHolds(q, req[q]) /\ req[q].at = "locked"
    BY <1>2, Shapes DEF EditEnds, MemoryInv, RowsTyped, RequestsHold
  <2>2. /\ d \in Nat /\ row \in Document /\ row.current \in Nat /\ op \in {"update", "patch"}
        /\ ~row.deleted /\ documents[d] = row
    BY <2>1 DEF RequestHolds, Edits, Document
  <2>3. PICK content \in Contents : AddVersion(d, op, content, row.current)
    BY <1>2 DEF EditEnds
  <2>4. /\ DOMAIN versions' \ DOMAIN versions = {Len(versions) + 1}
        /\ versions'[Len(versions) + 1] = Version(d, op, content, row.current)
    BY <1>2, <2>2, <2>3, AddedVersion DEF MemoryInv
  <2>5. versions'[v].previous = row.current
    BY <1>2, <2>4 DEF Version
  <2> QED  BY <2>2, <2>5 DEF Live
<1>3. MemoryInv /\ [MemoryNext]_memoryVars => [Builds]_memoryVars
  BY <1>1, <1>2 DEF HoldsRow, Commits
<1> QED  BY <1>3, MemoryInvariant, PTL DEF MemorySpec, LockedEditsReplaceWhatTheySaw
=============================================================================
