----------------------------- MODULE MemoryDocs -----------------------------
(***************************************************************************)
(* The documents of the memory system and their versions: the admin        *)
(* endpoints, the tools of the agent (remember, patch, read), the          *)
(* retrieval before a model turn, and the requests that are in flight at   *)
(* the same time, each with its own copy of the row it read.               *)
(*                                                                         *)
(* update_document and patch_document hold the lock of the row from        *)
(* reading it to the commit; a version, which refers to the row, waits for *)
(* that lock too.  agent_remember, delete_document and the store endpoints *)
(* read without a lock and write their whole copy back.                    *)
(* A content stands for its SHA-256.  What a request sends is chosen where *)
(* the request first depends on it.                                        *)
(***************************************************************************)
EXTENDS Naturals, Sequences, FiniteSets

CONSTANTS
    Requests,       \* requests that may be in flight at a time
    Stores,         \* memory stores
    StoreRows,      \* what rows of memory_stores may be
    Users,          \* the users of conversations
    NoUser,         \* a conversation without a user
    Contents,       \* what documents say
    Secrets,        \* contents the scanner finds a critical secret in
    Phrases,        \* contents with a phrase of prompt injection
    MaxDocuments,   \* bound on the documents
    MaxVersions,    \* bound on the versions
    MaxRedactions   \* bound on the redacted versions

ASSUME MemoryConstants ==
    /\ StoreRows \subseteq [scope : {"workspace", "user", "conversation"},
                            owner : Users \cup {NoUser}, seeded : BOOLEAN, archived : BOOLEAN]
    /\ NoUser \notin Users
    /\ Secrets \cup Phrases \subseteq Contents
    /\ {MaxDocuments, MaxVersions, MaxRedactions} \subseteq Nat

VARIABLES
    documents,      \* rows of memory_documents
    versions,       \* rows of memory_versions
    stores,         \* rows of memory_stores; seeded: workspace_conventions, which
                    \* is public; archived: archived_at is set
    rowLock,        \* rowLock[d]: the request whose transaction holds row d
    req,            \* req[q]: the request in flight, its stage and its copies
    given           \* what the last step gave to the model, and the version recorded

memoryVars == <<documents, versions, stores, rowLock, req, given>>

NoContent == "none"     \* SQL NULL, and an expected_sha256 that was not sent
NoRequest == "nobody"

ASSUME NobodyIsNoRequest == NoRequest \notin Requests

Idle == [op |-> "none", at |-> "idle"]
NoUse == [version |-> 0, content |-> NoContent]

DocumentIds == DOMAIN documents
Live(d) == ~documents[d].deleted

-----------------------------------------------------------------------------
(* Access policy and safety scanner *)

OwnStore(user, s) == stores[s].owner \in {NoUser, user}

ResolveRead(user, s) ==
    /\ ~stores[s].archived
    /\ user # NoUser \/ stores[s].seeded
    /\ stores[s].scope = "user" => OwnStore(user, s)

\* Workspace stores are never written by the agent, user stores only with preferences.
ResolveWrite(user, s, preference) ==
    /\ ~stores[s].archived
    /\ user # NoUser
    /\ \/ stores[s].scope = "conversation"
       \/ stores[s].scope = "user" /\ OwnStore(user, s) /\ preference

ScanAllows(content, s) ==
    /\ content \notin Secrets
    /\ content \in Phrases => stores[s].scope = "conversation"

-----------------------------------------------------------------------------
(* Rows *)

Version(d, operation, content, previous) ==
    [document |-> d, operation |-> operation, content |-> content,
     previous |-> previous, redacted |-> FALSE]

RoomForVersion == Len(versions) < MaxVersions

AddVersion(d, operation, content, previous) ==
    /\ RoomForVersion
    /\ versions' = Append(versions, Version(d, operation, content, previous))

\* The unique index on the store and path of live documents; one path per store.
PathFree(s, except) ==
    \A d \in DocumentIds \ {except} : documents[d].store = s => ~Live(d)

Unlocked(d) == rowLock[d] = NoRequest

Release(d) == rowLock' = [rowLock EXCEPT ![d] = NoRequest]

Finish(q) == req' = [req EXCEPT ![q] = Idle]

Reaches(q, stage) == req' = [req EXCEPT ![q] = stage]

MemoryInit ==
    /\ documents = <<>>
    /\ versions = <<>>
    /\ stores \in [Stores -> StoreRows]
    /\ rowLock = <<>>
    /\ req = [q \in Requests |-> Idle]
    /\ given = NoUse

-----------------------------------------------------------------------------
(* Creating a document: row and version in one transaction *)

InsertDocument(s, content, status) ==
    /\ Len(documents) < MaxDocuments
    /\ PathFree(s, 0)
    /\ AddVersion(Len(documents) + 1, "create", content, 0)
    /\ documents' = Append(documents,
          [store |-> s, content |-> content, status |-> status, deleted |-> FALSE,
           current |-> Len(versions) + 1])
    /\ rowLock' = Append(rowLock, NoRequest)

AdminCreates ==
    /\ \E s \in Stores, content \in Contents, status \in {"active", "draft"} :
          InsertDocument(s, content, status)
    /\ UNCHANGED <<stores, req>>

-----------------------------------------------------------------------------
(* Edits that check the SHA: update_document and patch_document *)

\* Mutant: a plain read.
ReadOnly(q, op, d) ==
    /\ Live(d)
    /\ UNCHANGED rowLock
    /\ Reaches(q, [op |-> op, at |-> "locked", doc |-> d, row |-> documents[d]])

\* select_for_update: waits for the row, then reads it.
LockAndRead(q, op, d) ==
    /\ Unlocked(d)
    /\ Live(d)
    /\ rowLock' = [rowLock EXCEPT ![d] = q]
    /\ Reaches(q, [op |-> op, at |-> "locked", doc |-> d, row |-> documents[d]])

AdminUpdates(q) ==
    /\ req[q] = Idle
    /\ \E d \in DocumentIds : LockAndRead(q, "update", d)
    /\ UNCHANGED <<documents, versions, stores>>

\* agent_patch looks at the document, the policy and the content first.
AgentPatches(q) ==
    /\ req[q] = Idle
    /\ \E d \in DocumentIds, user \in Users \cup {NoUser}, preference \in BOOLEAN :
          /\ Live(d)
          /\ ResolveWrite(user, documents[d].store, preference)
          /\ Reaches(q, [op |-> "patch", at |-> "allowed", doc |-> d])
    /\ UNCHANGED <<documents, versions, stores, rowLock>>

PatchReads(q) ==
    /\ req[q].op = "patch"
    /\ req[q].at = "allowed"
    /\ \/ LockAndRead(q, "patch", req[q].doc)
       \/ /\ Unlocked(req[q].doc)
          /\ ~Live(req[q].doc)
          /\ Finish(q)
          /\ UNCHANGED rowLock
    /\ UNCHANGED <<documents, versions, stores>>

\* The copy that was read goes back whole, with the new version.
WriteBack(d, row) == documents' = [documents EXCEPT ![d] = row]

\* What the agent writes passes the scanner; an admin may change the status.
MayWrite(op, content, status, row) ==
    IF op = "patch" THEN ScanAllows(content, row.store) /\ status = row.status
                    ELSE status \in {row.status, "active", "draft"}

Edited(row, content, status) ==
    [row EXCEPT !.content = content, !.status = status, !.current = Len(versions) + 1]

\* The SHA the editor sent is that of the row, or it is a conflict.
EditEnds(q) ==
    LET d == req[q].doc
        row == req[q].row
    IN  /\ req[q].at = "locked"
        /\ \E expected, content \in Contents, status \in {row.status, "active", "draft"} :
              /\ MayWrite(req[q].op, content, status, row)
              /\ IF row.content = expected
                   THEN /\ AddVersion(d, req[q].op, content, row.current)
                        /\ WriteBack(d, Edited(row, content, status))
                   ELSE UNCHANGED <<documents, versions>>
        /\ Release(d)
        /\ Finish(q)
        /\ UNCHANGED stores

-----------------------------------------------------------------------------
(* agent_remember: create or update, read without a lock *)

AgentRemembers(q) ==
    /\ req[q] = Idle
    /\ \E s \in Stores, user \in Users \cup {NoUser}, preference \in BOOLEAN :
          /\ ResolveWrite(user, s, preference)
          /\ Reaches(q, [op |-> "remember", at |-> "allowed", store |-> s])
    /\ UNCHANGED <<documents, versions, stores, rowLock>>

\* Every start of the engine looks for the conventions it comes with.
Seeds(q) ==
    /\ req[q] = Idle
    /\ \E s \in Stores :
          /\ stores[s].seeded
          /\ \A d \in DocumentIds : documents[d].store = s => ~Live(d)
          /\ Reaches(q, [op |-> "seed", at |-> "absent", store |-> s])
    /\ UNCHANGED <<documents, versions, stores, rowLock>>

FindExisting(q) ==
    /\ req[q].op = "remember"
    /\ req[q].at = "allowed"
    /\ LET s == req[q].store
           found == {d \in DocumentIds : documents[d].store = s /\ Live(d)}
       IN  \/ found = {} /\ Reaches(q, [req[q] EXCEPT !.at = "absent"])
           \/ \E d \in found, expected \in Contents \cup {NoContent} :
                 IF expected \in {NoContent, documents[d].content}
                   THEN Reaches(q, [op |-> "remember", at |-> "found", doc |-> d,
                                    row |-> documents[d], named |-> expected # NoContent])
                   ELSE Finish(q)
    /\ UNCHANGED <<documents, versions, stores, rowLock>>

\* Also what a failed insert or update leaves: the transaction is rolled back.
AbsentCreated(q) ==
    /\ req[q].at = "absent"
    /\ \/ \E content \in Contents :
             /\ req[q].op = "remember" => ScanAllows(content, req[q].store)
             /\ InsertDocument(req[q].store, content, "active")
       \/ ~PathFree(req[q].store, 0) /\ UNCHANGED <<documents, versions, rowLock>>
    /\ Finish(q)
    /\ UNCHANGED stores

\* Mutant: only the changed columns are written, into the row as it is now.
RememberedColumns(d, row, content) ==
    [documents[d] EXCEPT !.content = content, !.current = Len(versions) + 1]

Remembered(d, row, content) == [row EXCEPT !.content = content, !.current = Len(versions) + 1]

RememberUpdates(q) ==
    LET d == req[q].doc
        row == req[q].row
    IN  /\ req[q].at = "found"
        /\ Unlocked(d)
        /\ \/ \E content \in Contents :
                 /\ ScanAllows(content, row.store)
                 /\ PathFree(row.store, d)
                 /\ AddVersion(d, "update", content, row.current)
                 /\ WriteBack(d, Remembered(d, row, content))
           \/ ~PathFree(row.store, d) /\ UNCHANGED <<documents, versions>>
        /\ Finish(q)
        /\ UNCHANGED <<stores, rowLock>>

-----------------------------------------------------------------------------
(* Deleting, redacting, stores *)

AdminDeletes(q) ==
    /\ req[q] = Idle
    /\ \E d \in DocumentIds :
          /\ Live(d)
          /\ Reaches(q, [op |-> "delete", at |-> "read", doc |-> d, row |-> documents[d]])
    /\ UNCHANGED <<documents, versions, stores, rowLock>>

Deleted(row) ==
    [row EXCEPT !.deleted = TRUE, !.status = "archived", !.current = Len(versions) + 1]

DeleteRecords(q) ==
    /\ req[q].op = "delete"
    /\ req[q].at = "read"
    /\ Unlocked(req[q].doc)
    /\ AddVersion(req[q].doc, "delete", NoContent, req[q].row.current)
    /\ Reaches(q, [req[q] EXCEPT !.at = "recorded", !.row = Deleted(@)])
    /\ UNCHANGED <<documents, stores, rowLock>>

DeleteSaves(q) ==
    /\ req[q].at = "recorded"
    /\ Unlocked(req[q].doc)
    /\ WriteBack(req[q].doc, req[q].row)
    /\ Finish(q)
    /\ UNCHANGED <<versions, stores, rowLock>>

AdminRedacts ==
    /\ Cardinality({v \in DOMAIN versions : versions[v].redacted}) < MaxRedactions
    /\ \E v \in DOMAIN versions :
          versions' = [versions EXCEPT ![v].redacted = TRUE, ![v].content = NoContent]
    /\ UNCHANGED <<documents, stores, rowLock, req>>

\* update_store and archive_store read the store and save all of it.
AdminReadsStore(q) ==
    /\ req[q] = Idle
    /\ \E s \in Stores, archives \in BOOLEAN :
          Reaches(q, [op |-> "store", at |-> "read", store |-> s,
                      row |-> [stores[s] EXCEPT !.archived = @ \/ archives]])
    /\ UNCHANGED <<documents, versions, stores, rowLock>>

AdminSavesStore(q) ==
    /\ req[q].op = "store"
    /\ stores' = [stores EXCEPT ![req[q].store] = req[q].row]
    /\ Finish(q)
    /\ UNCHANGED <<documents, versions, rowLock>>

-----------------------------------------------------------------------------
(* Reading *)

UseOf(d) == [version |-> documents[d].current, content |-> documents[d].content]

\* memory_read: any live document the policy lets the user read.
AgentReads ==
    /\ \E d \in DocumentIds, user \in Users \cup {NoUser} :
          /\ Live(d)
          /\ ResolveRead(user, documents[d].store)
          /\ given' = UseOf(d)
    /\ UNCHANGED <<documents, versions, stores, rowLock, req>>

\* get_accessible_store_ids: without a user the workspace stores only.
Searchable(user, s) ==
    /\ ~stores[s].archived
    /\ IF user = NoUser THEN stores[s].scope = "workspace" ELSE OwnStore(user, s)

\* One query finds live, active documents; the ranked ones that fit the budget
\* are injected, one of them is followed here.
RetrieveForTurn ==
    /\ \E d \in DocumentIds, user \in Users \cup {NoUser} :
          /\ Live(d)
          /\ documents[d].status = "active"
          /\ Searchable(user, documents[d].store)
          /\ given' = UseOf(d)
    /\ UNCHANGED <<documents, versions, stores, rowLock, req>>

\* A request may die anywhere; its transaction is rolled back.
RequestDies(q) ==
    /\ req[q] # Idle
    /\ Finish(q)
    /\ rowLock' = [d \in DocumentIds |-> IF rowLock[d] = q THEN NoRequest ELSE rowLock[d]]
    /\ UNCHANGED <<documents, versions, stores>>

MemoryReads == AgentReads \/ RetrieveForTurn

MemoryWrites ==
    \/ AdminCreates
    \/ AdminRedacts
    \/ \E q \in Requests :
          \/ AdminUpdates(q)
          \/ AgentPatches(q)
          \/ PatchReads(q)
          \/ EditEnds(q)
          \/ AgentRemembers(q)
          \/ FindExisting(q)
          \/ AbsentCreated(q)
          \/ Seeds(q)
          \/ RememberUpdates(q)
          \/ AdminDeletes(q)
          \/ DeleteRecords(q)
          \/ DeleteSaves(q)
          \/ AdminReadsStore(q)
          \/ AdminSavesStore(q)
          \/ RequestDies(q)

MemoryNext == MemoryReads \/ (MemoryWrites /\ given' = NoUse)

MemorySpec == MemoryInit /\ [][MemoryNext]_memoryVars

-----------------------------------------------------------------------------
(* Properties *)

Tells(v, content) == versions[v].redacted \/ versions[v].content = content

\* A document and its history agree, whoever wrote last from however old a copy:
\* the current version of a live document is one of its own, no deletion, and
\* says what the row says unless it was redacted; a deleted document ends with a
\* deletion.  What the model was given is what the recorded version says
\* (MemoryVersion, "write-ahead log entry for every memory document mutation").
HistoryTellsContent ==
    /\ \A d \in DocumentIds :
          LET v == documents[d].current
          IN  /\ v \in DOMAIN versions
              /\ versions[v].document = d
              /\ (versions[v].operation = "delete") = documents[d].deleted
              /\ Live(d) => Tells(v, documents[d].content)
    /\ given # NoUse => Tells(given.version, given.content)

Commits(q, v) == req'[q] = Idle /\ versions'[v].document = req[q].doc

\* The document is live and says what the request read.
StillAsRead(q) ==
    LET d == req[q].doc
    IN  Live(d) /\ documents[d].content = req[q].row.content

FollowsCurrent(q, v) == versions'[v].previous = documents[req[q].doc].current

HoldsRow(q) == req[q].at = "locked"
NamedSha(q) == HoldsRow(q) \/ (req[q].at = "found" /\ req[q].named)

\* An edit under the lock of the row replaces just what it was made from: at its
\* commit the document is live, holds the content whose SHA the editor sent, and is
\* the version the new one names as its predecessor (update_document,
\* patch_document: "Stale SHA -- document was modified since last read").
LockedEditsReplaceWhatTheySaw ==
    [][\A v \in DOMAIN versions' \ DOMAIN versions, q \in Requests :
          HoldsRow(q) /\ Commits(q, v) => StillAsRead(q) /\ FollowsCurrent(q, v)]_memoryVars

\* Every edit that names a SHA, agent_remember with expected_sha256 among them,
\* overwrites just the content with that SHA (service.py: "Optimistic concurrency";
\* the tool's description of expected_sha256: "Prevents silent overwrites when two
\* concurrent runs write the same path").  agent_remember compares without a lock and
\* saves its whole copy later, which refutes the property in a run of its own.
EditsBuildOnWhatTheyReplace ==
    [][\A v \in DOMAIN versions' \ DOMAIN versions, q \in Requests :
          NamedSha(q) /\ Commits(q, v) => StillAsRead(q)]_memoryVars
=============================================================================
