------------------------------ MODULE Accounts ------------------------------
(***************************************************************************)
(* Users, team members and refresh tokens: the auth and team endpoints.    *)
(* A request reads a row in one step and saves it in another; Tortoise's   *)
(* save() without update_fields writes every column of the copy.  Tokens   *)
(* are saved by column, and rotated in a transaction.                      *)
(***************************************************************************)
EXTENDS Naturals, Sequences

CONSTANTS
    Emails,         \* a user is known by the e-mail address
    Admins,         \* users of the deployment when it starts: administrators,
    Members,        \* and others
    Clients,        \* requests that may be in flight at a time
    MaxTokens       \* bound on the refresh tokens

ASSUME AccountConstants ==
    /\ Admins \subseteq Emails
    /\ Members \subseteq Emails \ Admins
    /\ MaxTokens \in Nat

VARIABLES
    users,          \* users[e]: the row of e, or NoUserRow
    tokens,         \* rows of refresh_tokens; session: the login it comes from
    call,           \* call[c]: the request of c, with the copies it read
    loggedOut,      \* sessions a client has logged out of
    registered      \* a registration has been answered while there were no users

accountVars == <<users, tokens, call, loggedOut, registered>>

\* admin: role "admin" or is_superuser.
UserRow(active, admin) == [known |-> TRUE, active |-> active, admin |-> admin]
NoUserRow == [known |-> FALSE, active |-> FALSE, admin |-> FALSE]

NoCall == [op |-> "none"]

TokenIds == DOMAIN tokens

AccountInit ==
    /\ users = [e \in Emails |-> IF e \in Admins \cup Members
                                   THEN UserRow(TRUE, e \in Admins) ELSE NoUserRow]
    /\ tokens = <<>>
    /\ call = [c \in Clients |-> NoCall]
    /\ loggedOut = {}
    /\ registered = FALSE

Begins(c, request) == call[c] = NoCall /\ call' = [call EXCEPT ![c] = request]

Ends(c) == call' = [call EXCEPT ![c] = NoCall]

-----------------------------------------------------------------------------
(* Accounts *)

\* The user or an exception, never None.
GetByEmail(e) == IF users[e].known THEN "user" ELSE "UserNotExists"

NoUsers == \A e \in Emails : ~users[e].known

\* create() expects None for a new e-mail, and inserts the row, the first one an
\* administrator; it refuses a user, and lets UserNotExists pass.
Register ==
    /\ \E e \in Emails :
          users' = IF GetByEmail(e) = "None"
                     THEN [users EXCEPT ![e] = UserRow(TRUE, NoUsers)] ELSE users
    /\ registered' = (registered \/ NoUsers)
    /\ UNCHANGED <<tokens, call, loggedOut>>

\* An administrator names a member: a role, a removal, or an invitation.
MemberReads(c) ==
    /\ \E admin, e \in Emails, op \in {"role", "remove", "add"} :
          /\ users[admin].active /\ users[admin].admin
          /\ CASE op = "role" -> users[e].known
               [] op = "remove" -> users[e].known /\ e # admin
               [] op = "add" -> ~users[e].active
          /\ Begins(c, [op |-> op, email |-> e, row |-> users[e]])
    /\ UNCHANGED <<users, tokens, loggedOut, registered>>

\* Users change their own profile or password.
ProfileReads(c) ==
    /\ \E e \in Emails :
          /\ users[e].active
          /\ Begins(c, [op |-> "profile", email |-> e, row |-> users[e]])
    /\ UNCHANGED <<users, tokens, loggedOut, registered>>

\* What each handler sets in its copy; UserUpdate has a role and is_active too.
Changed(op, row, admin, active) ==
    CASE op = "role" -> [row EXCEPT !.admin = admin]
      [] op = "remove" -> [row EXCEPT !.active = FALSE]
      [] op = "add" -> UserRow(TRUE, admin)
      [] op = "profile" -> [row EXCEPT !.admin = admin, !.active = active]

\* An insert fails when the e-mail has been taken meanwhile.
UserSaved(c) ==
    LET e == call[c].email
        row == call[c].row
    IN  /\ call[c].op \in {"role", "remove", "add", "profile"}
        /\ IF users[e].known /\ ~row.known
             THEN UNCHANGED users
             ELSE \E admin, active \in BOOLEAN :
                     users' = [users EXCEPT ![e] = Changed(call[c].op, row, admin, active)]
        /\ Ends(c)
        /\ UNCHANGED <<tokens, loggedOut, registered>>

-----------------------------------------------------------------------------
(* Refresh tokens *)

NewToken(e, session, replaced) ==
    [user |-> e, session |-> session, replaces |-> replaced, revoked |-> FALSE]

RoomForToken == Len(tokens) < MaxTokens

IssueReads(c) ==
    /\ \E e \in Emails :
          /\ users[e].active
          /\ Begins(c, [op |-> "issue", email |-> e])
    /\ UNCHANGED <<users, tokens, loggedOut, registered>>

TokenIssued(c) ==
    /\ call[c].op = "issue"
    /\ RoomForToken
    /\ tokens' = Append(tokens, NewToken(call[c].email, Len(tokens) + 1, 0))
    /\ Ends(c)
    /\ UNCHANGED <<users, loggedOut, registered>>

ValidRefreshToken(t) == ~tokens[t].revoked /\ users[tokens[t].user].active

\* An invalid token is answered with 401; an expired one is no longer read here.
RefreshReads(c) ==
    /\ \E t \in TokenIds :
          /\ ValidRefreshToken(t)
          /\ Begins(c, [op |-> "refresh", token |-> t])
    /\ UNCHANGED <<users, tokens, loggedOut, registered>>

Revoked(t) == [tokens EXCEPT ![t].revoked = TRUE]

\* Mutant: no transaction, a failed insert leaves the old token revoked.
RotationInTwo(t, inserted) ==
    IF inserted
      THEN Append(Revoked(t), NewToken(tokens[t].user, tokens[t].session, t))
      ELSE Revoked(t)

\* The copy of the user in the request was active, so create_refresh_token
\* raises only when the insert itself fails.
Rotation(t, inserted) ==
    IF inserted
      THEN Append(Revoked(t), NewToken(tokens[t].user, tokens[t].session, t))
      ELSE tokens

Rotates(c) ==
    /\ call[c].op = "refresh"
    /\ \E inserted \in BOOLEAN :
          /\ inserted => RoomForToken
          /\ tokens' = Rotation(call[c].token, inserted)
    /\ Ends(c)
    /\ UNCHANGED <<users, loggedOut, registered>>

Logout ==
    /\ \E t \in TokenIds :
          /\ tokens' = Revoked(t)
          /\ loggedOut' = loggedOut \cup {tokens[t].session}
    /\ UNCHANGED <<users, call, registered>>

AccountNext ==
    \/ Register
    \/ Logout
    \/ \E c \in Clients :
          \/ MemberReads(c)
          \/ ProfileReads(c)
          \/ UserSaved(c)
          \/ IssueReads(c)
          \/ TokenIssued(c)
          \/ RefreshReads(c)
          \/ Rotates(c)

AccountSpec == AccountInit /\ [][AccountNext]_accountVars

-----------------------------------------------------------------------------
(* Properties *)

\* Refreshing never costs a session: however refreshes of one token overlap
\* and fail, a session nobody logged out of has a token that is not revoked, and
\* a token that was issued by a rotation replaces one of the same user that is
\* (rotate_refresh_token revokes and issues in one transaction).
RotationKeepsSession ==
    /\ \A t \in TokenIds : tokens[t].session \notin loggedOut =>
          \E live \in TokenIds : tokens[live].session = tokens[t].session /\ ~tokens[live].revoked
    /\ \A t \in TokenIds : tokens[t].replaces # 0 =>
          /\ tokens[tokens[t].replaces].revoked
          /\ tokens[tokens[t].replaces].user = tokens[t].user

\* "first user becomes admin" (engine/README.md:58): once a registration has been
\* answered where there were no users, there is an administrator (UserManager.create).
FirstUserBecomesAdmin ==
    registered => \E e \in Emails : users[e].known /\ users[e].admin
=============================================================================
