---------------------------- MODULE AccountsProofs ----------------------------
(***************************************************************************)
(* Rotating refresh tokens keeps a session, for every set of users and     *)
(* clients and any number of tokens.                                       *)
(***************************************************************************)
EXTENDS Accounts, TLAPS

Token == [user : Emails, session : Nat, replaces : Nat, revoked : BOOLEAN]

\* Type invariant of the tokens and of the requests that handle them.
TokensTyped ==
    /\ tokens \in Seq(Token)
    /\ call = [c \in Clients |-> call[c]]
    /\ \A c \in Clients :
          /\ call[c].op = "issue" => call[c].email \in Emails
          /\ call[c].op = "refresh" => call[c].token \in TokenIds

\* A rotated token refers to an older one.
ReplacesOlder == \A t \in TokenIds : tokens[t].replaces \in 0..Len(tokens)

AccountInv == TokensTyped /\ ReplacesOlder /\ RotationKeepsSession

-----------------------------------------------------------------------------

\* What a client begins: nothing that touches a token changes.
LEMMA BeginsInv ==
    ASSUME AccountInv, NEW c \in Clients, NEW request, Begins(c, request),
           request.op = "issue" => request.email \in Emails,
           request.op = "refresh" => request.token \in TokenIds,
           UNCHANGED <<tokens, loggedOut>>
    PROVE  AccountInv'
<1>1. TokensTyped'
  <2>1. call' = [call EXCEPT ![c] = request]
    BY DEF Begins
  <2> QED BY <2>1 DEF AccountInv, TokensTyped, TokenIds
<1> QED BY <1>1 DEF AccountInv, ReplacesOlder, RotationKeepsSession, TokenIds

\* A request that ends without a token.
LEMMA EndsInv ==
    ASSUME AccountInv, NEW c \in Clients, Ends(c), UNCHANGED <<tokens, loggedOut>>
    PROVE  AccountInv'
<1>1. TokensTyped'
  <2>1. call' = [call EXCEPT ![c] = NoCall]
    BY DEF Ends
  <2> QED BY <2>1 DEF AccountInv, TokensTyped, TokenIds, NoCall
<1> QED BY <1>1 DEF AccountInv, ReplacesOlder, RotationKeepsSession, TokenIds

\* A login adds a session with a token of its own.
LEMMA TokenIssuedInv ==
    ASSUME AccountInv, NEW c \in Clients, TokenIssued(c)
    PROVE  AccountInv'
<1> DEFINE new == NewToken(call[c].email, Len(tokens) + 1, 0)
<1>1. /\ new \in Token
      /\ new.session = Len(tokens) + 1 /\ new.replaces = 0 /\ ~new.revoked
  BY DEF AccountInv, TokensTyped, TokenIssued, NewToken, Token
<1>2. tokens' = Append(tokens, new) /\ UNCHANGED loggedOut
  BY DEF TokenIssued
<1> HIDE DEF new
<1>3. tokens \in Seq(Token)
  BY DEF AccountInv, TokensTyped
<1>4. /\ tokens' \in Seq(Token)
      /\ Len(tokens') = Len(tokens) + 1
      /\ DOMAIN tokens = 1..Len(tokens)
      /\ DOMAIN tokens' = 1..Len(tokens) + 1
      /\ \A t \in 1..Len(tokens) : tokens'[t] = tokens[t]
      /\ tokens'[Len(tokens) + 1] = new
  BY <1>1, <1>2, <1>3
<1>5. TokensTyped'
  <2>1. call' = [call EXCEPT ![c] = NoCall]
    BY DEF TokenIssued, Ends
  <2> QED BY <1>4, <2>1 DEF AccountInv, TokensTyped, TokenIds, NoCall
<1>6. ReplacesOlder'
  BY <1>1, <1>3, <1>4 DEF AccountInv, ReplacesOlder, TokenIds
<1>7. RotationKeepsSession'
  <2> DEFINE ids == 1..Len(tokens)
             last == Len(tokens) + 1
  <2>1. /\ TokenIds = ids /\ TokenIds' = 1..last
        /\ Len(tokens) \in Nat /\ ids \subseteq 1..last /\ last \in 1..last /\ 0 \notin ids
        /\ \A t \in 1..last : t \in ids \/ t = last
        /\ \A t \in ids : tokens'[t] = tokens[t]
        /\ tokens'[last] = new
    BY <1>3, <1>4 DEF TokenIds
  <2>2. \A t \in ids : tokens[t].replaces # 0 => tokens[t].replaces \in ids
    BY <2>1 DEF AccountInv, ReplacesOlder
  <2> HIDE DEF ids, last
  <2>3. ASSUME NEW t \in TokenIds', tokens'[t].session \notin loggedOut'
        PROVE  \E live \in TokenIds' :
                  tokens'[live].session = tokens'[t].session /\ ~tokens'[live].revoked
    <3>1. CASE t = last
      BY <1>1, <2>1, <3>1
    <3>2. CASE t \in ids
      <4>1. PICK live \in ids : tokens[live].session = tokens[t].session /\ ~tokens[live].revoked
        BY <1>2, <2>1, <2>3, <3>2 DEF AccountInv, RotationKeepsSession
      <4> QED BY <2>1, <3>2, <4>1
    <3> QED BY <2>1, <3>1, <3>2
  <2>4. ASSUME NEW t \in TokenIds', tokens'[t].replaces # 0
        PROVE  /\ tokens'[tokens'[t].replaces].revoked
               /\ tokens'[tokens'[t].replaces].user = tokens'[t].user
    <3>1. t \in ids
      BY <1>1, <2>1, <2>4
    <3>2. tokens[t].replaces \in ids /\ tokens[t].replaces # 0
      BY <2>1, <2>2, <2>4, <3>1
    <3>3. /\ tokens[tokens[t].replaces].revoked
          /\ tokens[tokens[t].replaces].user = tokens[t].user
      BY <2>1, <3>1, <3>2 DEF AccountInv, RotationKeepsSession
    <3>4. /\ tokens'[t] = tokens[t]
          /\ tokens'[tokens[t].replaces] = tokens[tokens[t].replaces]
      BY <2>1, <3>1, <3>2
    <3> QED BY <3>3, <3>4
  <2> QED BY <2>3, <2>4 DEF RotationKeepsSession
<1> QED BY <1>5, <1>6, <1>7 DEF AccountInv

\* Revoking a token changes that mark of that token and nothing else.
LEMMA RevokedToken ==
    ASSUME tokens \in Seq(Token), NEW t \in TokenIds
    PROVE  /\ Revoked(t) \in Seq(Token)
           /\ Len(Revoked(t)) = Len(tokens)
           /\ Revoked(t)[t].revoked
           /\ \A u \in TokenIds :
                 /\ Revoked(t)[u].user = tokens[u].user
                 /\ Revoked(t)[u].session = tokens[u].session
                 /\ Revoked(t)[u].replaces = tokens[u].replaces
                 /\ u # t => Revoked(t)[u] = tokens[u]
                 /\ tokens[u].revoked => Revoked(t)[u].revoked
<1> DEFINE marked == [tokens[t] EXCEPT !.revoked = TRUE]
<1>1. /\ marked \in Token /\ marked.revoked
      /\ marked.user = tokens[t].user
      /\ marked.session = tokens[t].session
      /\ marked.replaces = tokens[t].replaces
  <2>1. tokens[t] \in Token
    BY DEF TokenIds
  <2> DEFINE row == tokens[t]
  <2> HIDE DEF row
  <2>2. row \in Token => /\ [row EXCEPT !.revoked = TRUE] \in Token
                         /\ [row EXCEPT !.revoked = TRUE].revoked
                         /\ [row EXCEPT !.revoked = TRUE].user = row.user
                         /\ [row EXCEPT !.revoked = TRUE].session = row.session
                         /\ [row EXCEPT !.revoked = TRUE].replaces = row.replaces
    BY DEF Token
  <2> QED BY <2>1, <2>2 DEF row
<1>2. Revoked(t) = [tokens EXCEPT ![t] = marked]
  BY DEF Revoked
<1> HIDE DEF marked
<1> QED BY <1>1, <1>2 DEF TokenIds

\* A rotation revokes the token and adds one for the same session, or does neither.
LEMMA RotatesInv ==
    ASSUME AccountInv, NEW c \in Clients, Rotates(c)
    PROVE  AccountInv'
<1> DEFINE t == call[c].token
           old == Revoked(t)
           new == NewToken(tokens[t].user, tokens[t].session, t)
<1>1. t \in TokenIds /\ tokens \in Seq(Token)
  BY DEF AccountInv, TokensTyped, Rotates
<1>2. Ends(c) /\ UNCHANGED loggedOut
  BY DEF Rotates
<1>3. CASE UNCHANGED tokens
  BY <1>2, <1>3, EndsInv
<1>4. CASE tokens' = Append(old, new)
  <2>1. /\ new \in Token
        /\ new.user = tokens[t].user /\ new.session = tokens[t].session
        /\ new.replaces = t /\ ~new.revoked
    <3>1. tokens[t] \in Token /\ t \in Nat
      BY <1>1 DEF TokenIds
    <3>2. tokens[t].user \in Emails /\ tokens[t].session \in Nat
      BY <3>1 DEF Token
    <3> HIDE DEF t
    <3> QED BY <3>1, <3>2 DEF NewToken, Token
  <2>2. /\ old \in Seq(Token)
        /\ Len(old) = Len(tokens)
        /\ old[t].revoked
        /\ \A u \in TokenIds :
              /\ old[u].user = tokens[u].user
              /\ old[u].session = tokens[u].session
              /\ old[u].replaces = tokens[u].replaces
              /\ u # t => old[u] = tokens[u]
              /\ tokens[u].revoked => old[u].revoked
    BY <1>1, RevokedToken
  <2> HIDE DEF new, old, t
  <2>3. /\ tokens' \in Seq(Token)
        /\ Len(tokens') = Len(tokens) + 1
        /\ TokenIds = 1..Len(tokens)
        /\ TokenIds' = 1..Len(tokens) + 1
        /\ \A u \in 1..Len(tokens) : tokens'[u] = old[u]
        /\ tokens'[Len(tokens) + 1] = new
    BY <1>1, <1>4, <2>1, <2>2 DEF TokenIds
  <2>4. TokensTyped'
    <3>1. call' = [call EXCEPT ![c] = NoCall]
      BY <1>2 DEF Ends
    <3>2. TokenIds \subseteq TokenIds'
      BY <1>1, <2>3
    <3>3. /\ call' = [d \in Clients |-> call'[d]]
          /\ \A d \in Clients : call'[d] = call[d] \/ call'[d].op = "none"
      BY <3>1 DEF AccountInv, TokensTyped, NoCall
    <3>4. \A d \in Clients :
             /\ call'[d].op = "issue" => call'[d].email \in Emails
             /\ call'[d].op = "refresh" => call'[d].token \in TokenIds'
      BY <3>2, <3>3 DEF AccountInv, TokensTyped
    <3> QED BY <2>3, <3>3, <3>4 DEF TokensTyped
  <2>5. ReplacesOlder'
    <3>1. /\ Len(tokens) \in Nat
          /\ \A u \in 1..Len(tokens) : tokens[u].replaces \in 0..Len(tokens)
      BY <1>1, <2>3 DEF AccountInv, ReplacesOlder
    <3>2. t \in 1..Len(tokens)
      BY <1>1, <2>3
    <3>3. ASSUME NEW u \in 1..Len(tokens) PROVE tokens'[u].replaces = tokens[u].replaces
      BY <2>2, <2>3
    <3>4. ASSUME NEW u \in 1..Len(tokens) + 1
          PROVE  tokens'[u].replaces \in 0..Len(tokens) + 1
      <4>1. CASE u \in 1..Len(tokens)
        BY <3>1, <3>3, <4>1
      <4>2. CASE u = Len(tokens) + 1
        BY <2>1, <2>3, <3>1, <3>2, <4>2
      <4> QED BY <3>1, <4>1, <4>2
    <3> QED BY <2>3, <3>4 DEF ReplacesOlder
  <2>6. RotationKeepsSession'
    <3>1. \A u \in TokenIds' : tokens'[u].session \notin loggedOut' =>
            \E live \in TokenIds' :
               tokens'[live].session = tokens'[u].session /\ ~tokens'[live].revoked
      <4> SUFFICES ASSUME NEW u \in TokenIds', tokens'[u].session \notin loggedOut'
                   PROVE  \E live \in TokenIds' :
                             /\ tokens'[live].session = tokens'[u].session
                             /\ ~tokens'[live].revoked
        OBVIOUS
      <4>1. CASE tokens'[u].session = tokens[t].session
        <5>1. Len(tokens) + 1 \in TokenIds'
          BY <1>1, <2>3
        <5> QED BY <4>1, <5>1, <2>1, <2>3
      <4>2. CASE tokens'[u].session # tokens[t].session
        <5>1. u \in TokenIds
          BY <4>2, <1>1, <2>1, <2>3
        <5>2. tokens'[u].session = tokens[u].session
          BY <5>1, <2>2, <2>3
        <5>3. PICK live \in TokenIds :
                tokens[live].session = tokens[u].session /\ ~tokens[live].revoked
          BY <1>2, <5>1, <5>2 DEF AccountInv, RotationKeepsSession
        <5>4. live # t /\ tokens'[live] = tokens[live] /\ live \in TokenIds'
          BY <1>1, <2>2, <2>3, <4>2, <5>2, <5>3
        <5> QED BY <5>2, <5>3, <5>4
      <4> QED BY <4>1, <4>2
    <3>2. \A u \in TokenIds' : tokens'[u].replaces # 0 =>
            /\ tokens'[tokens'[u].replaces].revoked
            /\ tokens'[tokens'[u].replaces].user = tokens'[u].user
      <4> SUFFICES ASSUME NEW u \in TokenIds', tokens'[u].replaces # 0
                   PROVE  /\ tokens'[tokens'[u].replaces].revoked
                          /\ tokens'[tokens'[u].replaces].user = tokens'[u].user
        OBVIOUS
      <4>1. CASE u = Len(tokens) + 1
        BY <4>1, <1>1, <2>1, <2>2, <2>3
      <4>2. CASE u \in TokenIds
        <5>1. tokens'[u].replaces = tokens[u].replaces /\ tokens'[u].user = tokens[u].user
          BY <4>2, <2>2, <2>3
        <5>2. tokens[u].replaces \in TokenIds
          BY <4>2, <5>1, <1>1, <2>3 DEF AccountInv, ReplacesOlder
        <5>3. /\ tokens[tokens[u].replaces].revoked
              /\ tokens[tokens[u].replaces].user = tokens[u].user
          BY <4>2, <5>1 DEF AccountInv, RotationKeepsSession
        <5> QED BY <5>1, <5>2, <5>3, <2>2, <2>3
      <4> QED BY <4>1, <4>2, <1>1, <2>3
    <3> QED BY <3>1, <3>2 DEF RotationKeepsSession
  <2> QED BY <2>4, <2>5, <2>6 DEF AccountInv
<1> QED BY <1>3, <1>4 DEF Rotates, Rotation

\* Logging out revokes a token of a session that then no longer counts.
LEMMA LogoutInv ==
    ASSUME AccountInv, Logout
    PROVE  AccountInv'
<1>1. PICK t \in TokenIds : tokens' = Revoked(t)
                          /\ loggedOut' = loggedOut \cup {tokens[t].session}
  BY DEF Logout
<1>2. tokens \in Seq(Token) /\ UNCHANGED call
  BY DEF AccountInv, TokensTyped, Logout
<1>3. /\ tokens' \in Seq(Token)
      /\ TokenIds' = TokenIds /\ Len(tokens') = Len(tokens)
      /\ \A u \in TokenIds :
            /\ tokens'[u].user = tokens[u].user
            /\ tokens'[u].session = tokens[u].session
            /\ tokens'[u].replaces = tokens[u].replaces
            /\ u # t => tokens'[u] = tokens[u]
            /\ tokens[u].revoked => tokens'[u].revoked
  BY <1>1, <1>2, RevokedToken DEF TokenIds
<1>4. TokensTyped' /\ ReplacesOlder'
  BY <1>2, <1>3 DEF AccountInv, TokensTyped, ReplacesOlder
<1>5. RotationKeepsSession'
  <2>1. ASSUME NEW u \in TokenIds', tokens'[u].session \notin loggedOut'
        PROVE  \E live \in TokenIds' :
                  tokens'[live].session = tokens'[u].session /\ ~tokens'[live].revoked
    <3>1. /\ u \in TokenIds /\ tokens'[u].session = tokens[u].session
          /\ tokens[u].session \notin loggedOut /\ tokens[u].session # tokens[t].session
      BY <1>1, <1>3, <2>1
    <3>2. PICK live \in TokenIds :
            tokens[live].session = tokens[u].session /\ ~tokens[live].revoked
      BY <3>1 DEF AccountInv, RotationKeepsSession
    <3> QED BY <1>3, <3>1, <3>2
  <2>2. ASSUME NEW u \in TokenIds', tokens'[u].replaces # 0
        PROVE  /\ tokens'[tokens'[u].replaces].revoked
               /\ tokens'[tokens'[u].replaces].user = tokens'[u].user
    <3>1. u \in TokenIds /\ tokens[u].replaces # 0
      BY <1>3, <2>2
    <3>2. tokens[u].replaces \in TokenIds
      BY <1>2, <3>1 DEF AccountInv, ReplacesOlder, TokenIds
    <3> QED BY <1>3, <3>1, <3>2 DEF AccountInv, RotationKeepsSession
  <2> QED BY <2>1, <2>2 DEF RotationKeepsSession
<1> QED BY <1>4, <1>5 DEF AccountInv

-----------------------------------------------------------------------------

\* A deployment starts without tokens and without requests.
LEMMA AccountInitInv == AccountInit => AccountInv
  BY DEF AccountInit, AccountInv, TokensTyped, ReplacesOlder, RotationKeepsSession,
         TokenIds, NoCall

\* Every request keeps the invariant.
LEMMA AccountNextInv == AccountInv /\ [AccountNext]_accountVars => AccountInv'
<1> SUFFICES ASSUME AccountInv, [AccountNext]_accountVars PROVE AccountInv'
  OBVIOUS
<1> DEFINE Kept == UNCHANGED <<tokens, loggedOut, call>>
<1>1. ASSUME Kept PROVE AccountInv'
  BY <1>1 DEF AccountInv, TokensTyped, ReplacesOlder, RotationKeepsSession, TokenIds
<1>2. CASE Register
  BY <1>1, <1>2 DEF Register
<1>3. CASE Logout
  BY <1>3, LogoutInv
<1>4. ASSUME NEW c \in Clients, MemberReads(c) PROVE AccountInv'
  <2>1. PICK e \in Emails, op \in {"role", "remove", "add"} :
          Begins(c, [op |-> op, email |-> e, row |-> users[e]])
    BY <1>4 DEF MemberReads
  <2> QED BY <1>4, <2>1, BeginsInv DEF MemberReads
<1>5. ASSUME NEW c \in Clients, ProfileReads(c) PROVE AccountInv'
  <2>1. PICK e \in Emails : Begins(c, [op |-> "profile", email |-> e, row |-> users[e]])
    BY <1>5 DEF ProfileReads
  <2> QED BY <1>5, <2>1, BeginsInv DEF ProfileReads
<1>6. ASSUME NEW c \in Clients, UserSaved(c) PROVE AccountInv'
  BY <1>6, EndsInv DEF UserSaved
<1>7. ASSUME NEW c \in Clients, IssueReads(c) PROVE AccountInv'
  <2>1. PICK e \in Emails : Begins(c, [op |-> "issue", email |-> e])
    BY <1>7 DEF IssueReads
  <2> QED BY <1>7, <2>1, BeginsInv DEF IssueReads
<1>8. ASSUME NEW c \in Clients, TokenIssued(c) PROVE AccountInv'
  BY <1>8, TokenIssuedInv
<1>9. ASSUME NEW c \in Clients, RefreshReads(c) PROVE AccountInv'
  <2>1. PICK t \in TokenIds : Begins(c, [op |-> "refresh", token |-> t])
    BY <1>9 DEF RefreshReads
  <2> QED BY <1>9, <2>1, BeginsInv DEF RefreshReads
<1>10. ASSUME NEW c \in Clients, Rotates(c) PROVE AccountInv'
  BY <1>10, RotatesInv
<1>11. CASE UNCHANGED accountVars
  BY <1>1, <1>11 DEF accountVars
<1> QED
  BY <1>2, <1>3, <1>4, <1>5, <1>6, <1>7, <1>8, <1>9, <1>10, <1>11 DEF AccountNext

\* However refreshes, logins, logouts and changes of members overlap and fail, a
\* session nobody logged out of keeps a token that is not revoked, and a token
\* issued by a rotation replaces a revoked one of the same user
\* (rotate_refresh_token).
THEOREM SessionsSurviveRotation == AccountSpec => []RotationKeepsSession
<1>1. AccountInv => RotationKeepsSession
  BY DEF AccountInv
<1> QED BY <1>1, AccountInitInv, AccountNextInv, PTL DEF AccountSpec
=============================================================================
