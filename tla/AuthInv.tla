------------------------------- MODULE AuthInv -------------------------------
(***************************************************************************)
(* What the accounts and their sessions promise, whatever requests overlap. *)
(***************************************************************************)
EXTENDS Auth

Secret == [of : Password \cup {Mangled}, salt : 0..MaxRand]
(* What is stored is a hash, never a password as typed. *)
StoredSecret == [of : Password \cup {Mangled}, salt : 1..MaxRand] \cup {Null}

UserRecord ==
  [state : {"none", "live", "removed"}, email : Email \cup {Null}, password : StoredSecret,
   profile : Profile \cup {Null}, provider : {"email", "google", Null},
   socialId : SocialId \cup {Null}, role : {"user", Null},
   status : {"active", "inactive", Null}]
SessionRecord ==
  [state : {"none", "live", "deleted"}, user : User \cup {Null}, hash : 0..MaxRand,
   under : StoredSecret]
(* What a dto says of each column; a password may be one as typed. *)
Dto ==
  [email : Email \cup {Null, Unset}, password : Secret \cup {Null, Unset},
   profile : Profile \cup {Null, Unset}, provider : {"email", "google", Null, Unset},
   socialId : SocialId \cup {Null, Unset}, role : {"user", Null, Unset},
   status : {"active", "inactive", Null, Unset}]
OpName == {"none", "register", "confirm", "confirmNew", "reset", "update", "login",
           "refresh", "social", "admin"}
PcName == Updating \cup
  {"idle", "insert", "mail", "match", "reread", "open", "reply", "owner", "locate", "rotate"}
RequestRecord ==
  [op : OpName, pc : PcName, user : User \cup {Null}, dto : Dto, email : Email \cup {Null},
   sid : SessionId \cup {Null}, hash : 0..MaxRand, under : StoredSecret, stale : BOOLEAN]
TokenRecord == [sid : SessionId, hash : 0..MaxRand]
MailRecord == [kind : {"confirm", "newEmail", "forgot"}, user : User, email : Email]

TypeOK ==
  /\ users \in [User -> UserRecord]
  /\ sessions \in [SessionId -> SessionRecord]
  /\ req \in [RequestId -> RequestRecord]
  /\ tokens \subseteq TokenRecord /\ spent \subseteq tokens
  /\ mails \subseteq MailRecord
  /\ vouched \subseteq [user : User, email : Email \cup {Null}]
  /\ lost \subseteq SessionId /\ excused \subseteq SessionId
  /\ rand \in 1..MaxRand

(***************************************************************************)
(* Sessions                                                                *)
(***************************************************************************)
(* refreshToken replaces the hash "to disallow the use of the previous Refresh Token"
   (docs/auth.md): once exchanged, a token never matches its session again, whatever
   refreshes, logouts and password changes overlap and revive the row. *)
SpentTokenNeverMatches ==
  \A s \in SessionId : Token(s, sessions[s].hash) \notin spent

(* A live session can be continued: its hash is that of a token some client holds or
   is about to be sent, unless a reply was lost on the way.  Overlapping refreshes
   leave several tokens about; the one that counts is among them. *)
LiveSessionContinues ==
  \A s \in SessionId : LiveSession(sessions, s) =>
    \/ Token(s, sessions[s].hash) \in tokens
    \/ \E r \in RequestId :
         req[r].pc = "reply" /\ req[r].sid = s /\ req[r].hash = sessions[s].hash
    \/ s \in lost

(* resetPassword and update end the sessions of the user: one opened under a password
   that has been replaced is alive only if the change kept it, or its login or a
   refresh overlapped the change, or the change was not of these two. *)
PasswordChangeEndsSessions ==
  \A s \in SessionId :
    LiveSession(sessions, s) /\ sessions[s].under # Null =>
      sessions[s].under = users[sessions[s].user].password \/ s \in excused

(* auth.e2e-spec: "should fail on the second attempt to refresh token with the same
   token".  A token is exchanged for a new one at most once. *)
ExchangedOnce ==
  [][\A r \in RequestId :
       req[r].pc = "rotate" /\ req'[r].pc = "reply" =>
         Token(req[r].sid, req[r].hash) \notin spent]_vars

(***************************************************************************)
(* The chain of tokens of a session                                        *)
(***************************************************************************)
(* The requests about to send a token, and those that have found theirs to match and not
   replaced the session's hash yet. *)
Replying == {r \in RequestId : req[r].pc = "reply"}
Refreshing == {r \in RequestId : req[r].pc \in {"owner", "locate", "rotate"}}
Carried(r) == Token(req[r].sid, req[r].hash)
Sent == {Carried(r) : r \in Replying}
Accepted == {Carried(r) : r \in Refreshing}

ChainRow(s) ==
  [state |-> sessions[s].state, owner |-> sessions[s].user, hash |-> sessions[s].hash]
ChainRows == [s \in SessionId |-> ChainRow(s)]

Chain == INSTANCE TokenChain
  WITH Session <- SessionId, Owner <- User, NoOwner <- Null, Hash <- 1..MaxRand,
       row <- ChainRows, sent <- Sent, held <- tokens, accepted <- Accepted

(* Sessions are chains of tokens: however requests overlap and wherever they stop, a
   token is only ever issued under a hash its session has just been given and never had
   before, to one opening the session or presenting a token that was current when it was
   compared; a session keeps its user, and is deleted and revived in no other way. *)
KeepsChains == Chain!Spec

(***************************************************************************)
(* Accounts                                                                *)
(***************************************************************************)
(* A user's address is the one it was created with, one whose mailed hash came back,
   or one Google or an administrator gave; stale write-backs may restore an earlier
   one but never install an unconfirmed one. *)
AddressVouched ==
  \A u \in User :
    users[u].state # "none" /\ users[u].email # Null => Address(u, users[u].email) \in vouched

(* No two live users share an address, although create and update check for it in a
   step of their own and removed users come back. *)
OneUserPerAddress ==
  \A u, v \in User :
    u # v /\ Live(users, u) /\ Live(users, v) /\ users[u].email # Null =>
      users[u].email # users[v].email

(* What a handler is asked to change. *)
Asked(q) ==
  CASE q.op = "confirm" -> {"status"}
    [] q.op = "confirmNew" -> {"email", "status"}
    [] q.op = "reset" -> {"password"}
    [] q.op = "social" -> {"email"}
    [] OTHER -> {c \in Column : q.dto[c] # Unset}

(* A request writes only what it was asked to change and revives nobody, unless it had
   read the user before another request wrote it; PATCH me and an administrator's
   update keep to their columns even then. *)
NothingElseWritten ==
  [][\A r \in RequestId :
       req[r].pc = "save" /\ req'[r].pc # "save" =>
         LET u == req[r].user IN
         /\ \A c \in Column : users'[u][c] # users[u][c] =>
              c \in Asked(req[r]) \/ (req[r].stale /\ req[r].op \notin {"update", "admin"})
         /\ users[u].state = "removed" /\ users'[u].state = "live" => req[r].stale]_vars

(* auth.e2e-spec logs in with the password PATCH me has just set: what is stored for a
   user is the hash of a password, never the hash of a hash. *)
PasswordStaysUsable ==
  \A u \in User : users[u].password # Null => users[u].password.of # Mangled

(* It is hashed again only by one who writes the whole user back and had read it before
   another request wrote it: never by who sets a password, and never without an overlap. *)
WritesWhole(q) == q.op \in {"confirm", "confirmNew", "social"}

HashedAgainOnlyWhenStale ==
  [][\A r \in RequestId :
       req[r].pc = "save" /\ req'[r].pc # "save" =>
         LET old == users[req[r].user].password
             new == users'[req[r].user].password
         IN  new \notin {Null, old} /\ new.of = Mangled => req[r].stale /\ WritesWhole(req[r])]_vars

(***************************************************************************)
(* The inductive invariant                                                 *)
(***************************************************************************)
(* Hashes and salts are numbered as they are drawn: none is ahead of `rand'. *)
HashesDrawn ==
  /\ \A s \in SessionId : sessions[s].hash <= rand
  /\ \A t \in tokens : t.hash <= rand

(* A row that exists belongs to a user that exists, and an address stays with one
   user even when the user is removed. *)
OwnersExist ==
  \A s \in SessionId : sessions[s].state # "none" =>
    sessions[s].user \in User /\ users[sessions[s].user].state # "none"
AddressesApart ==
  \A u, v \in User :
    u # v /\ users[u].state # "none" /\ users[v].state # "none" /\ users[u].email # Null =>
      users[u].email # users[v].email

(* The user and the session a request is about are those of rows that exist, and a
   refresh holds the token it exchanges. *)
KnowsUser(q) ==
  \/ q.pc \in Updating \cup {"mail", "reread", "open", "owner", "locate", "rotate"}
  \/ q.pc = "match" /\ q.user # Null
  =>
    q.user \in User /\ users[q.user].state # "none"
KnowsSession(q) ==
  /\ q.pc \in {"others", "owner", "locate", "rotate", "reply"} => q.sid \in SessionId
  /\ q.pc \in {"owner", "locate", "rotate", "reply"} => sessions[q.sid].state # "none"
  /\ q.pc \in {"owner", "locate", "rotate"} => Token(q.sid, q.hash) \in tokens
  /\ q.hash <= rand

(* There is an address to mail to, a password to probe and a Google account to look
   for; what is about to be stored is complete, and its password is hashed. *)
WritesHash(q) ==
  /\ q.pc = "newEmail" => q.email \in Email
  /\ q.pc = "probe" => NamesPassword(q.dto)
  /\ q.pc = "match" => q.dto.socialId \in SocialId
  /\ q.pc \in {"insert", "unique", "find", "save"} => q.dto.password \in StoredSecret \cup {Unset}
  /\ q.pc = "mail" \/ (q.pc = "insert" /\ q.op = "register") => q.dto.email \in Email
  /\ q.pc = "insert" => \A c \in Column : q.dto[c] # Unset

(* The address in a dto has been vouched for, unless Google or an administrator is
   about to do so. *)
WritesVouched(q) ==
  q.pc \in Updating /\ q.op \notin {"admin", "social"} /\ NamesEmail(q.dto) =>
    Address(q.user, q.dto.email) \in vouched

(* Once a reset or an update has deleted the sessions, those alive until it saves the
   password are excused. *)
HasEnded(q) ==
  q.pc \in Updating /\ EndsSessions(q.op) =>
    /\ q.dto.password # Null
    /\ q.pc \notin {"wipe", "others"} /\ NamesPassword(q.dto) =>
         SessionsOf(sessions, q.user) \subseteq excused

(* What a request has read and was not asked to change is still what is stored, until
   another request writes the user. *)
UpToDate(q) ==
  q.pc \in Updating /\ ~q.stale =>
    /\ Live(users, q.user)
    /\ q.op \notin {"update", "admin"} =>
         \A c \in Column \ Asked(q) : q.dto[c] \in {Unset, users[q.user][c]}

(* No two replies carry the same token. *)
RepliesApart == \A i, j \in Replying : i # j => req[i].hash # req[j].hash

(* Until it is hashed, the password of who sets one is as it was typed; afterwards, only
   who writes the whole user back and was overtaken may have hashed a hash. *)
Typed(secret) == \E p \in Password : secret = Plain(p)
HashesOnce(q) ==
  q.pc \in Updating /\ NamesPassword(q.dto) =>
    IF q.pc \in {"wipe", "others", "newEmail", "probe"}
      THEN WritesWhole(q) \/ Typed(q.dto.password)
      ELSE q.dto.password.of = Mangled => WritesWhole(q) /\ q.stale
AllHashOnce == \A r \in RequestId : HashesOnce(req[r])

Carries(q) ==
  /\ KnowsUser(q) /\ KnowsSession(q) /\ WritesHash(q)
  /\ WritesVouched(q) /\ HasEnded(q) /\ UpToDate(q)

IInv ==
  /\ TypeOK
  /\ HashesDrawn /\ OwnersExist /\ AddressesApart
  /\ SpentTokenNeverMatches /\ LiveSessionContinues /\ PasswordChangeEndsSessions
  /\ AddressVouched
  /\ \A r \in RequestId : Carries(req[r])
=============================================================================
