--------------------------------- MODULE Auth ---------------------------------
(***************************************************************************)
(* The requests of AuthController and UsersController over the user and the *)
(* session table.  A request is one record of `req'; it takes one step per  *)
(* await that reads or writes a table, and requests interleave in between.  *)
(* A refused request ends without having written anything more, so a       *)
(* refusal on the first read is a stutter and is not written down.         *)
(***************************************************************************)
EXTENDS UserRows, SessionRows, FiniteSets

CONSTANTS
  RequestId, \* slots for requests in flight
  Seeded,    \* the users UserSeedService has put in the table, with ...
  SeedEmail, SeedPassword,
  Ops,       \* the endpoints clients call
  Status,    \* the statuses an admin sets
  MaxRand    \* bound on the salts and session hashes drawn

(* NULL and undefined are two values, and neither is a value of a column or an id. *)
ASSUME ValueAssumption ==
  /\ Null # Unset
  /\ \A v \in {Null, Unset} :
       /\ v \notin User \cup Email \cup Password \cup Profile \cup SocialId \cup SessionId
       /\ v \notin [of : Password \cup {Mangled}, salt : Nat]
       /\ v \notin {"email", "google", "user", "active", "inactive"}

(* The seed script gives each user an address of its own. *)
ASSUME SeedAssumption ==
  /\ Seeded \subseteq User /\ SeedEmail \in [Seeded -> Email] /\ SeedPassword \in Password
  /\ \A u, v \in Seeded : u # v => SeedEmail[u] # SeedEmail[v]

ASSUME BoundAssumption ==
  /\ Status \subseteq {"active", "inactive"} /\ MaxRand \in Nat \ {0}

VARIABLES
  users, sessions,
  req,      \* the requests in flight
  tokens,   \* the refresh tokens clients hold; the access token came with each
  mails,    \* the hashes mailed out
  rand,     \* salts and session hashes drawn so far
  spent,    \* history: refresh tokens that have been exchanged
  lost,     \* history: sessions whose latest token was never delivered
  vouched,  \* history: the addresses a user was created with, confirmed as new, or was
            \* given by Google or an admin
  excused   \* history: sessions a password change need not have ended

vars == <<users, sessions, req, tokens, mails, rand, spent, lost, vouched, excused>>
history == <<spent, lost, vouched, excused>>

Token(s, hash) == [sid |-> s, hash |-> hash]
Mail(kind, u, e) == [kind |-> kind, user |-> u, email |-> e]
Address(u, e) == [user |-> u, email |-> e]

Idle == [op |-> "none", pc |-> "idle", user |-> Null, dto |-> Nothing, email |-> Null,
         sid |-> Null, hash |-> 0, under |-> Null, stale |-> FALSE]
Begin(op, pc, u) == [Idle EXCEPT !.op = op, !.pc = pc, !.user = u]
At(r, pc) == [req[r] EXCEPT !.pc = pc]
Continue(r, q) == req' = [req EXCEPT ![r] = q]
Starts(r, op) == req[r].pc = "idle" /\ op \in Ops
Drawn == rand + 1
Draw == rand < MaxRand /\ rand' = Drawn

SeedRow(u) == Row("live",
  [email |-> SeedEmail[u], password |-> HashOf(Plain(SeedPassword), 1), profile |-> Null,
   provider |-> "email", socialId |-> Null, role |-> "user", status |-> "active"])

Init ==
  /\ users = [u \in User |-> IF u \in Seeded THEN SeedRow(u) ELSE NoRow]
  /\ sessions = [s \in SessionId |-> NoSession(Null)]
  /\ req = [r \in RequestId |-> Idle]
  /\ tokens = {} /\ mails = {} /\ rand = 1
  /\ spent = {} /\ lost = {} /\ excused = {}
  /\ vouched = {Address(u, SeedEmail[u]) : u \in Seeded}

(***************************************************************************)
(* UsersService.update, called by several handlers                         *)
(***************************************************************************)
Updating == {"wipe", "others", "newEmail", "probe", "unique", "find", "save"}

(* The first await of update(user, dto). *)
Update(q) ==
  [q EXCEPT !.pc = IF NamesPassword(q.dto) THEN "probe"
                   ELSE IF NamesEmail(q.dto) THEN "unique" ELSE "find"]

(* History: the other requests about to write user u have read an old row. *)
Overtaken(u) ==
  [r \in RequestId |-> IF req[r].user = u /\ req[r].pc \in Updating
                         THEN [req[r] EXCEPT !.stale = TRUE] ELSE req[r]]

(* The password is compared with the stored one as it is now, and hashed. *)
ProbePassword(r) ==
  /\ req[r].pc = "probe"
  /\ LET new == NewPassword(users[req[r].user], req[r].dto, Drawn)
     IN  /\ Continue(r, [req[r] EXCEPT !.dto.password = new,
                           !.pc = IF NamesEmail(req[r].dto) THEN "unique" ELSE "find"])
         /\ IF new = Unset THEN UNCHANGED rand ELSE Draw
  /\ UNCHANGED <<users, sessions, tokens, mails, history>>

(* `userObject.id !== id': an admin's id comes from the path as a string and never
   equals the number of the row. *)
SameUser(r, v) == v = req[r].user /\ req[r].op # "admin"

CheckEmail(r) ==
  /\ req[r].pc = "unique"
  /\ Continue(r, IF \A v \in FindByEmail(users, req[r].dto.email) : SameUser(r, v)
                   THEN At(r, "find") ELSE Idle)
  /\ UNCHANGED <<users, sessions, tokens, mails, rand, history>>

FindUser(r) ==
  /\ req[r].pc = "find"
  /\ Continue(r, IF Live(users, req[r].user) THEN At(r, "save") ELSE Idle)
  /\ UNCHANGED <<users, sessions, tokens, mails, rand, history>>

SavedRow(r) == Saved(users[req[r].user], Payload(req[r].dto))
EndsSessions(op) == op \in {"reset", "update"}

SaveUser(r) ==
  /\ req[r].pc = "save"
  /\ LET u == req[r].user IN
     IF EmailFree(users, u, SavedRow(r).email)
       THEN /\ users' = [users EXCEPT ![u] = SavedRow(r)]
            /\ req' = [Overtaken(u) EXCEPT ![r] =
                         IF req[r].op = "social" THEN At(r, "open") ELSE Idle]
            /\ vouched' = IF req[r].op \in {"admin", "social"}
                            THEN vouched \cup {Address(u, SavedRow(r).email)} ELSE vouched
            /\ excused' = IF SavedRow(r).password = users[u].password \/ EndsSessions(req[r].op)
                            THEN excused ELSE excused \cup SessionsOf(sessions, u)
       ELSE Continue(r, Idle) /\ UNCHANGED <<users, vouched, excused>>
  /\ UNCHANGED <<sessions, tokens, mails, rand, spent, lost>>

(***************************************************************************)
(* UsersService.create: register, a first social login, an admin           *)
(***************************************************************************)
NewUser(e, secret, provider, x, role, status) ==
  [email |-> e, password |-> secret, profile |-> Null, provider |-> provider,
   socialId |-> x, role |-> role, status |-> status]
Creating(r, op, dto) ==
  /\ FindByEmail(users, dto.email) = {}
  /\ Continue(r, [Begin(op, "insert", Null) EXCEPT !.dto = dto])

InsertUser(r) ==
  /\ req[r].pc = "insert"
  /\ IF EmailFree(users, Null, req[r].dto.email)
       THEN \E u \in User :
              /\ users[u].state = "none"
              /\ users' = [users EXCEPT ![u] = Row("live", req[r].dto)]
              /\ vouched' = vouched \cup {Address(u, req[r].dto.email)}
              /\ Continue(r, CASE req[r].op = "register" -> [At(r, "mail") EXCEPT !.user = u]
                               [] req[r].op = "social" -> [At(r, "reread") EXCEPT !.user = u]
                               [] OTHER -> Idle)
       ELSE Continue(r, Idle) /\ UNCHANGED <<users, vouched>>
  /\ UNCHANGED <<sessions, tokens, mails, rand, spent, lost, excused>>

(***************************************************************************)
(* Registration and e-mail                                                 *)
(***************************************************************************)
Register(r) ==
  /\ Starts(r, "register") /\ Draw
  /\ \E e \in Email, p \in Password :
       Creating(r, "register",
                NewUser(e, HashOf(Plain(p), Drawn), "email", Null, "user", "inactive"))
  /\ UNCHANGED <<users, sessions, tokens, mails, history>>

(* The hash goes out in a mail; if that fails, the user stays without it. *)
Post(kind, u, e) == mails' = mails \cup {Mail(kind, u, e)}

SendConfirmation(r) ==
  /\ req[r].pc = "mail"
  /\ Post("confirm", req[r].user, req[r].dto.email)
  /\ Continue(r, Idle)
  /\ UNCHANGED <<users, sessions, tokens, rand, history>>

(* confirmEmail, confirmNewEmail: the whole user is read, changed and written back. *)
WriteBack(r, op, u, changed) ==
  Continue(r, Update([Begin(op, "", u) EXCEPT !.dto = changed]))

(* Both endpoints verify with one secret, so each takes the other's hashes. *)
ConfirmEmail(r) ==
  /\ Starts(r, "confirm")
  /\ \E m \in mails :
       /\ m.kind # "forgot"
       /\ Live(users, m.user) /\ users[m.user].status = "inactive"
       /\ WriteBack(r, "confirm", m.user,
                    [WholeUser(users[m.user]) EXCEPT !.status = "active"])
  /\ UNCHANGED <<users, sessions, tokens, mails, rand, history>>

(* A registration's hash names no new address. *)
NewAddress(m) == IF m.kind = "newEmail" THEN m.email ELSE Unset

ConfirmNewEmail(r) ==
  /\ Starts(r, "confirmNew")
  /\ \E m \in mails :
       /\ m.kind # "forgot"
       /\ Live(users, m.user)
       /\ WriteBack(r, "confirmNew", m.user,
                    [WholeUser(users[m.user]) EXCEPT !.email = NewAddress(m), !.status = "active"])
       /\ vouched' = IF m.kind = "newEmail" THEN vouched \cup {Address(m.user, m.email)}
                                            ELSE vouched
  /\ UNCHANGED <<users, sessions, tokens, mails, rand, spent, lost, excused>>

ForgotPassword ==
  /\ "forgot" \in Ops
  /\ \E e \in Email : \E u \in FindByEmail(users, e) : Post("forgot", u, e)
  /\ UNCHANGED <<users, sessions, req, tokens, rand, history>>

(***************************************************************************)
(* Changing the password or the profile                                    *)
(***************************************************************************)
ResetPassword(r) ==
  /\ Starts(r, "reset")
  /\ \E m \in mails, p \in Password :
       /\ m.kind = "forgot" /\ Live(users, m.user)
       /\ Continue(r, [Begin("reset", "wipe", m.user) EXCEPT
                         !.dto = [WholeUser(users[m.user]) EXCEPT !.password = Plain(p)]])
  /\ UNCHANGED <<users, sessions, tokens, mails, rand, history>>

DeleteSessions(r) ==
  /\ req[r].pc = "wipe"
  /\ sessions' = DeletedByUser(sessions, req[r].user, {})
  /\ Continue(r, Update(req[r]))
  /\ UNCHANGED <<users, tokens, mails, rand, history>>

(* A client holds an access token of session s of user u. *)
Access(u, s) == \E t \in tokens : t.sid = s /\ sessions[s].user = u

NewEmailOrUpdate(q) == IF q.email = Null THEN Update(q) ELSE [q EXCEPT !.pc = "newEmail"]

(* PATCH me with any of a profile, an e-mail, and a password with the old one. *)
UpdateMe(r) ==
  /\ Starts(r, "update")
  /\ \E u \in User, s \in SessionId :
     \E e \in Email \cup {Null}, p \in Password \cup {Unset}, f \in Profile \cup {Unset} :
       LET dto == [Nothing EXCEPT !.profile = f,
                                  !.password = IF p = Unset THEN Unset ELSE Plain(p)]
           q == [Begin("update", "others", u) EXCEPT
                   !.dto = dto, !.sid = s,
                   !.email = IF e = users[u].email THEN Null ELSE e]
       IN  /\ Access(u, s) /\ Live(users, u)
           /\ NamesPassword(dto) => \E old \in Password : Compare(old, users[u].password)
           /\ Continue(r, IF NamesPassword(dto) THEN q ELSE NewEmailOrUpdate(q))
  /\ UNCHANGED <<users, sessions, tokens, mails, rand, history>>

DeleteOtherSessions(r) ==
  /\ req[r].pc = "others"
  /\ sessions' = DeletedByUser(sessions, req[r].user, {req[r].sid})
  /\ excused' = excused \cup {req[r].sid}
  /\ Continue(r, NewEmailOrUpdate(req[r]))
  /\ UNCHANGED <<users, tokens, mails, rand, spent, lost, vouched>>

(* `delete userDto.email': the address only changes by confirmNewEmail. *)
MailedDto_KeepEmail(r) == [req[r].dto EXCEPT !.email = req[r].email]
MailedDto_WholeUser(r) ==
  [c \in Column |-> IF c # "email" /\ req[r].dto[c] = Unset
                      THEN users[req[r].user][c] ELSE req[r].dto[c]]
MailedDto(r) == req[r].dto

MailNewEmail(r) ==
  /\ req[r].pc = "newEmail"
  /\ IF FindByEmail(users, req[r].email) \subseteq {req[r].user}
       THEN /\ Post("newEmail", req[r].user, req[r].email)
            /\ Continue(r, Update([req[r] EXCEPT !.dto = MailedDto(r)]))
       ELSE Continue(r, Idle) /\ UNCHANGED mails
  /\ UNCHANGED <<users, sessions, tokens, rand, history>>

(***************************************************************************)
(* Sessions                                                                *)
(***************************************************************************)
(* validateLogin up to the password comparison; the status is not looked at. *)
Login(r) ==
  /\ Starts(r, "login")
  /\ \E e \in Email, p \in Password : \E u \in FindByEmail(users, e) :
       /\ users[u].provider = "email" /\ Compare(p, users[u].password)
       /\ Continue(r, [Begin("login", "open", u) EXCEPT !.under = users[u].password])
  /\ UNCHANGED <<users, sessions, tokens, mails, rand, history>>

Changing(u) ==
  \E r \in RequestId : req[r].user = u /\ req[r].pc \in Updating /\ NamesPassword(req[r].dto)

(* sessionService.create under a fresh hash *)
OpenSession(r) ==
  /\ req[r].pc = "open" /\ Draw
  /\ \E s \in SessionId :
       /\ sessions[s].state = "none"
       /\ sessions' = [sessions EXCEPT
            ![s] = SessionRow("live", req[r].user, Drawn, req[r].under)]
       /\ Continue(r, [At(r, "reply") EXCEPT !.sid = s, !.hash = Drawn])
       /\ excused' = IF Changing(req[r].user) \/ req[r].under # users[req[r].user].password
                       THEN excused \cup {s} ELSE excused
  /\ UNCHANGED <<users, tokens, mails, spent, lost, vouched>>

(* getTokensData signs a refresh token for the session and its new hash. *)
Signed_OldHash(r) == Token(req[r].sid, req[r].hash - 1)
Signed(r) == Token(req[r].sid, req[r].hash)

Reply(r) ==
  /\ req[r].pc = "reply"
  /\ tokens' = tokens \cup {Signed(r)}
  /\ Continue(r, Idle)
  /\ UNCHANGED <<users, sessions, mails, rand, history>>

(* refreshToken: the session is read with its user, and the hash compared. *)
Matches_AnyHash(t) == LiveSession(sessions, t.sid)
Matches(t) == LiveSession(sessions, t.sid) /\ sessions[t.sid].hash = t.hash

Refresh(r) ==
  /\ Starts(r, "refresh")
  /\ \E t \in tokens :
       /\ Matches(t)
       /\ Live(users, sessions[t.sid].user)
       /\ Continue(r, [Begin("refresh", "owner", sessions[t.sid].user) EXCEPT
                         !.sid = t.sid, !.hash = t.hash])
  /\ UNCHANGED <<users, sessions, tokens, mails, rand, history>>

ReadOwner(r) ==
  /\ req[r].pc = "owner"
  /\ Continue(r, IF Live(users, req[r].user) /\ users[req[r].user].role # Null
                   THEN At(r, "locate") ELSE Idle)
  /\ UNCHANGED <<users, sessions, tokens, mails, rand, history>>

(* SessionRelationalRepository.update reads the row again; without its user, mapping
   it to the domain and back throws. *)
FindSession(r) ==
  /\ req[r].pc = "locate"
  /\ Continue(r, IF LiveSession(sessions, req[r].sid) /\ Live(users, req[r].user)
                   THEN At(r, "rotate") ELSE Idle)
  /\ UNCHANGED <<users, sessions, tokens, mails, rand, history>>

Rotate(r) ==
  /\ req[r].pc = "rotate" /\ Draw
  /\ sessions' = Rotated(sessions, req[r].sid, Drawn)
  /\ spent' = spent \cup {Token(req[r].sid, req[r].hash)}
  /\ excused' = IF LiveSession(sessions, req[r].sid) THEN excused
                                                     ELSE excused \cup {req[r].sid}
  /\ lost' = lost \ {req[r].sid}
  /\ Continue(r, [At(r, "reply") EXCEPT !.hash = Drawn])
  /\ UNCHANGED <<users, tokens, mails, vouched>>

Logout ==
  /\ "logout" \in Ops
  /\ \E u \in User, s \in SessionId :
       Access(u, s) /\ sessions' = WithoutSessions(sessions, {s})
  /\ UNCHANGED <<users, req, tokens, mails, rand, history>>

(***************************************************************************)
(* Social login                                                            *)
(***************************************************************************)
SocialLogin(r) ==
  /\ Starts(r, "social")
  /\ \E x \in SocialId, e \in Email \cup {Null} :
     \E u \in IF FindByEmail(users, e) = {} THEN {Null} ELSE FindByEmail(users, e) :
       Continue(r, [Begin("social", "match", u) EXCEPT !.email = e, !.dto.socialId = x])
  /\ UNCHANGED <<users, sessions, tokens, mails, rand, history>>

(* The user of that Google account is written back, taking over an address nobody
   has; else the user with the address logs in; else a user is created. *)
MatchSocial(r) ==
  /\ req[r].pc = "match"
  /\ LET x == req[r].dto.socialId
         e == req[r].email
     IN  \/ \E u \in FindBySocial(users, x) :
              WriteBack(r, "social", u,
                IF e # Null /\ req[r].user = Null
                  THEN [WholeUser(users[u]) EXCEPT !.email = e] ELSE WholeUser(users[u]))
         \/ /\ FindBySocial(users, x) = {} /\ req[r].user # Null
            /\ Continue(r, At(r, "open"))
         \/ /\ FindBySocial(users, x) = {} /\ req[r].user = Null
            /\ Creating(r, "social", NewUser(e, Null, "google", x, "user", "active"))
         \/ /\ FindBySocial(users, x) = {} /\ req[r].user = Null
            /\ FindByEmail(users, e) # {}
            /\ Continue(r, Idle)
  /\ UNCHANGED <<users, sessions, tokens, mails, rand, history>>

(* A created user is read again. *)
RereadUser(r) ==
  /\ req[r].pc = "reread"
  /\ Continue(r, IF Live(users, req[r].user) THEN At(r, "open") ELSE Idle)
  /\ UNCHANGED <<users, sessions, tokens, mails, rand, history>>

(***************************************************************************)
(* Removal, administration, failures                                       *)
(***************************************************************************)
Remove(u) ==
  /\ Live(users, u)
  /\ users' = [users EXCEPT ![u].state = "removed"]
  /\ req' = Overtaken(u)
  /\ UNCHANGED <<sessions, tokens, mails, rand, history>>

(* DELETE me: only the user row goes, its sessions stay. *)
SoftDelete(u) == "delete" \in Ops /\ (\E s \in SessionId : Access(u, s)) /\ Remove(u)

AdminRemove(u) == "adminRemove" \in Ops /\ Remove(u)

AdminCreate(r) ==
  /\ Starts(r, "admin") /\ Draw
  /\ \E e \in Email, p \in Password, role \in {"user", Null}, status \in Status \cup {Null} :
       Creating(r, "admin", NewUser(e, HashOf(Plain(p), Drawn), "email", Null, role, status))
  /\ UNCHANGED <<users, sessions, tokens, mails, history>>

AdminUpdate(r) ==
  /\ Starts(r, "admin")
  /\ \E u \in User, e \in Email \cup {Unset}, p \in Password \cup {Unset},
        f \in Profile \cup {Unset}, role \in {"user", Unset}, status \in Status \cup {Unset} :
       /\ Live(users, u)
       /\ WriteBack(r, "admin", u,
            [Nothing EXCEPT !.email = e, !.profile = f, !.role = role, !.status = status,
                            !.password = IF p = Unset THEN Unset ELSE Plain(p)])
  /\ UNCHANGED <<users, sessions, tokens, mails, rand, history>>

(* Whatever a request awaits may reject, and the process may stop: the request ends
   where it is. *)
Abort(r) ==
  /\ "abort" \in Ops /\ req[r].pc # "idle"
  /\ Continue(r, Idle)
  /\ lost' = IF req[r].pc = "reply" THEN lost \cup {req[r].sid} ELSE lost
  /\ UNCHANGED <<users, sessions, tokens, mails, rand, spent, vouched, excused>>

(***************************************************************************)
(* The specification                                                       *)
(***************************************************************************)
UserStep(r) ==
  \/ ProbePassword(r) \/ CheckEmail(r) \/ FindUser(r) \/ SaveUser(r)
  \/ InsertUser(r) \/ SendConfirmation(r) \/ MailNewEmail(r)
  \/ MatchSocial(r) \/ RereadUser(r)

SessionStep(r) ==
  \/ DeleteSessions(r) \/ DeleteOtherSessions(r)
  \/ OpenSession(r) \/ ReadOwner(r) \/ FindSession(r) \/ Rotate(r) \/ Reply(r)

Start(r) ==
  \/ Register(r) \/ ConfirmEmail(r) \/ ConfirmNewEmail(r)
  \/ ResetPassword(r) \/ UpdateMe(r)
  \/ Login(r) \/ Refresh(r) \/ SocialLogin(r)
  \/ AdminCreate(r) \/ AdminUpdate(r)

Next ==
  \/ \E r \in RequestId : Start(r) \/ UserStep(r) \/ SessionStep(r) \/ Abort(r)
  \/ \E u \in User : SoftDelete(u) \/ AdminRemove(u)
  \/ ForgotPassword
  \/ Logout

Spec == Init /\ [][Next]_vars
=============================================================================
