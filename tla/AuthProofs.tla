------------------------------ MODULE AuthProofs ------------------------------
(***************************************************************************)
(* Machine-checked proofs about Auth, for any number of users, sessions,   *)
(* requests in flight, addresses, passwords and fresh values.              *)
(***************************************************************************)
EXTENDS AuthInv, TLAPS

(***************************************************************************)
(* Records                                                                 *)
(***************************************************************************)
(* The dto that names nothing. *)
LEMMA NothingType ==
  Nothing \in Dto /\ \A c \in Column : Nothing[c] = Unset
BY ValueAssumption DEF Nothing, Blank, Dto, Column

(* The slot of a request not in flight. *)
LEMMA IdleType ==
  Idle \in RequestRecord /\ Idle.pc = "idle" /\ Idle.hash = 0 /\ Idle.dto = Nothing
BY NothingType, BoundAssumption DEF Idle, RequestRecord, OpName, PcName, StoredSecret

(* A request as it begins, field by field. *)
LEMMA BeginType ==
  ASSUME NEW op \in OpName, NEW pc \in PcName, NEW u \in User \cup {Null}
  PROVE  /\ Begin(op, pc, u) \in RequestRecord
         /\ Begin(op, pc, u).op = op /\ Begin(op, pc, u).pc = pc
         /\ Begin(op, pc, u).user = u /\ Begin(op, pc, u).dto = Nothing
         /\ Begin(op, pc, u).sid = Null /\ Begin(op, pc, u).hash = 0
         /\ Begin(op, pc, u).under = Null /\ ~Begin(op, pc, u).stale
BY IdleType DEF Begin, Idle, RequestRecord

(* The whole user, as a dto. *)
LEMMA WholeUserType ==
  ASSUME NEW row \in UserRecord
  PROVE  /\ WholeUser(row) \in Dto
         /\ \A c \in Column : WholeUser(row)[c] = row[c]
BY DEF WholeUser, UserRecord, Dto, Column, StoredSecret, Secret

(* The first await of update. *)
LEMMA UpdateType ==
  ASSUME NEW q \in RequestRecord
  PROVE  /\ Update(q) \in RequestRecord
         /\ Update(q).pc \in {"probe", "unique", "find"}
         /\ Update(q).pc = "probe" <=> NamesPassword(q.dto)
         /\ Update(q) = [q EXCEPT !.pc = Update(q).pc]
BY DEF Update, RequestRecord, PcName, Updating

(***************************************************************************)
(* What a step leaves alone keeps its part of the invariant                *)
(***************************************************************************)
(* A request that a step does not touch, but perhaps marks as stale, goes on carrying
   what it did: rows, tokens, vouched addresses and excuses only grow, and its user's
   row is as it was or the request is stale. *)
LEMMA CarriesKept ==
  ASSUME NEW p \in RequestRecord, Carries(p),
         NEW q \in RequestRecord, q = p \/ q = [p EXCEPT !.stale = TRUE],
         rand \in Int, rand' \in Int, rand <= rand',
         tokens \subseteq tokens', vouched \subseteq vouched',
         \A u \in User : users[u].state # "none" => users'[u].state # "none",
         \A s \in SessionId : sessions[s].state # "none" => sessions'[s].state # "none",
         p.pc \in Updating /\ NamesPassword(p.dto) =>
           SessionsOf(sessions', p.user) \subseteq SessionsOf(sessions, p.user) \cup excused',
         excused \subseteq excused',
         users'[p.user] = users[p.user] \/ p.pc \notin Updating \/ q.stale
  PROVE  Carries(q)'
<1>1. /\ q.op = p.op /\ q.pc = p.pc /\ q.user = p.user /\ q.dto = p.dto /\ q.email = p.email
      /\ q.sid = p.sid /\ q.hash = p.hash
      /\ q.stale = p.stale \/ q.stale
      /\ Asked(q) = Asked(p)
  BY DEF RequestRecord, Asked
<1>2. KnowsUser(q)'
  BY <1>1 DEF Carries, KnowsUser
<1>3. KnowsSession(q)'
  BY <1>1 DEF Carries, KnowsSession, RequestRecord
<1>4. WritesHash(q)'
  BY <1>1 DEF Carries, WritesHash
<1>5. WritesVouched(q)'
  BY <1>1 DEF Carries, WritesVouched
<1>6. HasEnded(q)'
  BY <1>1 DEF Carries, HasEnded
<1>7. UpToDate(q)'
  BY <1>1 DEF Carries, UpToDate, Live
<1>8. QED
  BY <1>2, <1>3, <1>4, <1>5, <1>6, <1>7 DEF Carries

(* A request that is idle or has only just begun carries nothing yet. *)
LEMMA CarriesNothing ==
  ASSUME NEW q, q.pc \in {"idle", "match"}, q.hash <= rand,
         q.pc = "match" =>
           /\ q.dto.socialId \in SocialId
           /\ q.user = Null \/ (q.user \in User /\ users[q.user].state # "none")
  PROVE  Carries(q)
BY DEF Carries, KnowsUser, KnowsSession, WritesHash, WritesVouched, HasEnded, UpToDate, Updating

(* The steps that only move request r on: the tables, the tokens and the histories of
   sessions are as they were. *)
LEMMA RequestStep ==
  ASSUME IInv, NEW r \in RequestId, NEW q \in RequestRecord,
         req' = [req EXCEPT ![r] = q], req[r].pc # "reply", Carries(q)',
         UNCHANGED <<users, sessions, tokens, spent, lost, excused>>,
         rand' \in rand..MaxRand, mails' \subseteq MailRecord, vouched \subseteq vouched',
         vouched' \subseteq [user : User, email : Email \cup {Null}]
  PROVE  IInv'
<1>1. TypeOK
  BY DEF IInv
<1>2. rand \in Int /\ rand' \in Int /\ rand <= rand' /\ rand' \in 1..MaxRand
  BY <1>1, BoundAssumption DEF TypeOK
<1>3. TypeOK'
  BY <1>1, <1>2 DEF TypeOK
<1>4. HashesDrawn'
  BY <1>1, <1>2 DEF IInv, HashesDrawn, TypeOK, SessionRecord, TokenRecord
<1>5. OwnersExist' /\ AddressesApart' /\ SpentTokenNeverMatches'
  BY DEF IInv, OwnersExist, AddressesApart, SpentTokenNeverMatches
<1>6. LiveSessionContinues'
  <2> SUFFICES ASSUME NEW s \in SessionId, LiveSession(sessions, s),
                      Token(s, sessions[s].hash) \notin tokens, s \notin lost
               PROVE  \E i \in RequestId : /\ req'[i].pc = "reply" /\ req'[i].sid = s
                                           /\ req'[i].hash = sessions[s].hash
    BY DEF LiveSessionContinues
  <2>1. PICK i \in RequestId :
          req[i].pc = "reply" /\ req[i].sid = s /\ req[i].hash = sessions[s].hash
    BY DEF IInv, LiveSessionContinues
  <2>2. req'[i] = req[i]
    BY <2>1, <1>1 DEF TypeOK
  <2>3. QED
    BY <2>1, <2>2
<1>7. PasswordChangeEndsSessions' /\ AddressVouched'
  BY DEF IInv, PasswordChangeEndsSessions, AddressVouched
<1>8. ASSUME NEW i \in RequestId PROVE Carries(req[i])'
  <2>1. CASE i = r
    <3>1. q = req'[i]
      BY <2>1, <1>1 DEF TypeOK
    <3>2. QED
      BY <3>1
  <2>2. CASE i # r
    <3>1. PICK p \in RequestRecord : p = req[i] /\ p = req'[i]
      BY <2>2, <1>1 DEF TypeOK
    <3>2. Carries(p)
      BY <3>1 DEF IInv
    <3>3. Carries(p)'
      BY <3>2, <1>2, CarriesKept
    <3>4. QED
      BY <3>1, <3>3
  <2>3. QED
    BY <2>1, <2>2
<1>9. QED
  BY <1>3, <1>4, <1>5, <1>6, <1>7, <1>8 DEF IInv

(* The same when nothing but r and perhaps the mails and `rand' changes: it is enough
   that the request carries what it should as things stand. *)
LEMMA RequestMoves ==
  ASSUME IInv, NEW r \in RequestId, NEW q \in RequestRecord,
         req' = [req EXCEPT ![r] = q], req[r].pc # "reply", Carries(q),
         UNCHANGED <<users, sessions, tokens, spent, lost, vouched, excused>>,
         rand' = rand \/ Draw, mails' \subseteq MailRecord
  PROVE  IInv'
<1>1. /\ rand \in Int /\ rand' \in Int /\ rand <= rand' /\ rand' \in rand..MaxRand
      /\ vouched' \subseteq [user : User, email : Email \cup {Null}]
  BY BoundAssumption DEF IInv, TypeOK, Draw, Drawn
<1>2. Carries(q)'
  BY <1>1, CarriesKept
<1>3. QED
  BY <1>1, <1>2, RequestStep

(* A request at another await is the same otherwise. *)
LEMMA AtType ==
  ASSUME TypeOK, NEW r \in RequestId, NEW pc \in PcName
  PROVE  /\ At(r, pc) \in RequestRecord
         /\ At(r, pc).op = req[r].op /\ At(r, pc).pc = pc /\ At(r, pc).user = req[r].user
         /\ At(r, pc).dto = req[r].dto /\ At(r, pc).email = req[r].email
         /\ At(r, pc).sid = req[r].sid /\ At(r, pc).hash = req[r].hash
         /\ At(r, pc).under = req[r].under /\ At(r, pc).stale = req[r].stale
<1>1. req[r] \in RequestRecord
  BY DEF TypeOK
<1>2. QED
  BY <1>1 DEF At, RequestRecord

(* Ending the request is always possible. *)
LEMMA RequestEnds ==
  ASSUME IInv, NEW r \in RequestId, req' = [req EXCEPT ![r] = Idle], req[r].pc # "reply",
         UNCHANGED <<users, sessions, tokens, mails, rand, history>>
  PROVE  IInv'
<1>1. PICK q \in RequestRecord : q = Idle
  BY IdleType
<1>2. Carries(q) /\ mails' \subseteq MailRecord
  BY <1>1, IdleType, BoundAssumption, CarriesNothing DEF IInv, TypeOK
<1>3. QED
  BY <1>1, <1>2, RequestMoves DEF history

(***************************************************************************)
(* UsersService.update                                                     *)
(***************************************************************************)
(* A request of update that goes on to a later await, its dto as it was and its
   password no longer one as typed, carries what it carried. *)
LEMMA UpdateGoesOn ==
  ASSUME NEW p \in RequestRecord, Carries(p), p.pc \in Updating \ {"wipe", "others"},
         NEW q \in RequestRecord, q.pc \in {"unique", "find", "save"},
         q = [p EXCEPT !.pc = q.pc], p.dto.password \in StoredSecret \cup {Unset}
  PROVE  Carries(q)
<1>1. /\ q.op = p.op /\ q.user = p.user /\ q.dto = p.dto /\ q.sid = p.sid
      /\ q.hash = p.hash /\ q.stale = p.stale /\ Asked(q) = Asked(p)
  BY DEF RequestRecord, Asked
<1>2. KnowsUser(q) /\ KnowsSession(q) /\ WritesHash(q)
  BY <1>1 DEF Carries, KnowsUser, KnowsSession, WritesHash, Updating
<1>3. WritesVouched(q) /\ HasEnded(q) /\ UpToDate(q)
  BY <1>1 DEF Carries, WritesVouched, HasEnded, UpToDate, Updating
<1>4. QED
  BY <1>2, <1>3 DEF Carries

(* A request that looks a user up goes on only if the user it is about is still live. *)
LEMMA FindUserInv == ASSUME IInv, NEW r \in RequestId, FindUser(r) PROVE IInv'
<1>1. TypeOK /\ req[r] \in RequestRecord /\ Carries(req[r])
  BY DEF IInv, TypeOK
<1>2. CASE Live(users, req[r].user)
  <2>1. PICK q \in RequestRecord : q = At(r, "save")
    BY <1>1, AtType DEF PcName, Updating
  <2>2. Carries(q)
    <3>1. PICK p \in RequestRecord : p = req[r]
      BY <1>1
    <3>2. q.pc = "save" /\ q = [p EXCEPT !.pc = q.pc]
      BY <2>1, <3>1, <1>1, AtType DEF At, PcName, Updating
    <3>3. p.pc = "find" /\ p.dto.password \in StoredSecret \cup {Unset}
      BY <3>1, <1>1 DEF FindUser, Carries, WritesHash
    <3>4. QED
      BY <3>1, <3>2, <3>3, <1>1, UpdateGoesOn DEF Updating
  <2>3. QED
    BY <1>1, <1>2, <2>1, <2>2, RequestMoves DEF FindUser, Continue, history, TypeOK
<1>3. CASE ~Live(users, req[r].user)
  BY <1>3, RequestEnds DEF FindUser, Continue
<1>4. QED
  BY <1>2, <1>3

(* A request goes on if the address is free or its user's own; nothing is written yet. *)
LEMMA CheckEmailInv == ASSUME IInv, NEW r \in RequestId, CheckEmail(r) PROVE IInv'
<1>1. TypeOK /\ req[r] \in RequestRecord /\ Carries(req[r])
  BY DEF IInv, TypeOK
<1>2. CASE req' = [req EXCEPT ![r] = At(r, "find")]
  <2>1. PICK q \in RequestRecord : q = At(r, "find")
    BY <1>1, AtType DEF PcName, Updating
  <2>2. Carries(q)
    <3>1. PICK p \in RequestRecord : p = req[r]
      BY <1>1
    <3>2. q.pc = "find" /\ q = [p EXCEPT !.pc = q.pc]
      BY <2>1, <3>1, <1>1, AtType DEF At, PcName, Updating
    <3>3. p.pc = "unique" /\ p.dto.password \in StoredSecret \cup {Unset}
      BY <3>1, <1>1 DEF CheckEmail, Carries, WritesHash
    <3>4. QED
      BY <3>1, <3>2, <3>3, <1>1, UpdateGoesOn DEF Updating
  <2>3. QED
    BY <1>1, <1>2, <2>1, <2>2, RequestMoves DEF CheckEmail, history, TypeOK
<1>3. CASE req' = [req EXCEPT ![r] = Idle]
  BY <1>3, RequestEnds DEF CheckEmail
<1>4. QED
  BY <1>2, <1>3 DEF CheckEmail, Continue

(* A password as typed. *)
LEMMA PlainType ==
  ASSUME NEW p \in Password
  PROVE  Plain(p) \in Secret /\ Plain(p) \notin {Null, Unset}
<1>1. Plain(p) \in [of : Password \cup {Mangled}, salt : Nat]
  BY DEF Plain
<1>2. QED
  BY <1>1, ValueAssumption, BoundAssumption DEF Plain, Secret

(* A stored or a typed password hashed with a fresh salt can be stored. *)
LEMMA HashType ==
  ASSUME NEW secret \in Secret, NEW salt \in 1..MaxRand
  PROVE  /\ HashOf(secret, salt) \in StoredSecret \cap Secret
         /\ HashOf(secret, salt) \notin {Null, Unset}
BY ValueAssumption, BoundAssumption DEF HashOf, Secret, StoredSecret

(* The hook plans a fresh hash for a new password, or leaves the password out. *)
LEMMA ProbePasswordInv == ASSUME IInv, NEW r \in RequestId, ProbePassword(r) PROVE IInv'
<1>1. TypeOK /\ req[r] \in RequestRecord /\ Carries(req[r]) /\ rand \in 1..MaxRand
  BY DEF IInv, TypeOK
<1>2. PICK p \in RequestRecord : p = req[r]
  BY <1>1
<1>3. /\ p.pc = "probe" /\ p.dto \in Dto /\ NamesPassword(p.dto) /\ p.user \in User
      /\ p.dto.password \in Secret
  BY <1>1, <1>2 DEF ProbePassword, Carries, WritesHash, KnowsUser, RequestRecord, Dto, Updating,
    NamesPassword
<1>4. PICK new : new = NewPassword(users[p.user], p.dto, Drawn)
  OBVIOUS
<1>5. IF new = Unset THEN rand' = rand ELSE Draw
  <2>1. new = NewPassword(users[req[r].user], req[r].dto, Drawn)
    BY <1>2, <1>4
  <2>2. QED
    BY <2>1, Zenon DEF ProbePassword
<1>6. new = Unset \/ new \in (StoredSecret \cap Secret) \ {Null, Unset}
  <2>1. CASE new # Unset
    BY <2>1, <1>1, <1>3, <1>4, <1>5, HashType, BoundAssumption DEF NewPassword, Draw, Drawn
  <2>2. QED
    BY <2>1
<1>7. PICK d \in Dto : d = [p.dto EXCEPT !.password = new]
  BY <1>3, <1>6 DEF Dto
<1> DEFINE q0 == [p EXCEPT !.dto = d, !.pc = IF NamesEmail(p.dto) THEN "unique" ELSE "find"]
<1>8. PICK q \in RequestRecord :
      /\ q = [p EXCEPT !.dto.password = new,
                       !.pc = IF NamesEmail(p.dto) THEN "unique" ELSE "find"]
      /\ q.op = p.op /\ q.user = p.user /\ q.sid = p.sid /\ q.hash = p.hash
      /\ q.stale = p.stale /\ q.pc \in {"unique", "find"} /\ q.dto.password = new
      /\ \A c \in Column \ {"password"} : q.dto[c] = p.dto[c]
  <2>1. q0 \in RequestRecord /\ q0.pc \in {"unique", "find"} /\ q0.dto = d
    BY <1>7 DEF RequestRecord, PcName, Updating
  <2>2. q0 = [p EXCEPT !.dto.password = new,
                       !.pc = IF NamesEmail(p.dto) THEN "unique" ELSE "find"]
    BY <1>7
  <2>3. d.password = new /\ \A c \in Column \ {"password"} : d[c] = p.dto[c]
    BY <1>3, <1>7 DEF Dto, Column
  <2>4. /\ q0.op = p.op /\ q0.user = p.user /\ q0.sid = p.sid /\ q0.hash = p.hash
        /\ q0.stale = p.stale
    BY DEF RequestRecord
  <2> HIDE DEF q0
  <2>5. QED
    BY <2>1, <2>2, <2>3, <2>4
<1>9. Carries(q)
  <2>1. KnowsUser(q) /\ KnowsSession(q) /\ WritesHash(q)
    BY <1>1, <1>2, <1>3, <1>6, <1>8 DEF Carries, KnowsUser, KnowsSession, WritesHash, Updating
  <2>2. WritesVouched(q)
    BY <1>1, <1>2, <1>3, <1>8 DEF Carries, WritesVouched, NamesEmail, Updating, Column
  <2>3. HasEnded(q)
    BY <1>1, <1>2, <1>3, <1>6, <1>8, ValueAssumption DEF Carries, HasEnded, NamesPassword, Updating
  <2>4. UpToDate(q)
    <3> SUFFICES ASSUME ~q.stale, q.op \notin {"update", "admin"}, NEW c \in Column \ Asked(q)
                 PROVE  q.dto[c] \in {Unset, users[q.user][c]}
      BY <1>1, <1>2, <1>3, <1>8 DEF Carries, UpToDate, Updating
    <3>1. CASE Asked(q) = Asked(p)
      <4>1. p.dto[c] \in {Unset, users[p.user][c]} /\ Live(users, p.user)
        BY <3>1, <1>1, <1>2, <1>3, <1>8 DEF Carries, UpToDate, Updating
      <4>2. CASE c = "password"
        BY <4>1, <4>2, <1>3, <1>4, <1>8 DEF NewPassword, NamesPassword, Live
      <4>3. QED
        BY <4>1, <4>2, <1>8
    <3>2. CASE Asked(q) # Asked(p)
      BY <3>2, <1>8 DEF Asked
    <3>3. QED
      BY <3>1, <3>2
  <2>5. QED
    BY <2>1, <2>2, <2>3, <2>4 DEF Carries
<1>10. QED
  BY <1>1, <1>2, <1>3, <1>4, <1>5, <1>7, <1>8, <1>9, RequestMoves
     DEF ProbePassword, Continue, history, TypeOK

(* A request about to go through update carries what it should when its dto has been
   vouched for, the sessions it has to end are ended, and it is up to date. *)
LEMMA UpdateBegins ==
  ASSUME NEW q \in RequestRecord, q.pc \in {"newEmail", "probe", "unique", "find"},
         q.pc = "newEmail" => q.email \in Email,
         q.pc = "probe" => NamesPassword(q.dto),
         q.pc \in {"unique", "find"} => ~NamesPassword(q.dto),
         q.user \in User, users[q.user].state # "none", q.hash <= rand,
         WritesVouched(q), HasEnded(q), UpToDate(q)
  PROVE  Carries(q)
BY DEF Carries, KnowsUser, KnowsSession, WritesHash, NamesPassword, RequestRecord, Dto,
  StoredSecret

(* The request WriteBack starts: the handlers that read a user and write it back, or
   write the columns of a dto. *)
WrittenBack(op, u, changed) == Update([Begin(op, "", u) EXCEPT !.dto = changed])

(* It is at the first await of update, with its dto. *)
LEMMA WriteBackType ==
  ASSUME NEW op \in OpName, NEW u \in User, NEW changed \in Dto
  PROVE  \E q \in RequestRecord :
             /\ q = WrittenBack(op, u, changed)
             /\ q.op = op /\ q.user = u /\ q.dto = changed /\ q.hash = 0 /\ ~q.stale
             /\ q.pc \in {"probe", "unique", "find"}
             /\ q.pc = "probe" <=> NamesPassword(changed)
<1>1. PICK b \in RequestRecord :
        b = Begin(op, "find", u) /\ b.op = op /\ b.user = u /\ b.hash = 0 /\ ~b.stale
  BY BeginType DEF PcName, Updating
<1>2. PICK p \in RequestRecord : p = [b EXCEPT !.dto = changed]
  BY DEF RequestRecord
<1>3. p.dto = changed /\ p.op = op /\ p.user = u /\ p.hash = 0 /\ ~p.stale
  BY <1>1, <1>2 DEF RequestRecord
<1>4. Update([Begin(op, "", u) EXCEPT !.dto = changed]) = Update(p)
  <2>1. [Begin(op, "", u) EXCEPT !.dto = changed].dto = p.dto
    BY <1>3 DEF Begin, Idle
  <2>2. \A pc : [[Begin(op, "", u) EXCEPT !.dto = changed] EXCEPT !.pc = pc]
               = [p EXCEPT !.pc = pc]
    BY <1>1, <1>2 DEF Begin, Idle
  <2>3. QED
    BY <2>1, <2>2 DEF Update
<1>5. /\ Update(p) \in RequestRecord /\ Update(p).pc \in {"probe", "unique", "find"}
      /\ Update(p).pc = "probe" <=> NamesPassword(changed)
      /\ Update(p) = [p EXCEPT !.pc = Update(p).pc]
  BY <1>3, UpdateType
<1>6. PICK q \in RequestRecord : q = Update(p) /\ q = [p EXCEPT !.pc = q.pc]
  BY <1>5
<1>7. q.op = op /\ q.user = u /\ q.dto = changed /\ q.hash = 0 /\ ~q.stale
  BY <1>3, <1>6 DEF RequestRecord
<1>8. QED
  BY <1>4, <1>5, <1>6, <1>7, Zenon DEF WrittenBack

(* Columns that are passed back are as they are stored, but for those the handler is
   there to change; an address that is passed on has been vouched for. *)
LEMMA WriteBackInv ==
  ASSUME IInv, NEW r \in RequestId, req[r].pc # "reply",
         NEW op \in {"confirm", "confirmNew", "social", "admin"},
         NEW u \in User, Live(users, u), NEW changed \in Dto, WriteBack(r, op, u, changed),
         UNCHANGED <<users, sessions, tokens, mails, rand, spent, lost, excused>>,
         vouched \subseteq vouched',
         vouched' \subseteq [user : User, email : Email \cup {Null}],
         op \in {"social", "admin"} \/ ~NamesEmail(changed)
           \/ Address(u, changed.email) \in vouched',
         \A c \in Column :
            \/ changed[c] \in {Unset, users[u][c]} \/ op = "admin"
            \/ c = "status" /\ op \in {"confirm", "confirmNew"}
            \/ c = "email" /\ op \in {"confirmNew", "social"}
  PROVE  IInv'
<1>1. TypeOK /\ rand \in 1..MaxRand /\ op \in OpName
  BY DEF IInv, TypeOK, OpName
<1>2. PICK q \in RequestRecord :
        /\ q = WrittenBack(op, u, changed)
        /\ q.op = op /\ q.user = u /\ q.dto = changed /\ q.hash = 0 /\ ~q.stale
        /\ q.pc \in {"probe", "unique", "find"}
        /\ q.pc = "probe" <=> NamesPassword(changed)
  BY <1>1, WriteBackType
<1>3. Carries(q)'
  <2>1. KnowsUser(q)'
    BY <1>2 DEF KnowsUser, Live
  <2>11. KnowsSession(q)'
    <3>1. q.hash <= rand'
      BY <1>1, <1>2, BoundAssumption
    <3>2. QED
      BY <3>1, <1>2 DEF KnowsSession
  <2>2. WritesHash(q)'
    BY <1>2 DEF WritesHash, NamesPassword, RequestRecord, Dto, StoredSecret
  <2>3. WritesVouched(q)' /\ HasEnded(q)'
    BY <1>2 DEF WritesVouched, HasEnded, EndsSessions
  <2>4. UpToDate(q)'
    BY <1>2 DEF UpToDate, Asked, Live
  <2>5. QED
    BY <2>1, <2>11, <2>2, <2>3, <2>4 DEF Carries
<1>4. rand' \in rand..MaxRand /\ mails' \subseteq MailRecord
  BY <1>1 DEF TypeOK
<1>5. req' = [req EXCEPT ![r] = q]
  BY <1>2, Zenon DEF WriteBack, Continue, WrittenBack
<1>6. QED
  BY <1>2, <1>3, <1>4, <1>5, RequestStep

(* A confirmation plans to write the whole user it read back, with the status active. *)
LEMMA ConfirmEmailInv == ASSUME IInv, NEW r \in RequestId, ConfirmEmail(r) PROVE IInv'
<1>1. TypeOK
  BY DEF IInv
<1>2. PICK m \in mails :
        /\ Live(users, m.user)
        /\ WriteBack(r, "confirm", m.user,
                     [WholeUser(users[m.user]) EXCEPT !.status = "active"])
  BY DEF ConfirmEmail
<1>3. PICK u \in User : u = m.user /\ users[u] \in UserRecord
  BY <1>1 DEF TypeOK, MailRecord
<1>4. PICK changed \in Dto :
        /\ changed = [WholeUser(users[u]) EXCEPT !.status = "active"]
        /\ \A c \in Column \ {"status"} : changed[c] = users[u][c]
  <2>1. PICK w \in Dto : w = WholeUser(users[u]) /\ \A c \in Column : w[c] = users[u][c]
    BY <1>3, WholeUserType
  <2>2. [w EXCEPT !.status = "active"] \in Dto
    BY DEF Dto
  <2>3. QED
    BY <2>1, <2>2 DEF Dto, Column
<1>5. NamesEmail(changed) => Address(u, changed.email) \in vouched
  BY <1>2, <1>3, <1>4 DEF IInv, AddressVouched, NamesEmail, Live, Column
<1>6. Live(users, u) /\ WriteBack(r, "confirm", u, changed)
  BY <1>2, <1>3, <1>4
<1>7. req[r].pc # "reply" /\ UNCHANGED <<users, sessions, tokens, mails, rand, history>>
  BY DEF ConfirmEmail, Starts
<1>8. vouched' \subseteq [user : User, email : Email \cup {Null}]
  BY <1>1, <1>7 DEF TypeOK, history
<1>9. \A c \in Column \ {"status"} : changed[c] = users[u][c]
  BY <1>4
<1>10. QED
  BY <1>5, <1>6, <1>7, <1>8, <1>9, WriteBackInv DEF history

(* ... and that of a new address plans it too: the mail it came from vouches for it. *)
LEMMA ConfirmNewEmailInv == ASSUME IInv, NEW r \in RequestId, ConfirmNewEmail(r) PROVE IInv'
<1>1. TypeOK
  BY DEF IInv
<1>2. PICK m \in mails :
        /\ Live(users, m.user)
        /\ WriteBack(r, "confirmNew", m.user,
                     [WholeUser(users[m.user]) EXCEPT !.email = NewAddress(m),
                                                      !.status = "active"])
        /\ vouched' = IF m.kind = "newEmail" THEN vouched \cup {Address(m.user, m.email)}
                                             ELSE vouched
  BY DEF ConfirmNewEmail
<1>3. PICK u \in User : u = m.user /\ users[u] \in UserRecord /\ m.email \in Email
  BY <1>1 DEF TypeOK, MailRecord
<1>4. PICK changed \in Dto :
        /\ changed = [WholeUser(users[u]) EXCEPT !.email = NewAddress(m), !.status = "active"]
        /\ changed.email = NewAddress(m)
        /\ \A c \in Column \ {"email", "status"} : changed[c] = users[u][c]
  <2>1. PICK w \in Dto : w = WholeUser(users[u]) /\ \A c \in Column : w[c] = users[u][c]
    BY <1>3, WholeUserType
  <2>2. [w EXCEPT !.email = NewAddress(m), !.status = "active"] \in Dto
    BY <1>3 DEF Dto, NewAddress
  <2>3. QED
    BY <2>1, <2>2 DEF Dto, Column
<1>5. NamesEmail(changed) => Address(u, changed.email) \in vouched'
  BY <1>2, <1>3, <1>4 DEF NamesEmail, NewAddress
<1>6. /\ vouched \subseteq vouched'
      /\ vouched' \subseteq [user : User, email : Email \cup {Null}]
  BY <1>1, <1>2, <1>3 DEF TypeOK, Address
<1>7. Live(users, u) /\ WriteBack(r, "confirmNew", u, changed)
  BY <1>2, <1>3, <1>4
<1>8. /\ req[r].pc # "reply"
      /\ UNCHANGED <<users, sessions, tokens, mails, rand, spent, lost, excused>>
  BY DEF ConfirmNewEmail, Starts
<1>9. \A c \in Column \ {"email", "status"} : changed[c] = users[u][c]
  BY <1>4
<1>10. QED
  BY <1>5, <1>6, <1>7, <1>8, <1>9, WriteBackInv

(* What an administrator changes is planned, not yet written. *)
LEMMA AdminUpdateInv == ASSUME IInv, NEW r \in RequestId, AdminUpdate(r) PROVE IInv'
<1>1. TypeOK
  BY DEF IInv
<1>2. PICK u \in User, e \in Email \cup {Unset}, p \in Password \cup {Unset},
           f \in Profile \cup {Unset}, role \in {"user", Unset}, status \in Status \cup {Unset} :
        /\ Live(users, u)
        /\ WriteBack(r, "admin", u,
              [Nothing EXCEPT !.email = e, !.profile = f, !.role = role, !.status = status,
                              !.password = IF p = Unset THEN Unset ELSE Plain(p)])
  BY DEF AdminUpdate
<1>3. (IF p = Unset THEN Unset ELSE Plain(p)) \in Secret \cup {Unset}
  BY BoundAssumption DEF Plain, Secret
<1>4. PICK changed \in Dto :
        changed = [Nothing EXCEPT !.email = e, !.profile = f, !.role = role, !.status = status,
                                  !.password = IF p = Unset THEN Unset ELSE Plain(p)]
  BY <1>3, NothingType, BoundAssumption DEF Dto
<1>5. QED
  BY <1>1, <1>2, <1>4, WriteBackInv DEF AdminUpdate, Starts, history, TypeOK

(***************************************************************************)
(* Requests that begin, or go on without update                            *)
(***************************************************************************)
(* A request that goes on to a login or through a refresh. *)
LEMMA GoesOn ==
  ASSUME IInv, NEW r \in RequestId, NEW pc \in {"open", "locate", "rotate"},
         req' = [req EXCEPT ![r] = At(r, pc)], req[r].pc # "reply",
         req[r].user \in User, users[req[r].user].state # "none",
         pc # "open" => req[r].pc \in {"owner", "locate"},
         UNCHANGED <<users, sessions, tokens, mails, rand, history>>
  PROVE  IInv'
<1>1. TypeOK /\ req[r] \in RequestRecord /\ Carries(req[r])
  BY DEF IInv, TypeOK
<1>2. PICK q \in RequestRecord :
        /\ q = At(r, pc) /\ q.pc = pc /\ q.user = req[r].user /\ q.sid = req[r].sid
        /\ q.hash = req[r].hash
  BY <1>1, AtType DEF PcName
<1>3. Carries(q)
  BY <1>1, <1>2 DEF Carries, KnowsUser, KnowsSession, WritesHash, WritesVouched, HasEnded,
    UpToDate, Updating
<1>4. QED
  BY <1>1, <1>2, <1>3, RequestMoves DEF history, TypeOK

(* A read of the user's row only adds to what the request has read. *)
LEMMA RereadUserInv == ASSUME IInv, NEW r \in RequestId, RereadUser(r) PROVE IInv'
<1>1. CASE Live(users, req[r].user)
  <2>1. req[r].user \in User /\ users[req[r].user].state # "none"
    BY DEF IInv, RereadUser, Carries, KnowsUser
  <2>2. QED
    BY <1>1, <2>1, GoesOn DEF RereadUser, Continue
<1>2. CASE ~Live(users, req[r].user)
  BY <1>2, RequestEnds DEF RereadUser, Continue
<1>3. QED
  BY <1>1, <1>2

(* A read of the session's owner only adds to what the request has read. *)
LEMMA ReadOwnerInv == ASSUME IInv, NEW r \in RequestId, ReadOwner(r) PROVE IInv'
<1>1. CASE Live(users, req[r].user) /\ users[req[r].user].role # Null
  <2>1. req[r].user \in User /\ users[req[r].user].state # "none"
    BY DEF IInv, ReadOwner, Carries, KnowsUser
  <2>2. QED
    BY <1>1, <2>1, GoesOn DEF ReadOwner, Continue
<1>2. CASE ~(Live(users, req[r].user) /\ users[req[r].user].role # Null)
  BY <1>2, RequestEnds DEF ReadOwner, Continue
<1>3. QED
  BY <1>1, <1>2

(* A read of the session only adds to what the request has read. *)
LEMMA FindSessionInv == ASSUME IInv, NEW r \in RequestId, FindSession(r) PROVE IInv'
<1>1. CASE LiveSession(sessions, req[r].sid) /\ Live(users, req[r].user)
  <2>1. req[r].user \in User /\ users[req[r].user].state # "none"
    BY DEF IInv, FindSession, Carries, KnowsUser
  <2>2. QED
    BY <1>1, <2>1, GoesOn DEF FindSession, Continue
<1>2. CASE ~(LiveSession(sessions, req[r].sid) /\ Live(users, req[r].user))
  BY <1>2, RequestEnds DEF FindSession, Continue
<1>3. QED
  BY <1>1, <1>2

(* A confirmation mail carries a token for the address it goes to. *)
LEMMA SendConfirmationInv == ASSUME IInv, NEW r \in RequestId, SendConfirmation(r) PROVE IInv'
<1>1. TypeOK /\ rand \in 1..MaxRand
  BY DEF IInv, TypeOK
<1>2. req[r].user \in User /\ req[r].dto.email \in Email
  <2>1. Carries(req[r]) /\ req[r].pc = "mail"
    BY DEF IInv, SendConfirmation
  <2>2. QED
    BY <2>1 DEF Carries, KnowsUser, WritesHash
<1>3. mails' \subseteq MailRecord
  BY <1>1, <1>2 DEF SendConfirmation, Post, Mail, MailRecord, TypeOK
<1>4. PICK q \in RequestRecord : q = Idle
  BY IdleType
<1>5. Carries(q)
  BY <1>1, <1>4, IdleType, BoundAssumption, CarriesNothing
<1>6. QED
  BY <1>3, <1>4, <1>5, RequestMoves DEF SendConfirmation, Continue, history

(* A login creates a session with a hash of its own. *)
LEMMA LoginInv == ASSUME IInv, NEW r \in RequestId, Login(r) PROVE IInv'
<1>1. TypeOK /\ rand \in 1..MaxRand
  BY DEF IInv, TypeOK
<1>2. PICK u \in User :
        /\ users[u].state = "live"
        /\ Continue(r, [Begin("login", "open", u) EXCEPT !.under = users[u].password])
  BY DEF Login, FindByEmail, Live
<1>3. users[u].password \in StoredSecret
  BY <1>1 DEF TypeOK, UserRecord
<1>4. PICK b \in RequestRecord : b = Begin("login", "open", u) /\ b.hash = 0 /\ b.user = u
                                  /\ b.pc = "open"
  BY BeginType DEF OpName, PcName
<1>5. PICK q \in RequestRecord : /\ q = [b EXCEPT !.under = users[u].password]
                                  /\ q.hash = 0 /\ q.user = u /\ q.pc = "open"
  <2>1. PICK h \in StoredSecret : h = users[u].password
    BY <1>3
  <2>2. [b EXCEPT !.under = h] \in RequestRecord
    BY DEF RequestRecord
  <2>3. QED
    BY <2>1, <2>2, <1>4 DEF RequestRecord
<1>6. Carries(q)
  BY <1>1, <1>2, <1>5, BoundAssumption
     DEF Carries, KnowsUser, KnowsSession, WritesHash, WritesVouched, HasEnded, UpToDate, Updating
<1>7. req' = [req EXCEPT ![r] = q]
  BY <1>2, <1>4, <1>5 DEF Continue
<1>8. QED
  BY <1>1, <1>6, <1>7, RequestMoves DEF Login, Starts, history, TypeOK

(* A refresh replaces the hash of the session by a fresh one. *)
LEMMA RefreshInv == ASSUME IInv, NEW r \in RequestId, Refresh(r) PROVE IInv'
<1>1. TypeOK /\ rand \in 1..MaxRand
  BY DEF IInv, TypeOK
<1>2. PICK t \in tokens :
        /\ sessions[t.sid].state = "live" /\ Live(users, sessions[t.sid].user)
        /\ Continue(r, [Begin("refresh", "owner", sessions[t.sid].user) EXCEPT
                          !.sid = t.sid, !.hash = t.hash])
  BY DEF Refresh, Matches, LiveSession
<1>3. PICK u \in User : u = sessions[t.sid].user /\ users[u].state # "none"
  BY <1>1, <1>2 DEF IInv, OwnersExist, TypeOK, TokenRecord, Live
<1>4. t.sid \in SessionId /\ t.hash \in 0..MaxRand /\ t.hash <= rand /\ t = Token(t.sid, t.hash)
  BY <1>1 DEF IInv, HashesDrawn, TypeOK, TokenRecord, Token
<1>5. PICK b \in RequestRecord : b = Begin("refresh", "owner", u) /\ b.user = u /\ b.pc = "owner"
  BY BeginType DEF OpName, PcName
<1>6. PICK q \in RequestRecord :
        /\ q = [b EXCEPT !.sid = t.sid, !.hash = t.hash]
        /\ q.sid = t.sid /\ q.hash = t.hash /\ q.user = u /\ q.pc = "owner"
  <2>1. PICK s \in SessionId, h \in 0..MaxRand : s = t.sid /\ h = t.hash
    BY <1>4
  <2>2. [b EXCEPT !.sid = s, !.hash = h] \in RequestRecord
    BY DEF RequestRecord
  <2>3. QED
    BY <2>1, <2>2, <1>5 DEF RequestRecord
<1>7. Carries(q)
  BY <1>2, <1>3, <1>4, <1>6
     DEF Carries, KnowsUser, KnowsSession, WritesHash, WritesVouched, HasEnded, UpToDate, Updating
<1>8. req' = [req EXCEPT ![r] = q]
  BY <1>2, <1>3, <1>5, <1>6 DEF Continue
<1>9. QED
  BY <1>1, <1>7, <1>8, RequestMoves DEF Refresh, Starts, history, TypeOK

(* A reset plans the user it read with a new password, and wipes the sessions before the save. *)
LEMMA ResetPasswordInv == ASSUME IInv, NEW r \in RequestId, ResetPassword(r) PROVE IInv'
<1>1. TypeOK /\ rand \in 1..MaxRand
  BY DEF IInv, TypeOK
<1>2. PICK m \in mails, w \in Password :
        /\ Live(users, m.user)
        /\ Continue(r, [Begin("reset", "wipe", m.user) EXCEPT
                          !.dto = [WholeUser(users[m.user]) EXCEPT !.password = Plain(w)]])
  BY DEF ResetPassword
<1>3. PICK u \in User : u = m.user /\ users[u] \in UserRecord /\ users[u].state = "live"
  BY <1>1, <1>2 DEF TypeOK, MailRecord, Live
<1>4. PICK new \in Secret : new = Plain(w) /\ new # Null
  BY PlainType
<1>5. PICK d \in Dto : /\ d = [WholeUser(users[u]) EXCEPT !.password = new]
                       /\ d.password = new
                       /\ \A c \in Column \ {"password"} : d[c] = users[u][c]
  <2>1. PICK whole \in Dto :
          whole = WholeUser(users[u]) /\ \A c \in Column : whole[c] = users[u][c]
    BY <1>3, WholeUserType
  <2>2. [whole EXCEPT !.password = new] \in Dto
    BY DEF Dto
  <2>3. QED
    BY <2>1, <2>2 DEF Dto, Column
<1>6. PICK b \in RequestRecord : /\ b = Begin("reset", "wipe", u) /\ b.op = "reset"
                                 /\ b.pc = "wipe" /\ b.user = u /\ b.hash = 0
  BY BeginType DEF OpName, PcName, Updating
<1>7. PICK q \in RequestRecord :
        q = [b EXCEPT !.dto = d]
  BY DEF RequestRecord
<1>8. q.op = "reset" /\ q.pc = "wipe" /\ q.user = u /\ q.dto = d /\ q.hash = 0
  BY <1>6, <1>7 DEF RequestRecord
<1>9. req' = [req EXCEPT ![r] = q]
  BY <1>2, <1>3, <1>4, <1>5, <1>6, <1>7 DEF Continue
<1>10. d.password # Null /\ \A c \in Column \ {"password"} : d[c] = users[u][c]
  BY <1>4, <1>5
<1>11. Carries(q)
  <2>1. KnowsUser(q) /\ KnowsSession(q) /\ WritesHash(q)
    BY <1>1, <1>3, <1>8, BoundAssumption DEF KnowsUser, KnowsSession, WritesHash
  <2>2. WritesVouched(q)
    <3>1. d.email = users[u].email
      BY <1>10 DEF Column
    <3>2. QED
      BY <3>1, <1>3, <1>8 DEF IInv, AddressVouched, WritesVouched, NamesEmail
  <2>3. HasEnded(q) /\ UpToDate(q)
    BY <1>3, <1>8, <1>10 DEF HasEnded, UpToDate, Live, Asked
  <2>4. QED
    BY <2>1, <2>2, <2>3 DEF Carries
<1>12. QED
  BY <1>1, <1>9, <1>11, RequestMoves DEF ResetPassword, Starts, history, TypeOK

(* The await of update after the deletion of the other sessions. *)
LEMMA NewEmailOrUpdateType ==
  ASSUME NEW q \in RequestRecord
  PROVE  /\ NewEmailOrUpdate(q) \in RequestRecord
         /\ NewEmailOrUpdate(q).pc \in {"newEmail", "probe", "unique", "find"}
         /\ NewEmailOrUpdate(q).pc = "newEmail" => q.email \in Email
         /\ NewEmailOrUpdate(q).pc = "probe" => NamesPassword(q.dto)
         /\ NewEmailOrUpdate(q).pc \in {"unique", "find"} => ~NamesPassword(q.dto)
         /\ NewEmailOrUpdate(q) = [q EXCEPT !.pc = NewEmailOrUpdate(q).pc]
<1>1. CASE q.email = Null
  BY <1>1, UpdateType DEF NewEmailOrUpdate
<1>2. CASE q.email # Null
  <2>1. NewEmailOrUpdate(q) = [q EXCEPT !.pc = "newEmail"]
    BY <1>2 DEF NewEmailOrUpdate
  <2>2. QED
    BY <1>2, <2>1 DEF RequestRecord, PcName, Updating
<1>3. QED
  BY <1>1, <1>2

(* PATCH me before its first await: columns it does not name are unset. *)
MeRequest(u, s, d, e) ==
  [Begin("update", "others", u) EXCEPT !.dto = d, !.sid = s, !.email = e]

(* It carries its dto and the session it came in on. *)
LEMMA MeRequestType ==
  ASSUME NEW u \in User, NEW s \in SessionId, NEW d \in Dto, NEW e \in Email \cup {Null}
  PROVE  \E q \in RequestRecord :
           /\ q = MeRequest(u, s, d, e)
           /\ q.op = "update" /\ q.pc = "others" /\ q.user = u /\ q.dto = d /\ q.sid = s
           /\ q.hash = 0
<1>1. PICK b \in RequestRecord : /\ b = Begin("update", "others", u) /\ b.op = "update"
                                 /\ b.pc = "others" /\ b.user = u /\ b.hash = 0
  BY BeginType DEF OpName, PcName, Updating
<1>2. PICK q \in RequestRecord : q = [b EXCEPT !.dto = d, !.sid = s, !.email = e]
  BY DEF RequestRecord
<1>3. /\ q.op = "update" /\ q.pc = "others" /\ q.user = u /\ q.dto = d /\ q.sid = s
      /\ q.hash = 0
  BY <1>1, <1>2 DEF RequestRecord
<1>4. q = MeRequest(u, s, d, e)
  BY <1>1, <1>2, Zenon DEF MeRequest
<1>5. QED
  BY <1>3, <1>4

(* A user's own update is planned after the old password matched, and plans the end of
   the other sessions. *)
LEMMA UpdateMeInv == ASSUME IInv, NEW r \in RequestId, UpdateMe(r) PROVE IInv'
<1>1. TypeOK /\ rand \in 1..MaxRand
  BY DEF IInv, TypeOK
<1> DEFINE dto(w, f) ==
      [Nothing EXCEPT !.profile = f, !.password = IF w = Unset THEN Unset ELSE Plain(w)]
<1> DEFINE address(u, e0) == IF e0 = users[u].email THEN Null ELSE e0
<1>2. PICK u \in User, s \in SessionId :
        \E e0 \in Email \cup {Null}, w \in Password \cup {Unset}, f \in Profile \cup {Unset} :
          LET q == MeRequest(u, s, dto(w, f), address(u, e0))
          IN  /\ Access(u, s) /\ Live(users, u)
              /\ NamesPassword(dto(w, f)) => \E old \in Password : Compare(old, users[u].password)
              /\ Continue(r, IF NamesPassword(dto(w, f)) THEN q ELSE NewEmailOrUpdate(q))
  BY Zenon DEF UpdateMe, MeRequest
<1>21. PICK e0 \in Email \cup {Null}, w \in Password \cup {Unset}, f \in Profile \cup {Unset} :
          /\ Live(users, u)
          /\ Continue(r, IF NamesPassword(dto(w, f))
                           THEN MeRequest(u, s, dto(w, f), address(u, e0))
                           ELSE NewEmailOrUpdate(MeRequest(u, s, dto(w, f), address(u, e0))))
  BY <1>2
<1>3. PICK d, e :
        /\ d = dto(w, f) /\ e = address(u, e0)
        /\ Live(users, u)
        /\ Continue(r, IF NamesPassword(d) THEN MeRequest(u, s, d, e)
                                           ELSE NewEmailOrUpdate(MeRequest(u, s, d, e)))
  BY <1>21
<1>4. PICK new \in Secret \cup {Unset} :
        new = (IF w = Unset THEN Unset ELSE Plain(w)) /\ new # Null
  BY PlainType, ValueAssumption
<1>5. d \in Dto /\ d.password # Null /\ d.email = Unset
  <2>1. PICK n \in Dto : n = Nothing /\ \A c \in Column : n[c] = Unset
    BY NothingType
  <2>2. d = [n EXCEPT !.profile = f, !.password = new]
    BY <1>3, <1>4, <2>1
  <2>3. QED
    BY <1>4, <2>1, <2>2 DEF Dto, Column
<1>6. e \in Email \cup {Null}
  BY <1>3
<1>7. PICK p \in RequestRecord :
        /\ p = MeRequest(u, s, d, e) /\ p.op = "update" /\ p.pc = "others" /\ p.user = u
        /\ p.dto = d /\ p.sid = s /\ p.hash = 0
  BY <1>5, <1>6, MeRequestType
<1>8. users[u].state = "live" /\ 0 <= rand
  BY <1>1, <1>3, BoundAssumption DEF Live
<1>9. Continue(r, IF NamesPassword(d) THEN p ELSE NewEmailOrUpdate(p))
  BY <1>3, <1>7
<1>10. CASE NamesPassword(d)
  <2>1. req' = [req EXCEPT ![r] = p]
    BY <1>9, <1>10 DEF Continue
  <2>2. Carries(p)
    BY <1>5, <1>7, <1>8 DEF Carries, KnowsUser, KnowsSession, WritesHash, WritesVouched,
      HasEnded, UpToDate, NamesEmail, Live
  <2>3. QED
    BY <1>1, <2>1, <2>2, RequestMoves DEF UpdateMe, Starts, history, TypeOK
<1>11. CASE ~NamesPassword(d)
  <2>1. PICK g \in RequestRecord : g = NewEmailOrUpdate(p) /\ g = [p EXCEPT !.pc = g.pc]
    BY NewEmailOrUpdateType
  <2>2. /\ g.pc \in {"newEmail", "unique", "find"} /\ g.op = "update" /\ g.user = u
        /\ g.dto = d /\ g.hash = 0 /\ g.email = p.email
        /\ g.pc = "newEmail" => g.email \in Email
    BY <1>7, <1>11, <2>1, NewEmailOrUpdateType DEF RequestRecord
  <2>3. WritesVouched(g) /\ HasEnded(g) /\ UpToDate(g)
    BY <1>5, <1>8, <1>11, <2>2 DEF WritesVouched, HasEnded, UpToDate, NamesEmail, Live
  <2>4. Carries(g)
    BY <1>8, <1>11, <2>2, <2>3, UpdateBegins
  <2>5. req' = [req EXCEPT ![r] = g]
    BY <1>9, <1>11, <2>1 DEF Continue
  <2>6. QED
    BY <1>1, <2>4, <2>5, RequestMoves DEF UpdateMe, Starts, history, TypeOK
<1>12. QED
  BY <1>10, <1>11

(* A new address is mailed a token if nobody else has it. *)
LEMMA MailNewEmailInv == ASSUME IInv, NEW r \in RequestId, MailNewEmail(r) PROVE IInv'
<1>1. TypeOK /\ rand \in 1..MaxRand
  BY DEF IInv, TypeOK
<1>2. PICK p \in RequestRecord : p = req[r]
  BY <1>1 DEF TypeOK
<1>3. Carries(p) /\ p.pc = "newEmail"
  BY <1>2 DEF IInv, MailNewEmail
<1>4. p.user \in User /\ users[p.user].state # "none" /\ p.email \in Email /\ p.hash <= rand
  BY <1>3 DEF Carries, KnowsUser, KnowsSession, WritesHash, Updating
<1>5. CASE /\ Post("newEmail", p.user, p.email)
           /\ Continue(r, Update([p EXCEPT !.dto = MailedDto(r)]))
  <2>1. [p EXCEPT !.dto = MailedDto(r)] = p
    BY <1>2 DEF MailedDto, RequestRecord
  <2>2. PICK q \in RequestRecord :
          /\ q = Update(p) /\ q.pc \in {"probe", "unique", "find"}
          /\ q.pc = "probe" <=> NamesPassword(p.dto)
          /\ q = [p EXCEPT !.pc = q.pc]
    BY UpdateType
  <2>3. /\ q.op = p.op /\ q.user = p.user /\ q.dto = p.dto /\ q.sid = p.sid
        /\ q.hash = p.hash /\ q.stale = p.stale /\ Asked(q) = Asked(p)
    BY <2>2 DEF RequestRecord, Asked
  <2>4. WritesVouched(q) /\ HasEnded(q) /\ UpToDate(q)
    BY <1>3, <2>2, <2>3 DEF Carries, WritesVouched, HasEnded, UpToDate, Updating
  <2>5. Carries(q)
    BY <1>4, <2>2, <2>3, <2>4, UpdateBegins
  <2>6. req' = [req EXCEPT ![r] = q]
    BY <1>5, <2>1, <2>2 DEF Continue
  <2>7. mails' \subseteq MailRecord
    BY <1>1, <1>4, <1>5 DEF Post, Mail, MailRecord, TypeOK
  <2>8. QED
    BY <1>2, <1>3, <2>5, <2>6, <2>7, RequestMoves DEF MailNewEmail, history
<1>6. CASE Continue(r, Idle) /\ UNCHANGED mails
  BY <1>6, RequestEnds DEF MailNewEmail, Continue
<1>7. QED
  BY <1>2, <1>5, <1>6 DEF MailNewEmail

(***************************************************************************)
(* Creating a user                                                         *)
(***************************************************************************)
(* The request that is about to insert a user carries a complete row. *)
LEMMA CreatingInv ==
  ASSUME IInv, NEW r \in RequestId, req[r].pc # "reply",
         NEW op \in {"register", "social", "admin"}, NEW dto \in Dto,
         \A c \in Column : dto[c] # Unset, dto.password \in StoredSecret,
         op = "register" => dto.email \in Email, Creating(r, op, dto),
         UNCHANGED <<users, sessions, tokens, mails, history>>, rand' = rand \/ Draw
  PROVE  IInv'
<1>1. TypeOK /\ rand \in 1..MaxRand
  BY DEF IInv, TypeOK
<1>2. PICK b \in RequestRecord : /\ b = Begin(op, "insert", Null)
                                 /\ b.op = op /\ b.pc = "insert" /\ b.hash = 0
  BY BeginType DEF OpName, PcName
<1>3. PICK q \in RequestRecord : q = [b EXCEPT !.dto = dto]
  BY DEF RequestRecord
<1>4. q.dto = dto /\ q.op = op /\ q.pc = "insert" /\ q.hash = 0
  BY <1>2, <1>3 DEF RequestRecord
<1>5. Carries(q)
  BY <1>1, <1>4, BoundAssumption DEF Carries, KnowsUser, KnowsSession, WritesHash,
    WritesVouched, HasEnded, UpToDate, Updating
<1>6. req' = [req EXCEPT ![r] = q]
  BY <1>2, <1>3 DEF Creating, Continue
<1>7. mails' \subseteq MailRecord
  BY <1>1 DEF TypeOK
<1>8. QED
  BY <1>5, <1>6, <1>7, RequestMoves DEF history

(* A new user's columns are all there. *)
LEMMA NewUserType ==
  ASSUME NEW e \in Email \cup {Null}, NEW secret \in StoredSecret,
         NEW provider \in {"email", "google"}, NEW x \in SocialId \cup {Null},
         NEW role \in {"user", Null}, NEW status \in {"active", "inactive", Null},
         secret # Unset
  PROVE  \E dto \in Dto : /\ dto = NewUser(e, secret, provider, x, role, status)
                          /\ dto.email = e /\ dto.password = secret
                          /\ \A c \in Column : dto[c] # Unset
<1>1. secret \in Secret \cup {Null}
  BY BoundAssumption DEF StoredSecret, Secret
<1> DEFINE dto == NewUser(e, secret, provider, x, role, status)
<1>2. dto \in Dto /\ dto.email = e /\ dto.password = secret
  BY <1>1 DEF NewUser, Dto
<1>3. \A c \in Column : dto[c] # Unset
  BY ValueAssumption DEF NewUser, Column
<1>4. QED
  BY <1>2, <1>3

(* A registration plans a new user with a hashed password. *)
LEMMA RegisterInv == ASSUME IInv, NEW r \in RequestId, Register(r) PROVE IInv'
<1>1. PICK e \in Email, p \in Password :
        Creating(r, "register",
                  NewUser(e, HashOf(Plain(p), Drawn), "email", Null, "user", "inactive"))
  BY DEF Register
<1>2. HashOf(Plain(p), Drawn) \in StoredSecret /\ HashOf(Plain(p), Drawn) # Unset
  BY PlainType, HashType, BoundAssumption DEF Register, Draw, Drawn, IInv, TypeOK
<1>3. PICK dto \in Dto :
        /\ dto = NewUser(e, HashOf(Plain(p), Drawn), "email", Null, "user", "inactive")
        /\ dto.email = e /\ dto.password = HashOf(Plain(p), Drawn)
        /\ \A c \in Column : dto[c] # Unset
  BY <1>2, NewUserType
<1>4. QED
  BY <1>1, <1>2, <1>3, CreatingInv DEF Register, Starts, history

(* So does the creation of a user by an administrator. *)
LEMMA AdminCreateInv == ASSUME IInv, NEW r \in RequestId, AdminCreate(r) PROVE IInv'
<1>1. PICK e \in Email, p \in Password, role \in {"user", Null}, status \in Status \cup {Null} :
        Creating(r, "admin", NewUser(e, HashOf(Plain(p), Drawn), "email", Null, role, status))
  BY DEF AdminCreate
<1>2. HashOf(Plain(p), Drawn) \in StoredSecret /\ HashOf(Plain(p), Drawn) # Unset
  BY PlainType, HashType, BoundAssumption DEF AdminCreate, Draw, Drawn, IInv, TypeOK
<1>3. PICK dto \in Dto :
        /\ dto = NewUser(e, HashOf(Plain(p), Drawn), "email", Null, role, status)
        /\ dto.email = e /\ dto.password = HashOf(Plain(p), Drawn)
        /\ \A c \in Column : dto[c] # Unset
  <2>1. status \in {"active", "inactive", Null}
    BY BoundAssumption
  <2>2. QED
    BY <1>2, <2>1, NewUserType
<1>4. QED
  BY <1>1, <1>2, <1>3, CreatingInv DEF AdminCreate, Starts, history

(***************************************************************************)
(* Social login                                                            *)
(***************************************************************************)
LEMMA SocialLoginInv == ASSUME IInv, NEW r \in RequestId, SocialLogin(r) PROVE IInv'
<1>1. TypeOK /\ rand \in 1..MaxRand
  BY DEF IInv, TypeOK
<1>2. PICK x \in SocialId, e \in Email \cup {Null}, u \in User \cup {Null} :
        /\ u = Null \/ Live(users, u)
        /\ Continue(r, [Begin("social", "match", u) EXCEPT !.email = e, !.dto.socialId = x])
  BY Zenon DEF SocialLogin, FindByEmail
<1>3. PICK b \in RequestRecord : /\ b = Begin("social", "match", u) /\ b.pc = "match"
                                 /\ b.hash = 0 /\ b.user = u /\ b.dto = Nothing
  <2>1. "social" \in OpName /\ "match" \in PcName
    BY DEF OpName, PcName
  <2>2. QED
    BY <2>1, BeginType
<1>4. PICK d \in Dto : d = [b.dto EXCEPT !.socialId = x]
  BY <1>3, NothingType DEF Dto
<1>5. PICK q \in RequestRecord : q = [b EXCEPT !.email = e, !.dto = d]
  BY DEF RequestRecord
<1>6. q.pc = "match" /\ q.hash = 0 /\ q.user = u /\ q.dto.socialId \in SocialId
  <2>1. d.socialId = x
    BY <1>3, <1>4, NothingType DEF Dto
  <2>2. QED
    BY <2>1, <1>3, <1>5 DEF RequestRecord
<1>7. Carries(q)
  <2>1. u = Null \/ (u \in User /\ users[u].state = "live")
    BY <1>2 DEF Live
  <2>2. QED
    BY <1>1, <1>6, <2>1, CarriesNothing, BoundAssumption
<1>8. req' = [req EXCEPT ![r] = q]
  BY <1>2, <1>3, <1>4, <1>5 DEF Continue
<1>9. QED
  BY <1>1, <1>7, <1>8, RequestMoves DEF SocialLogin, Starts, history, TypeOK

(* A social sign-in matches the user of the account or of its address, or plans a new one. *)
LEMMA MatchSocialInv == ASSUME IInv, NEW r \in RequestId, MatchSocial(r) PROVE IInv'
<1>1. TypeOK /\ req[r] \in RequestRecord /\ Carries(req[r]) /\ req[r].pc = "match"
  BY DEF IInv, TypeOK, MatchSocial
<1>2. PICK x \in SocialId, e \in Email \cup {Null} : x = req[r].dto.socialId /\ e = req[r].email
  BY <1>1 DEF Carries, WritesHash, RequestRecord
<1> DEFINE changed(u) ==
      IF e # Null /\ req[r].user = Null
        THEN [WholeUser(users[u]) EXCEPT !.email = e] ELSE WholeUser(users[u])
<1>3. \/ \E u \in FindBySocial(users, x) : WriteBack(r, "social", u, changed(u))
      \/ req[r].user # Null /\ Continue(r, At(r, "open"))
      \/ Creating(r, "social", NewUser(e, Null, "google", x, "user", "active"))
      \/ Continue(r, Idle)
  BY <1>2, Zenon DEF MatchSocial
<1>4. CASE \E u \in FindBySocial(users, x) : WriteBack(r, "social", u, changed(u))
  <2>1. PICK u \in User : Live(users, u) /\ WriteBack(r, "social", u, changed(u))
    BY <1>4 DEF FindBySocial
  <2>2. PICK d \in Dto :
          /\ d = changed(u)
          /\ \A c \in Column \ {"email"} : d[c] = users[u][c]
    <3>1. PICK w \in Dto : w = WholeUser(users[u]) /\ \A c \in Column : w[c] = users[u][c]
      BY <1>1, WholeUserType DEF TypeOK
    <3>2. [w EXCEPT !.email = e] \in Dto
      BY DEF Dto
    <3>3. QED
      BY <3>1, <3>2 DEF Dto, Column
  <2>3. WriteBack(r, "social", u, d)
    BY <2>1, <2>2
  <2>4. \A c \in Column \ {"email"} : d[c] = users[u][c]
    BY <2>2
  <2>5. vouched' \subseteq [user : User, email : Email \cup {Null}]
    BY <1>1 DEF MatchSocial, history, TypeOK
  <2>6. QED
    BY <1>1, <2>1, <2>3, <2>4, <2>5, WriteBackInv DEF MatchSocial, history
<1>5. CASE req[r].user # Null /\ Continue(r, At(r, "open"))
  <2>1. req[r].user \in User /\ users[req[r].user].state # "none"
    BY <1>1, <1>5 DEF RequestRecord, Carries, KnowsUser
  <2>2. QED
    BY <1>1, <1>5, <2>1, GoesOn DEF MatchSocial, Continue
<1>6. CASE Creating(r, "social", NewUser(e, Null, "google", x, "user", "active"))
  <2>1. Null \in StoredSecret /\ Null # Unset
    BY ValueAssumption DEF StoredSecret
  <2>2. PICK dto \in Dto :
          /\ dto = NewUser(e, Null, "google", x, "user", "active")
          /\ dto.email = e /\ dto.password = Null
          /\ \A c \in Column : dto[c] # Unset
    BY <2>1, NewUserType
  <2>3. QED
    BY <1>1, <1>6, <2>1, <2>2, CreatingInv DEF MatchSocial, history
<1>7. CASE Continue(r, Idle)
  BY <1>1, <1>7, RequestEnds DEF MatchSocial, Continue
<1>8. QED
  BY <1>3, <1>4, <1>5, <1>6, <1>7

(***************************************************************************)
(* Steps that write the user table                                         *)
(***************************************************************************)
(* The same for a request in its slot: it is as it was, or marked as stale. *)
LEMMA OthersCarry ==
  ASSUME IInv, NEW i \in RequestId,
         req'[i] = req[i] \/ req'[i] = [req[i] EXCEPT !.stale = TRUE],
         rand' \in Int, rand <= rand',
         tokens \subseteq tokens', vouched \subseteq vouched', excused \subseteq excused',
         \A u \in User : users[u].state # "none" => users'[u].state # "none",
         \A s \in SessionId : sessions[s].state # "none" => sessions'[s].state # "none",
         req[i].pc \in Updating /\ NamesPassword(req[i].dto) =>
           SessionsOf(sessions', req[i].user)
             \subseteq SessionsOf(sessions, req[i].user) \cup excused',
         users'[req[i].user] = users[req[i].user] \/ req[i].pc \notin Updating
           \/ req'[i].stale
  PROVE  Carries(req[i])'
<1>1. PICK p \in RequestRecord : p = req[i]
  BY DEF IInv, TypeOK
<1>2. PICK q \in RequestRecord : q = req'[i] /\ (q = p \/ q = [p EXCEPT !.stale = TRUE])
  BY <1>1 DEF RequestRecord
<1>3. Carries(p) /\ rand \in Int
  BY <1>1, BoundAssumption DEF IInv, TypeOK
<1>4. Carries(q)'
  BY <1>1, <1>2, <1>3, CarriesKept
<1>5. QED
  BY <1>2, <1>4

(* A user row that is created or written keeps the invariant when its address is free
   and vouched for, the sessions of a replaced password are excused, the others go on
   carrying what they should and nobody waiting to send a token is disturbed. *)
LEMMA UserWritten ==
  ASSUME IInv, NEW u \in User, NEW row \in UserRecord, row.state # "none",
         users' = [users EXCEPT ![u] = row], EmailFree(users, u, row.email),
         row.email # Null => Address(u, row.email) \in vouched',
         vouched \subseteq vouched',
         vouched' \subseteq [user : User, email : Email \cup {Null}],
         excused \subseteq excused', excused' \subseteq SessionId,
         row.password = users[u].password \/ SessionsOf(sessions, u) \subseteq excused',
         UNCHANGED <<sessions, tokens, mails, rand, spent, lost>>,
         req' \in [RequestId -> RequestRecord],
         \A i \in RequestId : req[i].pc = "reply" => req'[i] = req[i],
         \A i \in RequestId : Carries(req[i])'
  PROVE  IInv'
<1>1. TypeOK /\ TypeOK'
  BY DEF IInv, TypeOK
<1>2. HashesDrawn' /\ SpentTokenNeverMatches'
  BY DEF IInv, HashesDrawn, SpentTokenNeverMatches
<1>3. OwnersExist'
  BY <1>1 DEF IInv, OwnersExist, TypeOK
<1>4. AddressesApart'
  BY <1>1 DEF IInv, AddressesApart, TypeOK, EmailFree
<1>5. LiveSessionContinues'
  BY DEF IInv, LiveSessionContinues
<1>6. PasswordChangeEndsSessions'
  <2> SUFFICES ASSUME NEW s \in SessionId, LiveSession(sessions, s), sessions[s].under # Null,
                      s \notin excused'
               PROVE  sessions[s].under = users'[sessions[s].user].password
    BY DEF PasswordChangeEndsSessions
  <2>1. sessions[s].under = users[sessions[s].user].password
    BY DEF IInv, PasswordChangeEndsSessions
  <2>2. CASE sessions[s].user = u
    BY <2>1, <2>2, <1>1 DEF SessionsOf, TypeOK
  <2>3. CASE sessions[s].user # u
    BY <2>1, <2>3, <1>1 DEF TypeOK
  <2>4. QED
    BY <2>2, <2>3
<1>7. AddressVouched'
  BY <1>1 DEF IInv, AddressVouched, TypeOK
<1>8. QED
  BY <1>1, <1>2, <1>3, <1>4, <1>5, <1>6, <1>7 DEF IInv

(* The other requests when row u is written: those about to write it are marked. *)
LEMMA OvertakenCarries ==
  ASSUME IInv, NEW u \in User, NEW row, row.state # "none", users' = [users EXCEPT ![u] = row],
         UNCHANGED <<sessions, tokens, rand>>,
         vouched \subseteq vouched', excused \subseteq excused',
         NEW i \in RequestId, req'[i] = Overtaken(u)[i]
  PROVE  Carries(req[i])' /\ req'[i] \in RequestRecord
<1>1. TypeOK /\ req[i] \in RequestRecord /\ rand \in Int
  BY BoundAssumption DEF IInv, TypeOK
<1>11. /\ rand' \in Int /\ rand <= rand' /\ tokens \subseteq tokens'
       /\ \A v \in User : users[v].state # "none" => users'[v].state # "none"
       /\ \A s \in SessionId : sessions[s].state # "none" => sessions'[s].state # "none"
       /\ SessionsOf(sessions', req[i].user) = SessionsOf(sessions, req[i].user)
  BY <1>1 DEF TypeOK
<1>2. CASE req[i].user = u /\ req[i].pc \in Updating
  <2>1. req'[i] = [req[i] EXCEPT !.stale = TRUE]
    BY <1>2 DEF Overtaken
  <2>2. req'[i].stale /\ req'[i] \in RequestRecord
    BY <1>1, <2>1 DEF RequestRecord
  <2>3. QED
    BY <1>1, <1>11, <2>1, <2>2, OthersCarry
<1>3. CASE ~(req[i].user = u /\ req[i].pc \in Updating)
  <2>1. req'[i] = req[i]
    BY <1>3 DEF Overtaken
  <2>2. users'[req[i].user] = users[req[i].user] \/ req[i].pc \notin Updating
    <3>1. CASE req[i].pc \in Updating
      <4>1. req[i].user \in User \ {u}
        BY <1>3, <3>1 DEF IInv, Carries, KnowsUser
      <4>2. QED
        BY <4>1, <1>1 DEF TypeOK
    <3>2. QED
      BY <3>1
  <2>3. QED
    BY <1>1, <1>11, <2>1, <2>2, OthersCarry
<1>4. QED
  BY <1>2, <1>3

(* What save writes is a complete row. *)
LEMMA SavedType ==
  ASSUME NEW row \in UserRecord, NEW dto \in Dto, dto.password \in StoredSecret \cup {Unset}
  PROVE  /\ Saved(row, Payload(dto)) \in UserRecord
         /\ Saved(row, Payload(dto)).state = "live"
         /\ Saved(row, Payload(dto)).email
              = IF dto.email = Unset THEN row.email ELSE dto.email
         /\ Saved(row, Payload(dto)).password
              = IF dto.password \in {Unset, Null} THEN row.password ELSE dto.password
BY ValueAssumption DEF Saved, Payload, Row, UserRecord, Dto, Column, StoredSecret

(* The save goes through only if the address is free, as the unique column demands; it keeps
   addresses apart and vouched for. *)
LEMMA SaveUserInv == ASSUME IInv, NEW r \in RequestId, SaveUser(r) PROVE IInv'
<1>1. /\ TypeOK /\ req[r] \in RequestRecord /\ Carries(req[r]) /\ req[r].pc = "save"
      /\ rand \in 1..MaxRand
  BY DEF IInv, TypeOK, SaveUser
<1>2. PICK u \in User : u = req[r].user /\ users[u] \in UserRecord /\ users[u].state # "none"
  BY <1>1 DEF Carries, KnowsUser, Updating, TypeOK
<1>3. PICK dto \in Dto : dto = req[r].dto /\ dto.password \in StoredSecret \cup {Unset}
  BY <1>1 DEF Carries, WritesHash, RequestRecord
<1>4. PICK row \in UserRecord :
        /\ row = SavedRow(r) /\ row.state = "live"
        /\ row.email = IF dto.email = Unset THEN users[u].email ELSE dto.email
        /\ row.password
             = IF dto.password \in {Unset, Null} THEN users[u].password ELSE dto.password
  BY <1>2, <1>3, SavedType DEF SavedRow
<1>5. PICK q \in RequestRecord : q = IF req[r].op = "social" THEN At(r, "open") ELSE Idle
  BY <1>1, AtType, IdleType DEF PcName
<1>6. CASE ~EmailFree(users, u, row.email)
  BY <1>1, <1>2, <1>4, <1>6, RequestEnds DEF SaveUser, Continue, history
<1>7. CASE EmailFree(users, u, row.email)
  <2>1. /\ users' = [users EXCEPT ![u] = row]
        /\ req' = [Overtaken(u) EXCEPT ![r] = q]
        /\ vouched' = IF req[r].op \in {"admin", "social"}
                        THEN vouched \cup {Address(u, row.email)} ELSE vouched
        /\ excused' = IF row.password = users[u].password \/ EndsSessions(req[r].op)
                        THEN excused ELSE excused \cup SessionsOf(sessions, u)
        /\ UNCHANGED <<sessions, tokens, mails, rand, spent, lost>>
    BY <1>2, <1>4, <1>5, <1>7 DEF SaveUser
  <2>2. /\ vouched \subseteq vouched' /\ excused \subseteq excused' /\ excused' \subseteq SessionId
        /\ vouched' \subseteq [user : User, email : Email \cup {Null}]
    BY <1>1, <2>1 DEF TypeOK, Address, UserRecord, SessionsOf
  <2>3. row.email # Null => Address(u, row.email) \in vouched'
    <3>1. CASE dto.email = Unset
      BY <3>1, <1>2, <1>4, <2>2 DEF IInv, AddressVouched
    <3>2. CASE dto.email # Unset /\ req[r].op \in {"admin", "social"}
      BY <3>2, <2>1
    <3>3. CASE dto.email \notin {Unset, Null} /\ req[r].op \notin {"admin", "social"}
      BY <3>3, <1>1, <1>2, <1>3, <1>4, <2>2 DEF Carries, WritesVouched, NamesEmail, Updating
    <3>4. QED
      BY <3>1, <3>2, <3>3, <1>4
  <2>4. row.password = users[u].password \/ SessionsOf(sessions, u) \subseteq excused'
    <3>1. CASE EndsSessions(req[r].op) /\ dto.password # Unset
      BY <3>1, <1>1, <1>2, <1>3, <2>2 DEF Carries, HasEnded, NamesPassword, Updating
    <3>2. CASE ~EndsSessions(req[r].op)
      BY <3>2, <2>1
    <3>3. QED
      BY <3>1, <3>2, <1>4
  <2>5. Overtaken(u) = [i \in RequestId |-> Overtaken(u)[i]] /\ req'[r] = q
        /\ \A i \in RequestId \ {r} : req'[i] = Overtaken(u)[i]
    BY <2>1 DEF Overtaken
  <2>6. ASSUME NEW i \in RequestId PROVE Carries(req[i])' /\ req'[i] \in RequestRecord
    <3>1. CASE i # r
      BY <3>1, <1>4, <2>1, <2>2, <2>5, OvertakenCarries
    <3>2. CASE i = r
      <4>1. rand' = rand /\ 0 <= rand /\ users'[u].state # "none"
        BY <1>1, <1>4, <2>1, BoundAssumption DEF TypeOK
      <4>2. CASE req[r].op = "social"
        <5>1. q.pc = "open" /\ q.user = u /\ q.hash = req[r].hash
          BY <1>1, <1>2, <1>5, <4>2, AtType DEF PcName
        <5>2. Carries(q)'
          BY <1>1, <4>1, <5>1 DEF Carries, KnowsUser, KnowsSession, WritesHash, WritesVouched,
            HasEnded, UpToDate, Updating
        <5>3. QED
          BY <3>2, <2>5, <5>2
      <4>3. CASE req[r].op # "social"
        <5>1. q.pc = "idle" /\ q.hash = 0
          BY <1>5, <4>3, IdleType
        <5>2. Carries(q)'
          BY <4>1, <5>1 DEF Carries, KnowsUser, KnowsSession, WritesHash, WritesVouched,
            HasEnded, UpToDate, Updating
        <5>3. QED
          BY <3>2, <2>5, <5>2
      <4>4. QED
        BY <4>2, <4>3
    <3>3. QED
      BY <3>1, <3>2
  <2>7. req' \in [RequestId -> RequestRecord]
    <3>1. req' = [i \in RequestId |-> req'[i]]
      BY <2>1 DEF Overtaken
    <3>2. QED
      BY <3>1, <2>6
  <2>8. \A i \in RequestId : req[i].pc = "reply" => req'[i] = req[i]
    BY <1>1, <2>5 DEF Overtaken, Updating
  <2>9. QED
    BY <1>4, <1>7, <2>1, <2>2, <2>3, <2>4, <2>6, <2>7, <2>8, UserWritten
<1>8. QED
  BY <1>6, <1>7

(* A new user takes an address nobody has. *)
LEMMA InsertUserInv == ASSUME IInv, NEW r \in RequestId, InsertUser(r) PROVE IInv'
<1>1. /\ TypeOK /\ req[r] \in RequestRecord /\ Carries(req[r]) /\ req[r].pc = "insert"
      /\ rand \in 1..MaxRand
  BY DEF IInv, TypeOK, InsertUser
<1>2. PICK dto \in Dto : /\ dto = req[r].dto /\ dto.password \in StoredSecret
                         /\ \A c \in Column : dto[c] # Unset
  BY <1>1 DEF Carries, WritesHash, RequestRecord, Column
<1>3. CASE Continue(r, Idle) /\ UNCHANGED <<users, vouched>>
  BY <1>1, <1>3, RequestEnds DEF InsertUser, Continue, history
<1>4. ASSUME EmailFree(users, Null, dto.email),
             NEW u \in User, users[u].state = "none",
             users' = [users EXCEPT ![u] = Row("live", dto)],
             vouched' = vouched \cup {Address(u, dto.email)},
             Continue(r, CASE req[r].op = "register" -> [At(r, "mail") EXCEPT !.user = u]
                           [] req[r].op = "social" -> [At(r, "reread") EXCEPT !.user = u]
                           [] OTHER -> Idle)
      PROVE  IInv'
  <2>1. PICK row \in UserRecord : /\ row = Row("live", dto) /\ row.state = "live"
                                  /\ row.email = dto.email
    <3>1. /\ dto.email # Unset /\ dto.profile # Unset /\ dto.provider # Unset
          /\ dto.socialId # Unset /\ dto.role # Unset /\ dto.status # Unset
      BY <1>2 DEF Column
    <3>2. /\ dto.email \in Email \cup {Null} /\ dto.profile \in Profile \cup {Null}
          /\ dto.provider \in {"email", "google", Null} /\ dto.socialId \in SocialId \cup {Null}
          /\ dto.role \in {"user", Null} /\ dto.status \in {"active", "inactive", Null}
          /\ dto.password \in StoredSecret
      BY <3>1, <1>2 DEF Dto
    <3>3. Row("live", dto) \in UserRecord
      BY <3>2 DEF Row, UserRecord
    <3>4. Row("live", dto).state = "live" /\ Row("live", dto).email = dto.email
      BY DEF Row
    <3>5. QED
      BY <3>3, <3>4
  <2>2. UNCHANGED <<sessions, tokens, mails, rand, spent, lost, excused>>
    BY DEF InsertUser
  <2>3. PICK q \in RequestRecord :
          /\ req' = [req EXCEPT ![r] = q]
          /\ \/ /\ q.pc = "mail" /\ q.user = u /\ q.dto = dto /\ q.hash = req[r].hash
                /\ req[r].op = "register"
             \/ q.pc = "reread" /\ q.user = u /\ q.hash = req[r].hash
             \/ q.pc = "idle" /\ q.hash = 0
    <3>1. CASE req[r].op = "register"
      <4>1. PICK b \in RequestRecord : /\ b = At(r, "mail") /\ b.pc = "mail" /\ b.dto = dto
                                       /\ b.hash = req[r].hash
        BY <1>1, <1>2, AtType DEF PcName
      <4>2. PICK q \in RequestRecord : q = [b EXCEPT !.user = u]
        BY DEF RequestRecord
      <4>3. q.pc = "mail" /\ q.user = u /\ q.dto = dto /\ q.hash = req[r].hash
        BY <4>1, <4>2 DEF RequestRecord
      <4>4. req' = [req EXCEPT ![r] = q]
        BY <1>4, <3>1, <4>1, <4>2 DEF Continue
      <4>5. QED
        BY <3>1, <4>3, <4>4
    <3>2. CASE req[r].op = "social"
      <4>1. PICK b \in RequestRecord : /\ b = At(r, "reread") /\ b.pc = "reread"
                                       /\ b.hash = req[r].hash
        BY <1>1, AtType DEF PcName
      <4>2. PICK q \in RequestRecord : q = [b EXCEPT !.user = u]
        BY DEF RequestRecord
      <4>3. q.pc = "reread" /\ q.user = u /\ q.hash = req[r].hash
        BY <4>1, <4>2 DEF RequestRecord
      <4>4. req' = [req EXCEPT ![r] = q]
        BY <1>4, <3>2, <4>1, <4>2 DEF Continue
      <4>5. QED
        BY <4>3, <4>4
    <3>3. CASE req[r].op \notin {"register", "social"}
      <4>1. PICK q \in RequestRecord : q = Idle /\ q.pc = "idle" /\ q.hash = 0
        BY IdleType
      <4>2. req' = [req EXCEPT ![r] = q]
        BY <1>4, <3>3, <4>1 DEF Continue
      <4>3. QED
        BY <4>1, <4>2
    <3>4. QED
      BY <3>1, <3>2, <3>3
  <2>4. EmailFree(users, u, row.email)
    BY <1>4, <2>1, ValueAssumption DEF EmailFree
  <2>5. SessionsOf(sessions, u) = {}
    BY <1>1, <1>4 DEF IInv, OwnersExist, SessionsOf, LiveSession
  <2>6. /\ rand' \in Int /\ rand <= rand' /\ 0 <= rand' /\ users'[u].state # "none"
        /\ vouched \subseteq vouched' /\ Address(u, row.email) \in vouched'
        /\ vouched' \subseteq [user : User, email : Email \cup {Null}]
    BY <1>1, <1>4, <2>1, <2>2, BoundAssumption DEF TypeOK, Address, UserRecord
  <2>7. ASSUME NEW i \in RequestId PROVE Carries(req[i])'
    <3>1. CASE i # r
      <4>1. req'[i] = req[i]
        BY <3>1, <1>1, <2>3 DEF TypeOK
      <4>2. req[i].pc \in Updating => users'[req[i].user] = users[req[i].user]
        BY <1>1, <1>4 DEF IInv, Carries, KnowsUser, TypeOK
      <4>3. \A v \in User : users[v].state # "none" => users'[v].state # "none"
        BY <1>1, <1>4 DEF TypeOK
      <4>4. QED
        BY <2>2, <2>6, <4>1, <4>2, <4>3, OthersCarry
    <3>2. CASE i = r
      <4>1. Carries(q)'
        BY <1>1, <1>2, <2>2, <2>3, <2>6 DEF Carries, KnowsUser, KnowsSession, WritesHash,
          WritesVouched, HasEnded, UpToDate, Updating
      <4>2. QED
        BY <3>2, <4>1, <1>1, <2>3 DEF TypeOK
    <3>3. QED
      BY <3>1, <3>2
  <2>8. /\ req' \in [RequestId -> RequestRecord]
        /\ \A i \in RequestId : req[i].pc = "reply" => req'[i] = req[i]
    BY <1>1, <2>3 DEF TypeOK
  <2>9. users' = [users EXCEPT ![u] = row] /\ excused' \subseteq SessionId
    BY <1>1, <1>4, <2>1, <2>2 DEF TypeOK
  <2>10. QED
    BY <2>1, <2>2, <2>4, <2>5, <2>6, <2>7, <2>8, <2>9, UserWritten
<1>5. QED
  BY <1>2, <1>3, <1>4 DEF InsertUser

(* Removing a user keeps the row and its address. *)
LEMMA RemoveInv == ASSUME IInv, NEW u \in User, Remove(u) PROVE IInv'
<1>1. TypeOK /\ users[u] \in UserRecord /\ rand \in 1..MaxRand
  BY DEF IInv, TypeOK
<1>2. PICK row \in UserRecord : /\ users' = [users EXCEPT ![u] = row] /\ row.state = "removed"
                                /\ row.email = users[u].email
                                /\ row.password = users[u].password
  <2>1. PICK row \in UserRecord : row = [users[u] EXCEPT !.state = "removed"]
    BY <1>1 DEF UserRecord
  <2>2. QED
    BY <1>1, <2>1 DEF Remove, UserRecord
<1>3. users[u].state # "none"
  BY DEF Remove, Live
<1>4. EmailFree(users, u, row.email)
  BY <1>2, <1>3 DEF IInv, AddressesApart, EmailFree
<1>5. row.email # Null => Address(u, row.email) \in vouched
  BY <1>2, <1>3 DEF IInv, AddressVouched
<1>6. UNCHANGED <<sessions, tokens, mails, rand, spent, lost, vouched, excused>>
  BY DEF Remove, history
<1>7. ASSUME NEW i \in RequestId PROVE Carries(req[i])' /\ req'[i] \in RequestRecord
  <2>1. req'[i] = Overtaken(u)[i]
    BY DEF Remove
  <2>2. QED
    BY <2>1, <1>2, <1>6, OvertakenCarries
<1>8. /\ req' \in [RequestId -> RequestRecord]
      /\ \A i \in RequestId : req[i].pc = "reply" => req'[i] = req[i]
  BY <1>7 DEF Remove, Overtaken, Updating
<1>9. QED
  BY <1>1, <1>2, <1>4, <1>5, <1>6, <1>7, <1>8, UserWritten DEF TypeOK

(***************************************************************************)
(* Steps that write the session table                                      *)
(***************************************************************************)
(* softDelete only takes sessions out of the live ones. *)
LEMMA WithoutSessionsFacts ==
  ASSUME sessions \in [SessionId -> SessionRecord], NEW gone
  PROVE  LET after == WithoutSessions(sessions, gone)
         IN  /\ after \in [SessionId -> SessionRecord]
             /\ \A s \in SessionId :
                  /\ after[s].user = sessions[s].user /\ after[s].hash = sessions[s].hash
                  /\ after[s].under = sessions[s].under
                  /\ after[s].state = "none" <=> sessions[s].state = "none"
                  /\ LiveSession(after, s) <=> LiveSession(sessions, s) /\ s \notin gone
BY DEF WithoutSessions, SessionRecord, LiveSession

(* Deleting sessions and moving the request on keeps the invariant. *)
LEMMA SessionsDeleted ==
  ASSUME IInv, NEW gone, sessions' = WithoutSessions(sessions, gone),
         UNCHANGED <<users, tokens, mails, rand, spent, lost, vouched>>,
         excused \subseteq excused', excused' \subseteq SessionId,
         req' \in [RequestId -> RequestRecord],
         \A i \in RequestId : req[i].pc = "reply" => req'[i] = req[i],
         \A i \in RequestId : req'[i] = req[i] \/ Carries(req[i])'
  PROVE  IInv'
<1>1. TypeOK /\ rand \in 1..MaxRand
  BY DEF IInv, TypeOK
<1>2. /\ sessions' \in [SessionId -> SessionRecord]
      /\ \A s \in SessionId :
           /\ sessions'[s].user = sessions[s].user /\ sessions'[s].hash = sessions[s].hash
           /\ sessions'[s].under = sessions[s].under
           /\ sessions'[s].state = "none" <=> sessions[s].state = "none"
           /\ LiveSession(sessions', s) => LiveSession(sessions, s)
  BY <1>1, WithoutSessionsFacts DEF TypeOK
<1>3. TypeOK'
  BY <1>1, <1>2 DEF TypeOK
<1>4. HashesDrawn' /\ OwnersExist' /\ AddressesApart' /\ AddressVouched'
  BY <1>2 DEF IInv, HashesDrawn, OwnersExist, AddressesApart, AddressVouched
<1>5. SpentTokenNeverMatches' /\ LiveSessionContinues' /\ PasswordChangeEndsSessions'
  BY <1>2 DEF IInv, SpentTokenNeverMatches, LiveSessionContinues, PasswordChangeEndsSessions
<1>6. ASSUME NEW i \in RequestId PROVE Carries(req[i])'
  <2>1. CASE req'[i] = req[i]
    <3>1. /\ rand' \in Int /\ rand <= rand'
          /\ \A s \in SessionId : sessions[s].state # "none" => sessions'[s].state # "none"
          /\ SessionsOf(sessions', req[i].user) \subseteq SessionsOf(sessions, req[i].user)
      BY <1>1, <1>2, BoundAssumption DEF SessionsOf
    <3>2. QED
      BY <2>1, <3>1, OthersCarry
  <2>2. QED
    BY <2>1
<1>7. QED
  BY <1>3, <1>4, <1>5, <1>6 DEF IInv

(* Sessions deleted for a new password are all those of the user. *)
LEMMA DeleteSessionsInv == ASSUME IInv, NEW r \in RequestId, DeleteSessions(r) PROVE IInv'
<1>1. /\ TypeOK /\ rand \in 1..MaxRand /\ req[r] \in RequestRecord
      /\ Carries(req[r]) /\ req[r].pc = "wipe"
  BY DEF IInv, TypeOK, DeleteSessions
<1>2. PICK p \in RequestRecord : p = req[r]
  BY <1>1
<1>3. PICK q \in RequestRecord :
        /\ q = Update(p) /\ q.pc \in {"probe", "unique", "find"}
        /\ q.pc = "probe" <=> NamesPassword(p.dto)
        /\ q = [p EXCEPT !.pc = q.pc]
  BY UpdateType
<1>4. /\ q.op = p.op /\ q.user = p.user /\ q.dto = p.dto /\ q.sid = p.sid
      /\ q.hash = p.hash /\ q.stale = p.stale /\ Asked(q) = Asked(p)
  BY <1>3 DEF RequestRecord, Asked
<1>5. req' = [req EXCEPT ![r] = q]
  BY <1>2, <1>3 DEF DeleteSessions, Continue
<1>6. SessionsOf(sessions', p.user) = {}
  BY <1>1, <1>2, WithoutSessionsFacts DEF DeleteSessions, DeletedByUser, SessionsOf, TypeOK
<1>7. UNCHANGED <<users, tokens, rand, vouched>>
  BY DEF DeleteSessions, history
<1>8. Carries(q)'
  <2>1. KnowsUser(q)' /\ KnowsSession(q)' /\ WritesHash(q)'
    BY <1>1, <1>2, <1>3, <1>4, <1>7 DEF Carries, KnowsUser, KnowsSession, WritesHash, Updating,
      NamesPassword, RequestRecord, Dto, StoredSecret
  <2>2. WritesVouched(q)' /\ HasEnded(q)' /\ UpToDate(q)'
    BY <1>1, <1>2, <1>3, <1>4, <1>6, <1>7 DEF Carries, WritesVouched, HasEnded, UpToDate, Updating
  <2>3. QED
    BY <2>1, <2>2 DEF Carries
<1>9. /\ req' \in [RequestId -> RequestRecord]
      /\ \A i \in RequestId : req[i].pc = "reply" => req'[i] = req[i]
      /\ \A i \in RequestId \ {r} : req'[i] = req[i]
      /\ req'[r] = q
  BY <1>1, <1>5 DEF TypeOK
<1>10. \A i \in RequestId : req'[i] = req[i] \/ Carries(req[i])'
  BY <1>8, <1>9
<1>11. QED
  BY <1>1, <1>9, <1>10, SessionsDeleted DEF DeleteSessions, DeletedByUser, history, TypeOK

(* Sessions deleted by a user's own update spare the one it came with. *)
LEMMA DeleteOtherSessionsInv ==
  ASSUME IInv, NEW r \in RequestId, DeleteOtherSessions(r) PROVE IInv'
<1>1. /\ TypeOK /\ rand \in 1..MaxRand /\ req[r] \in RequestRecord
      /\ Carries(req[r]) /\ req[r].pc = "others" /\ req[r].sid \in SessionId
  BY DEF IInv, TypeOK, DeleteOtherSessions, Carries, KnowsSession
<1>2. PICK p \in RequestRecord : p = req[r]
  BY <1>1
<1>3. PICK q \in RequestRecord :
        /\ q = NewEmailOrUpdate(p) /\ q.pc \in {"newEmail", "probe", "unique", "find"}
        /\ q.pc = "newEmail" => p.email \in Email
        /\ q.pc = "probe" => NamesPassword(p.dto)
        /\ q.pc \in {"unique", "find"} => ~NamesPassword(p.dto)
        /\ q = [p EXCEPT !.pc = q.pc]
  BY NewEmailOrUpdateType
<1>4. /\ q.op = p.op /\ q.user = p.user /\ q.dto = p.dto /\ q.sid = p.sid
      /\ q.hash = p.hash /\ q.stale = p.stale /\ q.email = p.email /\ Asked(q) = Asked(p)
  <2>1. q = [p EXCEPT !.pc = q.pc]
    BY <1>3
  <2>2. /\ q.op = p.op /\ q.user = p.user /\ q.dto = p.dto /\ q.sid = p.sid
        /\ q.hash = p.hash /\ q.stale = p.stale /\ q.email = p.email
    BY <2>1 DEF RequestRecord
  <2>3. QED
    BY <2>2 DEF Asked
<1>5. req' = [req EXCEPT ![r] = q]
  BY <1>2, <1>3 DEF DeleteOtherSessions, Continue
<1>6. SessionsOf(sessions', p.user) \subseteq excused'
  BY <1>1, <1>2, WithoutSessionsFacts
     DEF DeleteOtherSessions, DeletedByUser, SessionsOf, TypeOK
<1>7. UNCHANGED <<users, tokens, rand, vouched>>
  BY DEF DeleteOtherSessions
<1>8. Carries(q)'
  <2>1. KnowsUser(q)' /\ KnowsSession(q)' /\ WritesHash(q)'
    BY <1>1, <1>2, <1>3, <1>4, <1>7 DEF Carries, KnowsUser, KnowsSession, WritesHash, Updating,
      NamesPassword, RequestRecord, Dto, StoredSecret
  <2>2. WritesVouched(q)' /\ HasEnded(q)' /\ UpToDate(q)'
    BY <1>1, <1>2, <1>3, <1>4, <1>6, <1>7 DEF Carries, WritesVouched, HasEnded, UpToDate, Updating
  <2>3. QED
    BY <2>1, <2>2 DEF Carries
<1>9. /\ req' \in [RequestId -> RequestRecord]
      /\ \A i \in RequestId : req[i].pc = "reply" => req'[i] = req[i]
      /\ \A i \in RequestId \ {r} : req'[i] = req[i]
      /\ req'[r] = q
  BY <1>1, <1>5 DEF TypeOK
<1>10. \A i \in RequestId : req'[i] = req[i] \/ Carries(req[i])'
  BY <1>8, <1>9
<1>11. excused \subseteq excused' /\ excused' \subseteq SessionId
  BY <1>1 DEF DeleteOtherSessions, TypeOK
<1>12. QED
  BY <1>9, <1>10, <1>11, SessionsDeleted DEF DeleteOtherSessions, DeletedByUser

(* A logout deletes the session of the token. *)
LEMMA LogoutInv == ASSUME IInv, Logout PROVE IInv'
<1>1. TypeOK
  BY DEF IInv
<1>2. PICK s \in SessionId : sessions' = WithoutSessions(sessions, {s})
  BY DEF Logout
<1>3. QED
  BY <1>1, <1>2, SessionsDeleted DEF Logout, history, TypeOK

(* The session a login opens is under a hash nobody has seen; should a password change
   of the user be under way, or the login be under an older one, it is excused. *)
LEMMA OpenSessionInv == ASSUME IInv, NEW r \in RequestId, OpenSession(r) PROVE IInv'
<1>1. /\ TypeOK /\ rand \in 1..MaxRand /\ req[r] \in RequestRecord
      /\ Carries(req[r]) /\ req[r].pc = "open"
  BY DEF IInv, TypeOK, OpenSession
<1>2. PICK s \in SessionId :
        /\ sessions[s].state = "none"
        /\ sessions' = [sessions EXCEPT ![s] = SessionRow("live", req[r].user, Drawn, req[r].under)]
        /\ Continue(r, [At(r, "reply") EXCEPT !.sid = s, !.hash = Drawn])
        /\ excused' = IF Changing(req[r].user) \/ req[r].under # users[req[r].user].password
                        THEN excused \cup {s} ELSE excused
  BY DEF OpenSession
<1>3. /\ Drawn \in 1..MaxRand /\ rand' = Drawn /\ rand < Drawn /\ rand' \in Int
      /\ UNCHANGED <<users, tokens, mails, spent, lost, vouched>>
  BY <1>1, BoundAssumption DEF OpenSession, Draw, Drawn
<1>4. PICK u \in User : u = req[r].user /\ users[u].state # "none"
  BY <1>1 DEF Carries, KnowsUser
<1>5. PICK row \in SessionRecord :
        /\ sessions' = [sessions EXCEPT ![s] = row]
        /\ row.state = "live" /\ row.user = u /\ row.hash = Drawn /\ row.under = req[r].under
  <2>1. SessionRow("live", u, Drawn, req[r].under) \in SessionRecord
    BY <1>1, <1>3 DEF SessionRow, SessionRecord, RequestRecord
  <2>2. QED
    BY <1>2, <1>4, <2>1 DEF SessionRow
<1>6. PICK q \in RequestRecord : /\ req' = [req EXCEPT ![r] = q]
                                 /\ q.pc = "reply" /\ q.sid = s /\ q.hash = Drawn
  <2>1. PICK b \in RequestRecord : b = At(r, "reply") /\ b.pc = "reply"
    BY <1>1, AtType DEF PcName
  <2>2. PICK h \in 0..MaxRand : h = Drawn
    BY <1>3
  <2>3. PICK q \in RequestRecord : q = [b EXCEPT !.sid = s, !.hash = h]
    BY DEF RequestRecord
  <2>4. q.pc = "reply" /\ q.sid = s /\ q.hash = Drawn
    BY <2>1, <2>2, <2>3 DEF RequestRecord
  <2>5. req' = [req EXCEPT ![r] = q]
    BY <1>2, <2>1, <2>2, <2>3 DEF Continue
  <2>6. QED
    BY <2>4, <2>5
<1>7. /\ excused \subseteq excused' /\ excused' \subseteq SessionId
      /\ Changing(u) \/ req[r].under # users[u].password => s \in excused'
  BY <1>1, <1>2, <1>4 DEF TypeOK
<1>8. /\ sessions'[s] = row /\ req'[r] = q
      /\ \A x \in SessionId \ {s} : sessions'[x] = sessions[x]
      /\ \A i \in RequestId \ {r} : req'[i] = req[i]
  BY <1>1, <1>5, <1>6 DEF TypeOK
<1>9. TypeOK'
  BY <1>1, <1>3, <1>5, <1>6, <1>7 DEF TypeOK
<1>10. HashesDrawn'
  BY <1>1, <1>3, <1>5, <1>8 DEF IInv, HashesDrawn, TypeOK, SessionRecord, TokenRecord
<1>11. OwnersExist' /\ AddressesApart' /\ AddressVouched'
  BY <1>3, <1>4, <1>5, <1>8 DEF IInv, OwnersExist, AddressesApart, AddressVouched
<1>12. SpentTokenNeverMatches'
  <2>1. Token(s, Drawn) \notin spent
    <3>1. Token(s, Drawn).hash = Drawn
      BY DEF Token
    <3>2. \A t \in spent : t.hash <= rand /\ t.hash \in Int
      BY <1>1, BoundAssumption DEF IInv, HashesDrawn, TypeOK, TokenRecord
    <3>3. QED
      BY <1>1, <1>3, <3>1, <3>2
  <2>2. QED
    BY <2>1, <1>3, <1>5, <1>8 DEF IInv, SpentTokenNeverMatches
<1>13. LiveSessionContinues'
  <2> SUFFICES ASSUME NEW x \in SessionId, LiveSession(sessions', x),
                      Token(x, sessions'[x].hash) \notin tokens, x \notin lost
               PROVE  \E i \in RequestId : /\ req'[i].pc = "reply" /\ req'[i].sid = x
                                           /\ req'[i].hash = sessions'[x].hash
    BY <1>3 DEF LiveSessionContinues
  <2>1. CASE x = s
    BY <2>1, <1>5, <1>6, <1>8
  <2>2. CASE x # s
    <3>1. PICK i \in RequestId :
            req[i].pc = "reply" /\ req[i].sid = x /\ req[i].hash = sessions[x].hash
      BY <2>2, <1>8 DEF IInv, LiveSessionContinues, LiveSession
    <3>2. req'[i] = req[i]
      BY <3>1, <1>1, <1>8
    <3>3. QED
      BY <2>2, <3>1, <3>2, <1>8
  <2>3. QED
    BY <2>1, <2>2
<1>14. PasswordChangeEndsSessions'
  BY <1>3, <1>4, <1>5, <1>7, <1>8 DEF IInv, PasswordChangeEndsSessions, LiveSession
<1>15. ASSUME NEW i \in RequestId PROVE Carries(req[i])'
  <2>1. CASE i = r
    <3>1. Carries(q)'
      BY <1>3, <1>5, <1>6, <1>8 DEF Carries, KnowsUser, KnowsSession, WritesHash,
        WritesVouched, HasEnded, UpToDate, Updating
    <3>2. QED
      BY <2>1, <3>1, <1>8
  <2>2. CASE i # r
    <3>1. \A x \in SessionId : sessions[x].state # "none" => sessions'[x].state # "none"
      BY <1>5, <1>8
    <3>2. ASSUME req[i].pc \in Updating, NamesPassword(req[i].dto)
          PROVE  SessionsOf(sessions', req[i].user)
                   \subseteq SessionsOf(sessions, req[i].user) \cup excused'
      <4>1. req[i].user = u => s \in excused'
        BY <3>2, <1>7 DEF Changing
      <4>2. QED
        BY <4>1, <1>5, <1>8 DEF SessionsOf, LiveSession
    <3>3. rand <= rand'
      BY <1>1, <1>3
    <3>4. QED
      BY <2>2, <3>1, <3>2, <3>3, <1>3, <1>7, <1>8, OthersCarry
  <2>3. QED
    BY <2>1, <2>2
<1>16. QED
  BY <1>9, <1>10, <1>11, <1>12, <1>13, <1>14, <1>15 DEF IInv

(* Once the reply is sent, its token is with a client. *)
LEMMA ReplyInv == ASSUME IInv, NEW r \in RequestId, Reply(r) PROVE IInv'
<1>1. /\ TypeOK /\ rand \in 1..MaxRand /\ req[r] \in RequestRecord
      /\ Carries(req[r]) /\ req[r].pc = "reply"
  BY DEF IInv, TypeOK, Reply
<1>2. /\ tokens' = tokens \cup {Signed(r)} /\ req' = [req EXCEPT ![r] = Idle]
      /\ UNCHANGED <<users, sessions, mails, rand, spent, lost, vouched, excused>>
  BY DEF Reply, Continue, history
<1>3. PICK q \in RequestRecord : q = Idle /\ q.pc = "idle" /\ q.hash = 0
  BY IdleType
<1>4. /\ req'[r] = q /\ \A i \in RequestId \ {r} : req'[i] = req[i]
      /\ req' \in [RequestId -> RequestRecord]
  BY <1>1, <1>2, <1>3 DEF TypeOK
<1>5. Signed(r) \in TokenRecord /\ Signed(r).hash <= rand
  BY <1>1 DEF Signed, Token, TokenRecord, Carries, KnowsSession, RequestRecord
<1>6. TypeOK'
  BY <1>1, <1>2, <1>4, <1>5 DEF TypeOK
<1>7. HashesDrawn'
  BY <1>2, <1>5 DEF IInv, HashesDrawn
<1>8. /\ OwnersExist' /\ AddressesApart' /\ AddressVouched'
      /\ SpentTokenNeverMatches' /\ PasswordChangeEndsSessions'
  BY <1>2 DEF IInv, OwnersExist, AddressesApart, AddressVouched, SpentTokenNeverMatches,
    PasswordChangeEndsSessions
<1>9. LiveSessionContinues'
  <2> SUFFICES ASSUME NEW x \in SessionId, LiveSession(sessions, x),
                      Token(x, sessions[x].hash) \notin tokens', x \notin lost
               PROVE  \E i \in RequestId : /\ req'[i].pc = "reply" /\ req'[i].sid = x
                                           /\ req'[i].hash = sessions[x].hash
    BY <1>2 DEF LiveSessionContinues
  <2>1. PICK i \in RequestId :
          req[i].pc = "reply" /\ req[i].sid = x /\ req[i].hash = sessions[x].hash
    BY <1>2 DEF IInv, LiveSessionContinues
  <2>2. i # r
    BY <2>1, <1>2 DEF Signed
  <2>3. QED
    BY <2>1, <2>2, <1>4
<1>10. ASSUME NEW i \in RequestId PROVE Carries(req[i])'
  <2>1. CASE i = r
    <3>1. Carries(q)'
      BY <1>1, <1>2, <1>3, BoundAssumption DEF Carries, KnowsUser, KnowsSession, WritesHash,
        WritesVouched, HasEnded, UpToDate, Updating
    <3>2. QED
      BY <2>1, <3>1, <1>4
  <2>2. CASE i # r
    <3>1. rand' \in Int /\ rand <= rand' /\ tokens \subseteq tokens'
      BY <1>1, <1>2, BoundAssumption
    <3>2. QED
      BY <2>2, <3>1, <1>2, <1>4, OthersCarry
  <2>3. QED
    BY <2>1, <2>2
<1>11. QED
  BY <1>6, <1>7, <1>8, <1>9, <1>10 DEF IInv

(* The hash a refresh puts in the session is a fresh one, and the reply on its way
   names it; a session revived by it is excused. *)
LEMMA RotateInv == ASSUME IInv, NEW r \in RequestId, Rotate(r) PROVE IInv'
<1>1. /\ TypeOK /\ rand \in 1..MaxRand /\ req[r] \in RequestRecord
      /\ Carries(req[r]) /\ req[r].pc = "rotate"
  BY DEF IInv, TypeOK, Rotate
<1>2. PICK s \in SessionId :
        /\ s = req[r].sid /\ sessions[s].state # "none" /\ sessions[s] \in SessionRecord
        /\ Token(s, req[r].hash) \in tokens /\ req[r].hash <= rand
  BY <1>1 DEF Carries, KnowsSession, TypeOK
<1>3. /\ Drawn \in 1..MaxRand /\ rand' = Drawn /\ rand < Drawn /\ rand' \in Int
      /\ UNCHANGED <<users, tokens, mails, vouched>>
  BY <1>1, BoundAssumption DEF Rotate, Draw, Drawn
<1>4. /\ spent' = spent \cup {Token(s, req[r].hash)} /\ lost' = lost \ {s}
      /\ excused' = IF LiveSession(sessions, s) THEN excused ELSE excused \cup {s}
  BY <1>2 DEF Rotate
<1>5. PICK row \in SessionRecord :
        /\ sessions' = [sessions EXCEPT ![s] = row]
        /\ row.state = "live" /\ row.hash = Drawn /\ row.user = sessions[s].user
        /\ row.under = sessions[s].under
  <2>1. PICK h \in 0..MaxRand : h = Drawn
    BY <1>3
  <2>2. PICK row \in SessionRecord : row = [sessions[s] EXCEPT !.state = "live", !.hash = h]
    BY <1>2 DEF SessionRecord
  <2>3. sessions' = [sessions EXCEPT ![s] = row]
    BY <1>1, <1>2, <2>1, <2>2 DEF Rotate, Rotated, TypeOK, SessionRecord
  <2>4. QED
    BY <1>2, <2>1, <2>2, <2>3 DEF SessionRecord
<1>6. PICK q \in RequestRecord : /\ req' = [req EXCEPT ![r] = q]
                                 /\ q.pc = "reply" /\ q.sid = s /\ q.hash = Drawn
  <2>1. PICK b \in RequestRecord : b = At(r, "reply") /\ b.pc = "reply" /\ b.sid = s
    BY <1>1, <1>2, AtType DEF PcName
  <2>2. PICK h \in 0..MaxRand : h = Drawn
    BY <1>3
  <2>3. PICK q \in RequestRecord : q = [b EXCEPT !.hash = h]
    BY DEF RequestRecord
  <2>4. q.pc = "reply" /\ q.sid = s /\ q.hash = Drawn
    BY <2>1, <2>2, <2>3 DEF RequestRecord
  <2>5. req' = [req EXCEPT ![r] = q]
    BY <2>1, <2>2, <2>3 DEF Rotate, Continue
  <2>6. QED
    BY <2>4, <2>5
<1>7. /\ sessions'[s] = row /\ req'[r] = q
      /\ \A x \in SessionId \ {s} : sessions'[x] = sessions[x]
      /\ \A i \in RequestId \ {r} : req'[i] = req[i]
      /\ excused \subseteq excused' /\ excused' \subseteq SessionId
      /\ LiveSession(sessions, s) \/ s \in excused'
  BY <1>1, <1>2, <1>4, <1>5, <1>6 DEF TypeOK
<1>8. TypeOK'
  BY <1>1, <1>2, <1>3, <1>4, <1>5, <1>6, <1>7 DEF TypeOK
<1>9. HashesDrawn'
  BY <1>1, <1>3, <1>5, <1>7 DEF IInv, HashesDrawn, TypeOK, SessionRecord, TokenRecord
<1>10. OwnersExist' /\ AddressesApart' /\ AddressVouched'
  BY <1>2, <1>3, <1>5, <1>7 DEF IInv, OwnersExist, AddressesApart, AddressVouched
<1>11. SpentTokenNeverMatches'
  <2> SUFFICES ASSUME NEW x \in SessionId PROVE Token(x, sessions'[x].hash) \notin spent'
    BY DEF SpentTokenNeverMatches
  <2>1. CASE x = s
    <3>1. Token(s, Drawn).hash = Drawn
      BY DEF Token
    <3>2. \A t \in spent' : t.hash <= rand /\ t.hash \in Int
      BY <1>1, <1>2, <1>4, BoundAssumption DEF IInv, HashesDrawn, TypeOK, TokenRecord
    <3>3. QED
      BY <2>1, <1>1, <1>3, <1>5, <1>7, <3>1, <3>2
  <2>2. CASE x # s
    BY <2>2, <1>4, <1>7 DEF IInv, SpentTokenNeverMatches, Token
  <2>3. QED
    BY <2>1, <2>2
<1>12. LiveSessionContinues'
  <2> SUFFICES ASSUME NEW x \in SessionId, LiveSession(sessions', x),
                      Token(x, sessions'[x].hash) \notin tokens, x \notin lost'
               PROVE  \E i \in RequestId : /\ req'[i].pc = "reply" /\ req'[i].sid = x
                                           /\ req'[i].hash = sessions'[x].hash
    BY <1>3 DEF LiveSessionContinues
  <2>1. CASE x = s
    BY <2>1, <1>5, <1>6, <1>7
  <2>2. CASE x # s
    <3>1. PICK i \in RequestId :
            req[i].pc = "reply" /\ req[i].sid = x /\ req[i].hash = sessions[x].hash
      BY <2>2, <1>4, <1>7 DEF IInv, LiveSessionContinues, LiveSession
    <3>2. req'[i] = req[i]
      BY <3>1, <1>1, <1>7
    <3>3. QED
      BY <2>2, <3>1, <3>2, <1>7
  <2>3. QED
    BY <2>1, <2>2
<1>13. PasswordChangeEndsSessions'
  BY <1>3, <1>5, <1>7 DEF IInv, PasswordChangeEndsSessions, LiveSession
<1>14. ASSUME NEW i \in RequestId PROVE Carries(req[i])'
  <2>1. CASE i = r
    <3>1. Carries(q)'
      BY <1>3, <1>5, <1>6, <1>7 DEF Carries, KnowsUser, KnowsSession, WritesHash,
        WritesVouched, HasEnded, UpToDate, Updating
    <3>2. QED
      BY <2>1, <3>1, <1>7
  <2>2. CASE i # r
    <3>1. \A x \in SessionId : sessions[x].state # "none" => sessions'[x].state # "none"
      BY <1>5, <1>7
    <3>2. SessionsOf(sessions', req[i].user)
            \subseteq SessionsOf(sessions, req[i].user) \cup excused'
      BY <1>5, <1>7 DEF SessionsOf, LiveSession
    <3>3. rand <= rand'
      BY <1>1, <1>3
    <3>4. QED
      BY <2>2, <3>1, <3>2, <3>3, <1>3, <1>7, OthersCarry
  <2>3. QED
    BY <2>1, <2>2
<1>15. QED
  BY <1>8, <1>9, <1>10, <1>11, <1>12, <1>13, <1>14 DEF IInv

(***************************************************************************)
(* The remaining steps                                                     *)
(***************************************************************************)
(* A mail sent, or no step at all. *)
LEMMA OnlyMails ==
  ASSUME IInv, mails' \subseteq MailRecord,
         UNCHANGED <<users, sessions, req, tokens, rand, history>>
  PROVE  IInv'
<1>1. TypeOK /\ rand \in 1..MaxRand
  BY DEF IInv, TypeOK
<1>2. TypeOK'
  BY <1>1 DEF TypeOK, history
<1>3. HashesDrawn' /\ OwnersExist' /\ AddressesApart' /\ AddressVouched'
  BY DEF IInv, HashesDrawn, OwnersExist, AddressesApart, AddressVouched, history
<1>4. SpentTokenNeverMatches' /\ LiveSessionContinues' /\ PasswordChangeEndsSessions'
  BY DEF IInv, SpentTokenNeverMatches, LiveSessionContinues, PasswordChangeEndsSessions, history
<1>5. ASSUME NEW i \in RequestId PROVE Carries(req[i])'
  <2>1. rand' \in Int /\ rand <= rand'
    BY <1>1, BoundAssumption
  <2>2. QED
    BY <2>1, OthersCarry DEF history
<1>6. QED
  BY <1>2, <1>3, <1>4, <1>5 DEF IInv

(* A reset token is mailed to the user who has the address. *)
LEMMA ForgotPasswordInv == ASSUME IInv, ForgotPassword PROVE IInv'
<1>1. PICK e \in Email, u \in User : mails' = mails \cup {Mail("forgot", u, e)}
  BY DEF ForgotPassword, Post, FindByEmail
<1>2. mails' \subseteq MailRecord
  BY <1>1 DEF IInv, TypeOK, Mail, MailRecord
<1>3. QED
  BY <1>2, OnlyMails DEF ForgotPassword

(* A request may end anywhere; a reply that is not sent loses its session's token. *)
LEMMA AbortInv == ASSUME IInv, NEW r \in RequestId, Abort(r) PROVE IInv'
<1>1. CASE req[r].pc # "reply"
  BY <1>1, RequestEnds DEF Abort, Continue, history
<1>2. CASE req[r].pc = "reply"
  <2>1. TypeOK /\ rand \in 1..MaxRand /\ req[r].sid \in SessionId
    BY <1>2 DEF IInv, TypeOK, Carries, KnowsSession
  <2>2. /\ lost' = lost \cup {req[r].sid} /\ req' = [req EXCEPT ![r] = Idle]
        /\ UNCHANGED <<users, sessions, tokens, mails, rand, spent, vouched, excused>>
    BY <1>2 DEF Abort, Continue
  <2>3. PICK q \in RequestRecord : q = Idle /\ q.pc = "idle" /\ q.hash = 0
    BY IdleType
  <2>4. /\ req'[r] = q /\ \A i \in RequestId \ {r} : req'[i] = req[i]
        /\ req' \in [RequestId -> RequestRecord]
    BY <2>1, <2>2, <2>3 DEF TypeOK
  <2>5. TypeOK'
    BY <2>1, <2>2, <2>4 DEF TypeOK
  <2>6. HashesDrawn' /\ OwnersExist' /\ AddressesApart' /\ AddressVouched'
    BY <2>2 DEF IInv, HashesDrawn, OwnersExist, AddressesApart, AddressVouched
  <2>7. SpentTokenNeverMatches' /\ PasswordChangeEndsSessions'
    BY <2>2 DEF IInv, SpentTokenNeverMatches, PasswordChangeEndsSessions
  <2>8. LiveSessionContinues'
    <3> SUFFICES ASSUME NEW x \in SessionId, LiveSession(sessions, x),
                        Token(x, sessions[x].hash) \notin tokens, x \notin lost'
                 PROVE  \E i \in RequestId : /\ req'[i].pc = "reply" /\ req'[i].sid = x
                                             /\ req'[i].hash = sessions[x].hash
      BY <2>2 DEF LiveSessionContinues
    <3>1. PICK i \in RequestId :
            req[i].pc = "reply" /\ req[i].sid = x /\ req[i].hash = sessions[x].hash
      BY <2>2 DEF IInv, LiveSessionContinues
    <3>2. i # r
      BY <3>1, <2>2
    <3>3. QED
      BY <3>1, <3>2, <2>4
  <2>9. ASSUME NEW i \in RequestId PROVE Carries(req[i])'
    <3>1. rand' \in Int /\ rand <= rand' /\ 0 <= rand'
      BY <2>1, <2>2, BoundAssumption
    <3>2. CASE i = r
      <4>1. Carries(q)'
        BY <2>3, <3>1 DEF Carries, KnowsUser, KnowsSession, WritesHash, WritesVouched,
          HasEnded, UpToDate, Updating
      <4>2. QED
        BY <3>2, <4>1, <2>4
    <3>3. CASE i # r
      BY <3>1, <3>3, <2>2, <2>4, OthersCarry
    <3>4. QED
      BY <3>2, <3>3
  <2>10. QED
    BY <2>5, <2>6, <2>7, <2>8, <2>9 DEF IInv
<1>3. QED
  BY <1>1, <1>2

(***************************************************************************)
(* The invariant                                                           *)
(***************************************************************************)
(* Seeded users have an address each and a hashed password; nothing else is there. *)
LEMMA InitInv == ASSUME Init PROVE IInv
<1>1. /\ users = [u \in User |-> IF u \in Seeded THEN SeedRow(u) ELSE NoRow]
      /\ sessions = [s \in SessionId |-> NoSession(Null)]
      /\ req = [r \in RequestId |-> Idle]
      /\ tokens = {} /\ mails = {} /\ rand = 1 /\ spent = {} /\ lost = {} /\ excused = {}
      /\ vouched = {Address(u, SeedEmail[u]) : u \in Seeded}
  BY DEF Init
<1>2. ASSUME NEW u \in Seeded
      PROVE  /\ u \in User /\ SeedRow(u) \in UserRecord /\ SeedRow(u).email = SeedEmail[u]
             /\ SeedEmail[u] \in Email
  <2>1. u \in User /\ SeedEmail[u] \in Email /\ SeedPassword \in Password
    BY SeedAssumption
  <2>2. PICK h \in StoredSecret : h = HashOf(Plain(SeedPassword), 1)
    BY <2>1, PlainType, HashType, BoundAssumption
  <2>3. QED
    BY <2>1, <2>2 DEF SeedRow, Row, UserRecord
<1>3. NoRow \in UserRecord /\ NoRow.state = "none"
  BY DEF NoRow, Blank, Row, UserRecord, Column, StoredSecret
<1>4. NoSession(Null) \in SessionRecord /\ NoSession(Null).state = "none"
      /\ NoSession(Null).hash = 0
  BY BoundAssumption DEF NoSession, SessionRow, SessionRecord, StoredSecret
<1>5. TypeOK
  <2>1. vouched \subseteq [user : User, email : Email \cup {Null}]
    BY <1>1, <1>2 DEF Address
  <2>2. users \in [User -> UserRecord] /\ sessions \in [SessionId -> SessionRecord]
    BY <1>1, <1>2, <1>3, <1>4
  <2>3. req \in [RequestId -> RequestRecord] /\ rand \in 1..MaxRand
    BY <1>1, IdleType, BoundAssumption
  <2>4. QED
    BY <1>1, <2>1, <2>2, <2>3 DEF TypeOK
<1>6. HashesDrawn /\ OwnersExist
  <2>1. \A s \in SessionId : sessions[s].state = "none" /\ sessions[s].hash = 0
    BY <1>1, <1>4
  <2>2. 0 <= rand /\ tokens = {}
    BY <1>1
  <2>3. QED
    BY <2>1, <2>2 DEF HashesDrawn, OwnersExist
<1>7. AddressesApart /\ AddressVouched
  <2>1. \A u \in User : users[u].state # "none" => u \in Seeded /\ users[u].email = SeedEmail[u]
    BY <1>1, <1>2, <1>3
  <2>2. QED
    BY <2>1, <1>1, SeedAssumption DEF AddressesApart, AddressVouched
<1>8. SpentTokenNeverMatches /\ LiveSessionContinues /\ PasswordChangeEndsSessions
  BY <1>1, <1>4 DEF SpentTokenNeverMatches, LiveSessionContinues, PasswordChangeEndsSessions,
    LiveSession
<1>9. ASSUME NEW r \in RequestId PROVE Carries(req[r])
  <2>1. req[r] = Idle /\ 0 <= rand
    BY <1>1
  <2>2. QED
    BY <2>1, IdleType, CarriesNothing
<1>10. QED
  BY <1>5, <1>6, <1>7, <1>8, <1>9 DEF IInv

(* Every step keeps it. *)
LEMMA NextInv == ASSUME IInv, [Next]_vars PROVE IInv'
<1>1. ASSUME NEW r \in RequestId, Start(r) PROVE IInv'
  BY <1>1, RegisterInv, ConfirmEmailInv, ConfirmNewEmailInv, ResetPasswordInv, UpdateMeInv,
    LoginInv, RefreshInv, SocialLoginInv, AdminCreateInv, AdminUpdateInv DEF Start
<1>2. ASSUME NEW r \in RequestId, UserStep(r) PROVE IInv'
  BY <1>2, ProbePasswordInv, CheckEmailInv, FindUserInv, SaveUserInv, InsertUserInv,
    SendConfirmationInv, MailNewEmailInv, MatchSocialInv, RereadUserInv DEF UserStep
<1>3. ASSUME NEW r \in RequestId, SessionStep(r) PROVE IInv'
  BY <1>3, DeleteSessionsInv, DeleteOtherSessionsInv, OpenSessionInv, ReadOwnerInv,
    FindSessionInv, RotateInv, ReplyInv DEF SessionStep
<1>4. ASSUME NEW u \in User, SoftDelete(u) \/ AdminRemove(u) PROVE IInv'
  BY <1>4, RemoveInv DEF SoftDelete, AdminRemove
<1>5. CASE UNCHANGED vars
  BY <1>5, OnlyMails DEF vars, history, IInv, TypeOK
<1>6. QED
  BY <1>1, <1>2, <1>3, <1>4, <1>5, AbortInv, ForgotPasswordInv, LogoutInv DEF Next

(* The inductive invariant holds in every state of every behaviour. *)
THEOREM Invariance == Spec => []IInv
<1>1. Init => IInv
  BY InitInv
<1>2. IInv /\ [Next]_vars => IInv'
  BY NextInv
<1>3. QED
  BY <1>1, <1>2, PTL DEF Spec

(* Every table, request and token keeps its shape; what is stored as a password is a
   hash and never a password as typed. *)
THEOREM TypeCorrect == Spec => []TypeOK
<1>1. IInv => TypeOK
  BY DEF IInv
<1>2. QED
  BY <1>1, Invariance, PTL

(* A refresh token that has been exchanged never matches its session again. *)
THEOREM SpentTokensStaySpent == Spec => []SpentTokenNeverMatches
<1>1. IInv => SpentTokenNeverMatches
  BY DEF IInv
<1>2. QED
  BY <1>1, Invariance, PTL

(* Whoever overlaps, a live session has a token somebody holds or is about to get,
   unless a reply was lost. *)
THEOREM SessionsContinue == Spec => []LiveSessionContinues
<1>1. IInv => LiveSessionContinues
  BY DEF IInv
<1>2. QED
  BY <1>1, Invariance, PTL

(* Resetting or updating the password leaves no session opened under the old one but
   those the change kept or that overlapped it. *)
THEOREM OldPasswordsEndSessions == Spec => []PasswordChangeEndsSessions
<1>1. IInv => PasswordChangeEndsSessions
  BY DEF IInv
<1>2. QED
  BY <1>1, Invariance, PTL

(* No user ends up with an address that was never confirmed or given for that user. *)
THEOREM AddressesAreVouched == Spec => []AddressVouched
<1>1. IInv => AddressVouched
  BY DEF IInv
<1>2. QED
  BY <1>1, Invariance, PTL

(* Two live users never share an address. *)
THEOREM AddressesAreUnique == Spec => []OneUserPerAddress
<1>1. IInv => OneUserPerAddress
  BY DEF IInv, AddressesApart, OneUserPerAddress, Live
<1>2. QED
  BY <1>1, Invariance, PTL

(***************************************************************************)
(* What a save writes                                                      *)
(***************************************************************************)
(* A column a dto does not name stays as it is read, and a live row stays live. *)
LEMMA SavedColumns ==
  ASSUME NEW row \in UserRecord, NEW dto \in Dto, NEW c \in Column,
         Saved(row, Payload(dto))[c] # row[c]
  PROVE  dto[c] \notin {Unset, row[c]}
<1> DEFINE payload == Payload(dto)
<1>1. payload[c] # Unset => payload[c] = dto[c]
  BY DEF Payload, Column
<1>2. Saved(row, payload)[c] = IF payload[c] = Unset THEN row[c] ELSE payload[c]
  BY DEF Saved, Row, Column
<1>3. QED
  BY <1>1, <1>2

(* A save that goes through changes what was asked for, or the request was overtaken. *)
LEMMA SaveUserWrites ==
  ASSUME IInv, NEW r \in RequestId, req[r].pc = "save", NEW u \in User, u = req[r].user,
         users' = [users EXCEPT ![u] = SavedRow(r)]
  PROVE  /\ \A c \in Column : users'[u][c] # users[u][c] =>
              c \in Asked(req[r]) \/ (req[r].stale /\ req[r].op \notin {"update", "admin"})
         /\ users[u].state = "removed" => req[r].stale
<1>1. /\ TypeOK /\ users[u] \in UserRecord /\ req[r] \in RequestRecord /\ req[r].dto \in Dto
      /\ UpToDate(req[r])
  BY DEF IInv, TypeOK, Carries, RequestRecord
<1>2. users'[u] = SavedRow(r)
  BY <1>1 DEF TypeOK
<1>3. ASSUME NEW c \in Column, users'[u][c] # users[u][c]
      PROVE  c \in Asked(req[r]) \/ (req[r].stale /\ req[r].op \notin {"update", "admin"})
  <2>1. req[r].dto[c] \notin {Unset, users[u][c]}
    BY <1>1, <1>2, <1>3, SavedColumns DEF SavedRow
  <2>2. CASE req[r].op \in {"update", "admin"}
    BY <2>1, <2>2 DEF Asked
  <2>3. CASE req[r].op \notin {"update", "admin"} /\ ~req[r].stale
    BY <2>1, <2>3, <1>1 DEF UpToDate, Updating
  <2>4. QED
    BY <2>2, <2>3
<1>4. users[u].state = "removed" => req[r].stale
  BY <1>1 DEF UpToDate, Updating, Live
<1>5. QED
  BY <1>3, <1>4

(* A request leaves "save" by its own save, or without the users being written. *)
LEMMA OnlySaveLeaves ==
  ASSUME IInv, [Next]_vars, NEW r \in RequestId, req[r].pc = "save", req'[r].pc # "save"
  PROVE  UNCHANGED users \/ SaveUser(r)
<1>1. req \in [RequestId -> RequestRecord]
  BY DEF IInv, TypeOK
<1>2. ASSUME NEW u
      PROVE  Overtaken(u)[r].pc = "save" /\ Overtaken(u) = [i \in RequestId |-> Overtaken(u)[i]]
  BY <1>1 DEF Overtaken, RequestRecord
<1>3. ASSUME NEW i \in RequestId, SaveUser(i) PROVE UNCHANGED users \/ SaveUser(r)
  <2>1. CASE i # r
    <3>1. CASE EmailFree(users, req[i].user, SavedRow(i).email)
      <4>1. PICK q : req' = [Overtaken(req[i].user) EXCEPT ![i] = q]
        BY <1>3, <3>1 DEF SaveUser
      <4>2. req'[r] = Overtaken(req[i].user)[r]
        BY <2>1, <4>1, <1>2
      <4>3. QED
        BY <4>2, <1>2
    <3>2. CASE ~EmailFree(users, req[i].user, SavedRow(i).email)
      BY <1>3, <3>2 DEF SaveUser
    <3>3. QED
      BY <3>1, <3>2
  <2>2. QED
    BY <1>3, <2>1
<1>4. ASSUME NEW i \in RequestId, InsertUser(i) PROVE UNCHANGED users
  <2>1. i # r
    BY <1>4 DEF InsertUser
  <2>2. CASE EmailFree(users, Null, req[i].dto.email)
    <3>1. PICK q : req' = [req EXCEPT ![i] = q]
      BY <1>4, <2>2 DEF InsertUser, Continue
    <3>2. req'[r] = req[r]
      BY <3>1, <2>1, <1>1
    <3>3. QED
      BY <3>2
  <2>3. CASE ~EmailFree(users, Null, req[i].dto.email)
    BY <1>4, <2>3 DEF InsertUser
  <2>4. QED
    BY <2>2, <2>3
<1>5. ASSUME NEW u \in User, SoftDelete(u) \/ AdminRemove(u) PROVE FALSE
  BY <1>2, <1>5 DEF SoftDelete, AdminRemove, Remove
<1>6. ASSUME NEW i \in RequestId, Start(i) \/ SessionStep(i) \/ Abort(i) PROVE UNCHANGED users
  <2>1. CASE Start(i)
    BY <2>1 DEF Start, Register, ConfirmEmail, ConfirmNewEmail, ResetPassword, UpdateMe, Login,
      Refresh, SocialLogin, AdminCreate, AdminUpdate
  <2>2. CASE SessionStep(i) \/ Abort(i)
    BY <2>2 DEF SessionStep, DeleteSessions, DeleteOtherSessions, OpenSession, ReadOwner,
      FindSession, Rotate, Reply, Abort
  <2>3. QED
    BY <1>6, <2>1, <2>2
<1>7. ASSUME NEW i \in RequestId, UserStep(i) PROVE UNCHANGED users \/ SaveUser(r)
  BY <1>3, <1>4, <1>7 DEF UserStep, ProbePassword, CheckEmail, FindUser, SendConfirmation,
    MailNewEmail, MatchSocial, RereadUser
<1>8. CASE ForgotPassword \/ Logout \/ UNCHANGED vars
  BY <1>8 DEF ForgotPassword, Logout, vars
<1>9. QED
  BY <1>5, <1>6, <1>7, <1>8 DEF Next

(* A request writes only what it was asked to change and revives nobody, unless another
   request wrote the user after it had read it; PATCH me and an administrator's update
   keep to their columns even then. *)
THEOREM SavesKeepToTheirColumns == Spec => NothingElseWritten
<1> DEFINE Kept(r) ==
      req[r].pc = "save" /\ req'[r].pc # "save" =>
        LET u == req[r].user IN
        /\ \A c \in Column : users'[u][c] # users[u][c] =>
             c \in Asked(req[r]) \/ (req[r].stale /\ req[r].op \notin {"update", "admin"})
        /\ users[u].state = "removed" /\ users'[u].state = "live" => req[r].stale
<1>1. IInv /\ [Next]_vars => [\A r \in RequestId : Kept(r)]_vars
  <2> SUFFICES ASSUME IInv, [Next]_vars, NEW r \in RequestId,
                      req[r].pc = "save", req'[r].pc # "save"
               PROVE  Kept(r)
    OBVIOUS
  <2>1. CASE UNCHANGED users
    BY <2>1
  <2>2. CASE SaveUser(r) /\ ~UNCHANGED users
    <3>1. req[r].user \in User
      BY DEF IInv, Carries, KnowsUser, Updating
    <3>2. users' = [users EXCEPT ![req[r].user] = SavedRow(r)]
      BY <2>2 DEF SaveUser
    <3>3. QED
      BY <3>1, <3>2, SaveUserWrites
  <2>3. QED
    BY <2>1, <2>2, OnlySaveLeaves
<1>2. QED
  BY <1>1, Invariance, PTL DEF Spec, NothingElseWritten

(***************************************************************************)
(* Sessions are chains of tokens                                           *)
(***************************************************************************)
(* Where a request stands for a token. *)
TokenPc == {"owner", "locate", "rotate", "reply"}

(* A step that leaves the sessions alone, and the requests that stand for a token. *)
ChainAside ==
  /\ UNCHANGED <<sessions, tokens, spent, lost>>
  /\ \A i \in RequestId :
       \/ req'[i].pc = req[i].pc /\ req'[i].sid = req[i].sid /\ req'[i].hash = req[i].hash
       \/ req[i].pc \notin TokenPc /\ req'[i].pc \notin TokenPc

(* To the chains, such a step is none. *)
LEMMA AsideStutters ==
  ASSUME ChainAside
  PROVE  UNCHANGED Chain!vars /\ (RepliesApart => RepliesApart')
<1>1. Replying' = Replying /\ Refreshing' = Refreshing
  BY DEF ChainAside, Replying, Refreshing, TokenPc
<1>2. \A i \in Replying \cup Refreshing :
        req'[i].sid = req[i].sid /\ req'[i].hash = req[i].hash
  BY DEF ChainAside, Replying, Refreshing, TokenPc
<1>3. Sent' = Sent /\ Accepted' = Accepted
  BY <1>1, <1>2 DEF Sent, Accepted, Carried
<1>4. ChainRows' = ChainRows
  BY DEF ChainRows, ChainAside, ChainRow
<1>5. RepliesApart => RepliesApart'
  BY <1>1, <1>2 DEF RepliesApart
<1>6. QED
  BY <1>3, <1>4, <1>5 DEF ChainAside, Chain!vars

(* One request moves, the others stay. *)
LEMMA OneMoves ==
  ASSUME TypeOK, NEW r \in RequestId, NEW q, Continue(r, q)
  PROVE  req'[r] = q /\ \A i \in RequestId \ {r} : req'[i] = req[i]
BY DEF TypeOK, Continue

(* A request that does not stand for a token, before or after, moves on aside. *)
LEMMA MovesAside ==
  ASSUME TypeOK, NEW r \in RequestId, NEW q, Continue(r, q),
         UNCHANGED <<sessions, tokens, spent, lost>>,
         req[r].pc \notin TokenPc, q.pc \notin TokenPc
  PROVE  ChainAside
BY OneMoves DEF ChainAside

(* One that goes to update does not stand for a token, *)
LEMMA UpdatePc ==
  ASSUME NEW q \in RequestRecord PROVE Update(q).pc \notin TokenPc
BY UpdateType DEF TokenPc
(* whatever it writes back. *)
LEMMA WriteBackPc ==
  ASSUME NEW op, NEW u, NEW changed
  PROVE  Update([Begin(op, "", u) EXCEPT !.dto = changed]).pc \notin TokenPc
BY DEF Update, Begin, Idle, TokenPc

(* The steps that prepare and write a user. *)
LEMMA UserStepAside == ASSUME IInv, NEW r \in RequestId, UserStep(r) PROVE ChainAside
<1>1. TypeOK /\ req[r] \in RequestRecord /\ Idle.pc \notin TokenPc
  BY IdleType DEF IInv, TypeOK, TokenPc
<1>2. \A pc : At(r, pc).pc = pc
  BY <1>1 DEF At, RequestRecord
<1>3. CASE ProbePassword(r)
  <2>1. PICK new : Continue(r, [req[r] EXCEPT !.dto.password = new,
                           !.pc = IF NamesEmail(req[r].dto) THEN "unique" ELSE "find"])
    BY <1>3 DEF ProbePassword
  <2>2. [req[r] EXCEPT !.dto.password = new,
                       !.pc = IF NamesEmail(req[r].dto) THEN "unique" ELSE "find"].pc \notin TokenPc
    BY <1>1 DEF RequestRecord, TokenPc
  <2>3. req[r].pc \notin TokenPc /\ UNCHANGED <<sessions, tokens, spent, lost>>
    BY <1>3 DEF ProbePassword, history, TokenPc
  <2>4. QED
    BY <1>1, <2>1, <2>2, <2>3, MovesAside
<1>4. CASE CheckEmail(r) \/ FindUser(r) \/ SendConfirmation(r) \/ RereadUser(r)
  <2>1. PICK q : Continue(r, q) /\ q.pc \notin TokenPc
    BY <1>1, <1>2, <1>4 DEF CheckEmail, FindUser, SendConfirmation, RereadUser, TokenPc
  <2>2. req[r].pc \notin TokenPc /\ UNCHANGED <<sessions, tokens, spent, lost>>
    BY <1>4 DEF CheckEmail, FindUser, SendConfirmation, RereadUser, history, TokenPc
  <2>3. QED
    BY <1>1, <2>1, <2>2, MovesAside
<1>5. CASE SaveUser(r)
  <2>1. /\ req[r].pc = "save" /\ UNCHANGED <<sessions, tokens, spent, lost>>
    BY <1>5 DEF SaveUser
  <2>2. CASE EmailFree(users, req[r].user, SavedRow(r).email)
    <3>1. PICK q : req' = [Overtaken(req[r].user) EXCEPT ![r] = q] /\ q.pc \notin TokenPc
      BY <1>1, <1>2, <1>5, <2>2 DEF SaveUser, TokenPc
    <3>2. \A i \in RequestId : i # r => req'[i] = Overtaken(req[r].user)[i]
      BY <3>1 DEF Overtaken
    <3>3. \A i \in RequestId : i # r =>
            req'[i].pc = req[i].pc /\ req'[i].sid = req[i].sid /\ req'[i].hash = req[i].hash
      BY <1>1, <3>2 DEF Overtaken, TypeOK, RequestRecord
    <3>4. req'[r] = q
      BY <3>1 DEF Overtaken
    <3>5. QED
      BY <2>1, <3>1, <3>3, <3>4 DEF ChainAside, TokenPc
  <2>3. CASE ~EmailFree(users, req[r].user, SavedRow(r).email)
    BY <1>1, <1>5, <2>1, <2>3, MovesAside DEF SaveUser, TokenPc
  <2>4. QED
    BY <2>2, <2>3
<1>6. CASE InsertUser(r)
  <2>1. req[r].pc = "insert" /\ UNCHANGED <<sessions, tokens, spent, lost>>
    BY <1>6 DEF InsertUser
  <2>2. ASSUME NEW u PROVE /\ [At(r, "mail") EXCEPT !.user = u].pc = "mail"
                           /\ [At(r, "reread") EXCEPT !.user = u].pc = "reread"
    BY <1>1 DEF At, RequestRecord
  <2>3. PICK q : Continue(r, q) /\ q.pc \notin TokenPc
    <3>1. CASE EmailFree(users, Null, req[r].dto.email)
      BY <1>1, <1>6, <2>2, <3>1 DEF InsertUser, TokenPc
    <3>2. CASE ~EmailFree(users, Null, req[r].dto.email)
      BY <1>1, <1>6, <3>2 DEF InsertUser
    <3>3. QED
      BY <3>1, <3>2
  <2>4. QED
    BY <1>1, <2>1, <2>3, MovesAside DEF TokenPc
<1>7. CASE MailNewEmail(r)
  <2>1. req[r].pc = "newEmail" /\ UNCHANGED <<sessions, tokens, spent, lost>>
    BY <1>7 DEF MailNewEmail, history
  <2>2. Update([req[r] EXCEPT !.dto = MailedDto(r)]).pc \notin TokenPc
    BY <1>1, UpdatePc DEF MailedDto, RequestRecord
  <2>3. QED
    BY <1>1, <1>7, <2>1, <2>2, MovesAside DEF MailNewEmail, TokenPc
<1>8. CASE MatchSocial(r)
  <2>1. req[r].pc = "match" /\ UNCHANGED <<sessions, tokens, spent, lost>>
    BY <1>8 DEF MatchSocial, history
  <2>2. ASSUME NEW u, NEW changed, WriteBack(r, "social", u, changed) PROVE ChainAside
    BY <1>1, <2>1, <2>2, WriteBackPc, MovesAside DEF WriteBack, TokenPc
  <2>3. ASSUME NEW dto, Creating(r, "social", dto) PROVE ChainAside
    <3>1. [Begin("social", "insert", Null) EXCEPT !.dto = dto].pc \notin TokenPc
      BY DEF Begin, Idle, TokenPc
    <3>2. QED
      BY <1>1, <2>1, <2>3, <3>1, MovesAside DEF Creating, TokenPc
  <2>4. ASSUME Continue(r, At(r, "open")) \/ Continue(r, Idle) PROVE ChainAside
    BY <1>1, <1>2, <2>1, <2>4, MovesAside DEF TokenPc
  <2>5. QED
    BY <1>8, <2>2, <2>3, <2>4 DEF MatchSocial
<1>9. QED
  BY <1>3, <1>4, <1>5, <1>6, <1>7, <1>8 DEF UserStep

(* The first steps of a request, but for that of a refresh. *)
LEMMA StartAside ==
  ASSUME IInv, NEW r \in RequestId, Start(r), ~Refresh(r)
  PROVE  ChainAside
<1>1. TypeOK
  BY DEF IInv
<1>2. req[r].pc = "idle"
  BY DEF Start, Register, ConfirmEmail, ConfirmNewEmail, ResetPassword, UpdateMe, Login,
    SocialLogin, AdminCreate, AdminUpdate, Starts
<1>3. UNCHANGED <<sessions, tokens, spent, lost>>
  BY DEF Start, Register, ConfirmEmail, ConfirmNewEmail, ResetPassword, UpdateMe, Login,
    SocialLogin, AdminCreate, AdminUpdate, history
<1>4. ASSUME NEW q, Continue(r, q), q.pc \notin TokenPc PROVE ChainAside
  BY <1>1, <1>2, <1>3, <1>4, MovesAside DEF TokenPc
<1>5. CASE Register(r) \/ AdminCreate(r)
  <2>1. PICK op, dto : Creating(r, op, dto)
    BY <1>5 DEF Register, AdminCreate
  <2>2. [Begin(op, "insert", Null) EXCEPT !.dto = dto].pc \notin TokenPc
    BY DEF Begin, Idle, TokenPc
  <2>3. QED
    BY <1>4, <2>1, <2>2 DEF Creating
<1>6. CASE ConfirmEmail(r) \/ ConfirmNewEmail(r) \/ AdminUpdate(r)
  <2>1. PICK op, u, changed : WriteBack(r, op, u, changed)
    BY <1>6 DEF ConfirmEmail, ConfirmNewEmail, AdminUpdate
  <2>2. QED
    BY <1>4, <2>1, WriteBackPc DEF WriteBack
<1>7. CASE ResetPassword(r)
  <2>1. PICK u, changed : Continue(r, [Begin("reset", "wipe", u) EXCEPT !.dto = changed])
    BY <1>7 DEF ResetPassword
  <2>2. [Begin("reset", "wipe", u) EXCEPT !.dto = changed].pc \notin TokenPc
    BY DEF Begin, Idle, TokenPc
  <2>3. QED
    BY <1>4, <2>1, <2>2
<1>8. CASE UpdateMe(r)
  <2> DEFINE Moves(u, s, d, e) ==
        Continue(r, IF NamesPassword(d) THEN MeRequest(u, s, d, e)
                                        ELSE NewEmailOrUpdate(MeRequest(u, s, d, e)))
  <2> DEFINE dto(w, f) ==
        [Nothing EXCEPT !.profile = f, !.password = IF w = Unset THEN Unset ELSE Plain(w)]
  <2> DEFINE address(u, e0) == IF e0 = users[u].email THEN Null ELSE e0
  <2>1. PICK u \in User, s \in SessionId :
          \E e0 \in Email \cup {Null}, w \in Password \cup {Unset}, f \in Profile \cup {Unset} :
            /\ Access(u, s) /\ Live(users, u)
            /\ NamesPassword(dto(w, f)) => \E old \in Password : Compare(old, users[u].password)
            /\ Moves(u, s, dto(w, f), address(u, e0))
    BY <1>8, Zenon DEF UpdateMe, MeRequest
  <2> HIDE DEF Moves
  <2>2. PICK d, e : Moves(u, s, d, e)
    BY <2>1
  <2>3. /\ MeRequest(u, s, d, e).pc = "others"
        /\ \A pc : [MeRequest(u, s, d, e) EXCEPT !.pc = pc].pc = pc
    BY DEF MeRequest, Begin, Idle
  <2>4. NewEmailOrUpdate(MeRequest(u, s, d, e)).pc \notin TokenPc
    BY <2>3 DEF NewEmailOrUpdate, Update, TokenPc
  <2>5. QED
    BY <1>4, <2>2, <2>3, <2>4 DEF TokenPc, Moves
<1>9. CASE Login(r)
  <2>1. PICK u, under : Continue(r, [Begin("login", "open", u) EXCEPT !.under = under])
    BY <1>9 DEF Login
  <2>2. [Begin("login", "open", u) EXCEPT !.under = under].pc \notin TokenPc
    BY DEF Begin, Idle, TokenPc
  <2>3. QED
    BY <1>4, <2>1, <2>2
<1>10. CASE SocialLogin(r)
  <2>1. PICK u, e, x : Continue(r, [Begin("social", "match", u) EXCEPT
                                      !.email = e, !.dto.socialId = x])
    BY <1>10 DEF SocialLogin
  <2>2. [Begin("social", "match", u) EXCEPT !.email = e, !.dto.socialId = x].pc \notin TokenPc
    BY DEF Begin, Idle, TokenPc
  <2>3. QED
    BY <1>4, <2>1, <2>2
<1>11. QED
  BY <1>5, <1>6, <1>7, <1>8, <1>9, <1>10 DEF Start

(* Steps that are no request's, but for a logout. *)
LEMMA OtherStepsAside ==
  ASSUME IInv, ForgotPassword \/ UNCHANGED vars \/ (\E u \in User : Remove(u))
  PROVE  ChainAside
<1>1. UNCHANGED <<sessions, tokens, spent, lost>>
  BY DEF ForgotPassword, vars, Remove, history
<1>2. CASE UNCHANGED req
  BY <1>1, <1>2 DEF ChainAside
<1>3. ASSUME NEW u \in User, Remove(u) PROVE ChainAside
  <2>1. \A i \in RequestId :
          req'[i].pc = req[i].pc /\ req'[i].sid = req[i].sid /\ req'[i].hash = req[i].hash
    BY <1>3 DEF Remove, Overtaken, IInv, TypeOK, RequestRecord
  <2>2. QED
    BY <1>1, <2>1 DEF ChainAside
<1>4. QED
  BY <1>2, <1>3 DEF ForgotPassword, vars

(* What becomes of the tokens being exchanged when one request moves. *)
LEMMA AcceptedMoves ==
  ASSUME TypeOK, NEW r \in RequestId, NEW q, Continue(r, q)
  PROVE  /\ /\ q.pc \in {"owner", "locate", "rotate"}
            /\ r \in Refreshing => Token(q.sid, q.hash) = Carried(r)
            => Accepted' = Accepted \cup {Token(q.sid, q.hash)}
         /\ q.pc \notin {"owner", "locate", "rotate"} =>
              /\ Accepted' \in {Accepted, Accepted \ {Carried(r)}}
              /\ r \notin Refreshing => Accepted' = Accepted
<1>1. req'[r] = q /\ \A i \in RequestId \ {r} : req'[i] = req[i]
  BY OneMoves
<1>2. \A i \in RequestId \ {r} :
        (i \in Refreshing' <=> i \in Refreshing) /\ req'[i].sid = req[i].sid
          /\ req'[i].hash = req[i].hash
  BY <1>1 DEF Refreshing
<1>3. Accepted' = {Token(req'[i].sid, req'[i].hash) : i \in Refreshing'}
  BY DEF Accepted, Carried
<1>4. CASE q.pc \in {"owner", "locate", "rotate"} /\ (r \in Refreshing => Token(q.sid, q.hash) = Carried(r))
  <2>1. Refreshing' = Refreshing \cup {r}
    BY <1>1, <1>4 DEF Refreshing
  <2>2. QED
    BY <1>1, <1>2, <1>3, <1>4, <2>1 DEF Accepted, Carried, Refreshing
<1>5. CASE q.pc \notin {"owner", "locate", "rotate"}
  <2>1. Refreshing' = Refreshing \ {r}
    BY <1>1, <1>5 DEF Refreshing
  <2>2. Accepted' = {Carried(i) : i \in Refreshing \ {r}}
    BY <1>2, <1>3, <2>1 DEF Carried, Refreshing
  <2>3. QED
    BY <1>5, <2>2 DEF Accepted
<1>6. QED
  BY <1>4, <1>5

(* And of those on their way; each reply carries its own. *)
LEMMA SentMoves ==
  ASSUME TypeOK, NEW r \in RequestId, NEW q, Continue(r, q)
  PROVE  /\ r \notin Replying /\ q.pc = "reply" => Sent' = Sent \cup {Token(q.sid, q.hash)}
         /\ r \notin Replying /\ q.pc # "reply" => Sent' = Sent
         /\ RepliesApart /\ r \in Replying /\ q.pc # "reply" => Sent' = Sent \ {Carried(r)}
<1>1. req'[r] = q /\ \A i \in RequestId \ {r} : req'[i] = req[i]
  BY OneMoves
<1>2. \A i \in RequestId \ {r} :
        (i \in Replying' <=> i \in Replying) /\ req'[i].sid = req[i].sid
          /\ req'[i].hash = req[i].hash
  BY <1>1 DEF Replying
<1>3. Sent' = {Token(req'[i].sid, req'[i].hash) : i \in Replying'}
  BY DEF Sent, Carried
<1>4. CASE q.pc = "reply" /\ r \notin Replying
  <2>1. Replying' = Replying \cup {r}
    BY <1>1, <1>4 DEF Replying
  <2>2. QED
    BY <1>1, <1>2, <1>3, <1>4, <2>1 DEF Sent, Carried, Replying
<1>5. CASE q.pc # "reply"
  <2>1. Replying' = Replying \ {r}
    BY <1>1, <1>5 DEF Replying
  <2>2. Sent' = {Carried(i) : i \in Replying \ {r}}
    BY <1>2, <1>3, <2>1 DEF Carried, Replying
  <2>3. ASSUME RepliesApart, r \in Replying
        PROVE  \A i \in Replying \ {r} : Carried(i) # Carried(r)
    BY <2>3 DEF RepliesApart, Carried, Token
  <2>4. QED
    BY <1>5, <2>2, <2>3 DEF Sent
<1>6. QED
  BY <1>4, <1>5

(* Replies stay apart when none begins, or one with a fresh hash does. *)
LEMMA ApartMoves ==
  ASSUME IInv, RepliesApart, NEW r \in RequestId, NEW q, Continue(r, q),
         q.pc # "reply" \/ q.hash = Drawn
  PROVE  RepliesApart'
<1>1. TypeOK /\ rand \in Int
  BY BoundAssumption DEF IInv, TypeOK
<1>2. req'[r] = q /\ \A i \in RequestId \ {r} : req'[i] = req[i]
  BY <1>1, OneMoves
<1>3. \A i \in RequestId : req[i].hash <= rand /\ req[i].hash \in Int
  BY BoundAssumption DEF IInv, TypeOK, RequestRecord, Carries, KnowsSession
<1>4. \A i \in Replying' : i = r \/ i \in Replying
  BY <1>2 DEF Replying
<1>5. \A i \in Replying' \ {r} : req'[i].hash # q.hash \/ q.pc # "reply"
  BY <1>1, <1>2, <1>3 DEF Drawn, Replying
<1>6. r \in Replying' => q.pc = "reply"
  BY <1>2 DEF Replying
<1>7. \A i \in Replying' \ {r} : i \in RequestId /\ req'[i].hash = req[i].hash
  BY <1>2 DEF Replying
<1>8. QED
  BY <1>2, <1>4, <1>5, <1>6, <1>7 DEF RepliesApart

(***************************************************************************)
(* The steps that are the chains' own                                      *)
(***************************************************************************)
(* A fresh hash is one the session has not had. *)
LEMMA DrawnIsFresh ==
  ASSUME IInv, NEW s \in SessionId PROVE Chain!Fresh(s, Drawn)
<1>1. rand \in Int /\ sessions[s].hash \in Int /\ sessions[s].hash <= rand
  BY BoundAssumption DEF IInv, TypeOK, SessionRecord, HashesDrawn
<1>2. \A t \in tokens : t.hash \in Int /\ t.hash <= rand
  BY BoundAssumption DEF IInv, TypeOK, TokenRecord, HashesDrawn
<1>3. \A r \in RequestId : req[r].hash \in Int /\ req[r].hash <= rand
  BY BoundAssumption DEF IInv, TypeOK, RequestRecord, Carries, KnowsSession
<1>4. \A t \in Sent : t.hash \in Int /\ t.hash <= rand
  BY <1>3 DEF Sent, Carried, Token, Replying
<1>5. ChainRows[s].hash = sessions[s].hash
  BY DEF ChainRows, ChainRow
<1>6. QED
  BY <1>1, <1>2, <1>4, <1>5 DEF Chain!Fresh, Drawn

(* A session is opened for a user whose password, or Google account, matched. *)
LEMMA ChainOpens ==
  ASSUME IInv, RepliesApart, NEW r \in RequestId, OpenSession(r)
  PROVE  Chain!Next /\ RepliesApart'
<1>1. TypeOK /\ req[r] \in RequestRecord /\ req[r].pc = "open" /\ req[r].user \in User
  BY DEF IInv, TypeOK, OpenSession, Carries, KnowsUser
<1>2. PICK s \in SessionId :
        /\ sessions[s].state = "none"
        /\ sessions' = [sessions EXCEPT
             ![s] = SessionRow("live", req[r].user, Drawn, req[r].under)]
        /\ Continue(r, [At(r, "reply") EXCEPT !.sid = s, !.hash = Drawn])
  BY DEF OpenSession
<1>3. Drawn \in 1..MaxRand /\ UNCHANGED <<tokens, spent, lost>>
  BY <1>1, BoundAssumption DEF OpenSession, Draw, Drawn, TypeOK
<1>4. PICK q : /\ Continue(r, q) /\ q.pc = "reply" /\ q.sid = s /\ q.hash = Drawn
  <2>1. At(r, "reply") = [req[r] EXCEPT !.pc = "reply"]
    BY DEF At
  <2>2. ASSUME NEW h
        PROVE  LET q == [At(r, "reply") EXCEPT !.sid = s, !.hash = h]
               IN  q.pc = "reply" /\ q.sid = s /\ q.hash = h
    BY <1>1, <2>1 DEF RequestRecord
  <2>3. QED
    BY <1>2, <2>2
<1>5. /\ Sent' = Sent \cup {Token(s, Drawn)} /\ RepliesApart'
  BY <1>1, <1>4, SentMoves, ApartMoves DEF Replying
<1>6. Accepted' = Accepted
  BY <1>1, <1>4, AcceptedMoves DEF Refreshing
<1>7. ASSUME NEW x \in SessionId
      PROVE  ChainRow(x)' = IF x = s THEN Chain!Row("live", req[r].user, Drawn) ELSE ChainRow(x)
  BY <1>1, <1>2 DEF ChainRow, Chain!Row, SessionRow, TypeOK
<1>8. ChainRows' = [ChainRows EXCEPT ![s] = Chain!Row("live", req[r].user, Drawn)]
  BY <1>7 DEF ChainRows
<1>9. ChainRows[s].state = "none"
  BY <1>2 DEF ChainRows, ChainRow
<1>10. Chain!Open(s, req[r].user, Drawn)
  BY <1>3, <1>5, <1>6, <1>8, <1>9, DrawnIsFresh DEF Chain!Open, Chain!Token, Token
<1>11. QED
  BY <1>1, <1>3, <1>5, <1>10 DEF Chain!Next

(* A reply is the token on its way, delivered. *)
LEMMA ChainDelivers ==
  ASSUME IInv, RepliesApart, NEW r \in RequestId, Reply(r)
  PROVE  Chain!Next /\ RepliesApart'
<1>1. TypeOK /\ r \in Replying /\ r \notin Refreshing /\ Idle.pc = "idle"
  BY IdleType DEF IInv, Reply, Replying, Refreshing
<1>2. /\ tokens' = tokens \cup {Carried(r)} /\ Continue(r, Idle)
      /\ UNCHANGED <<sessions, spent, lost>>
  BY DEF Reply, Signed, Carried, history
<1>3. /\ Sent' = Sent \ {Carried(r)} /\ Accepted' = Accepted /\ RepliesApart'
  BY <1>1, <1>2, SentMoves, AcceptedMoves, ApartMoves
<1>4. ChainRows' = ChainRows
  BY <1>2 DEF ChainRows, ChainRow
<1>5. Chain!Deliver(Carried(r)) /\ Carried(r) \in Sent
  BY <1>1, <1>2, <1>3, <1>4 DEF Chain!Deliver, Sent
<1>6. QED
  BY <1>3, <1>5 DEF Chain!Next

(* A refresh begins with a token that is current. *)
LEMMA ChainAccepts ==
  ASSUME IInv, RepliesApart, NEW r \in RequestId, Refresh(r)
  PROVE  Chain!Next /\ RepliesApart'
<1>1. TypeOK /\ req[r].pc = "idle"
  BY DEF IInv, Refresh, Starts
<1>2. UNCHANGED <<sessions, tokens, spent, lost>>
  BY DEF Refresh, history
<1>3. PICK t \in tokens :
        /\ LiveSession(sessions, t.sid) /\ sessions[t.sid].hash = t.hash
        /\ Continue(r, [Begin("refresh", "owner", sessions[t.sid].user) EXCEPT
                           !.sid = t.sid, !.hash = t.hash])
  BY DEF Refresh, Matches
<1>4. PICK q : Continue(r, q) /\ q.pc = "owner" /\ q.sid = t.sid /\ q.hash = t.hash
  <2> DEFINE begun == [Begin("refresh", "owner", sessions[t.sid].user) EXCEPT
                         !.sid = t.sid, !.hash = t.hash]
  <2>1. begun.pc = "owner" /\ begun.sid = t.sid /\ begun.hash = t.hash
    BY DEF Begin, Idle
  <2>2. Continue(r, begun)
    BY <1>3
  <2> HIDE DEF begun
  <2>3. QED
    BY <2>1, <2>2
<1>5. t = Token(t.sid, t.hash) /\ t.sid \in SessionId
  BY <1>1 DEF TypeOK, TokenRecord, Token
<1>6. /\ Accepted' = Accepted \cup {t} /\ Sent' = Sent /\ RepliesApart'
  BY <1>1, <1>4, <1>5, SentMoves, AcceptedMoves, ApartMoves DEF Replying, Refreshing
<1>7. ChainRows' = ChainRows
  BY <1>2 DEF ChainRows, ChainRow
<1>8. ChainRows[t.sid].state = "live" /\ ChainRows[t.sid].hash = t.hash
  BY <1>3, <1>5 DEF ChainRows, ChainRow, LiveSession
<1>9. Chain!Accept(t)
  BY <1>2, <1>5, <1>6, <1>7, <1>8
  DEF Chain!Accept, Chain!Live, Chain!Current, Chain!Token, Token
<1>10. QED
  BY <1>6, <1>9 DEF Chain!Next

(* On its way, a refresh may find that its user or its session is gone, and give up. *)
LEMMA ChainReads ==
  ASSUME IInv, RepliesApart, NEW r \in RequestId, ReadOwner(r) \/ FindSession(r)
  PROVE  (Chain!Next \/ UNCHANGED Chain!vars) /\ RepliesApart'
<1>1. TypeOK /\ req[r] \in RequestRecord /\ r \in Refreshing /\ r \notin Replying
      /\ Idle.pc = "idle"
  BY IdleType DEF IInv, TypeOK, ReadOwner, FindSession, Refreshing, Replying
<1>2. UNCHANGED <<sessions, tokens, spent, lost>>
  BY DEF ReadOwner, FindSession, history
<1>3. ChainRows' = ChainRows
  BY <1>2 DEF ChainRows, ChainRow
<1>4. CASE Continue(r, Idle)
  <2>1. /\ Accepted' \in {Accepted, Accepted \ {Carried(r)}} /\ Sent' = Sent
        /\ RepliesApart'
    BY <1>1, <1>4, AcceptedMoves, SentMoves, ApartMoves
  <2>2. Chain!GiveUp(Carried(r)) /\ Carried(r) \in Accepted
    BY <1>1, <1>2, <1>3, <2>1 DEF Chain!GiveUp, Chain!Release, Accepted
  <2>3. QED
    BY <2>1, <2>2 DEF Chain!Next
<1>5. CASE \E pc \in {"locate", "rotate"} : Continue(r, At(r, pc))
  <2>1. PICK pc \in {"locate", "rotate"} : Continue(r, At(r, pc))
    BY <1>5
  <2>2. /\ At(r, pc).pc = pc
        /\ At(r, pc).sid = req[r].sid /\ At(r, pc).hash = req[r].hash
    BY <1>1 DEF At, RequestRecord
  <2>3. /\ Accepted' = Accepted \cup {Carried(r)} /\ Sent' = Sent
        /\ RepliesApart'
    BY <1>1, <2>1, <2>2, AcceptedMoves, SentMoves, ApartMoves DEF Carried
  <2>4. Accepted' = Accepted
    BY <1>1, <2>3 DEF Accepted
  <2>5. QED
    BY <1>2, <1>3, <2>3, <2>4 DEF Chain!vars
<1>6. QED
  BY <1>4, <1>5 DEF ReadOwner, FindSession

(* A refresh exchanges the token it was accepted with. *)
LEMMA ChainExchanges ==
  ASSUME IInv, RepliesApart, NEW r \in RequestId, Rotate(r)
  PROVE  Chain!Next /\ RepliesApart'
<1>1. TypeOK /\ req[r] \in RequestRecord /\ req[r].pc = "rotate" /\ Carries(req[r])
      /\ r \in Refreshing /\ r \notin Replying
  BY DEF IInv, TypeOK, Rotate, Refreshing, Replying
<1>2. PICK s \in SessionId : s = req[r].sid /\ Carried(r) = Token(s, req[r].hash)
  BY <1>1 DEF Carries, KnowsSession, Carried
<1>3. /\ Drawn \in 1..MaxRand /\ UNCHANGED tokens
      /\ spent' = spent \cup {Carried(r)} /\ lost' = lost \ {s}
      /\ sessions' = Rotated(sessions, s, Drawn)
  BY <1>1, <1>2, BoundAssumption DEF Rotate, Draw, Drawn, TypeOK, Carried
<1>4. PICK q : /\ Continue(r, q) /\ q.pc = "reply" /\ q.sid = s /\ q.hash = Drawn
  <2> DEFINE replied == [At(r, "reply") EXCEPT !.hash = Drawn]
  <2>1. replied.pc = "reply" /\ replied.sid = s /\ replied.hash = Drawn
    BY <1>1, <1>2 DEF At, RequestRecord
  <2>2. Continue(r, replied)
    BY DEF Rotate
  <2> HIDE DEF replied
  <2>3. QED
    BY <2>1, <2>2
<1>5. /\ Sent' = Sent \cup {Token(s, Drawn)} /\ RepliesApart'
      /\ Accepted' \in {Accepted, Accepted \ {Carried(r)}}
  BY <1>1, <1>4, SentMoves, ApartMoves, AcceptedMoves
<1>6. ChainRows' = [ChainRows EXCEPT ![s] = Chain!Row("live", ChainRows[s].owner, Drawn)]
  <2>1. sessions[s] \in SessionRecord
    BY <1>1 DEF TypeOK
  <2>2. /\ sessions'[s].state = "live" /\ sessions'[s].hash = Drawn
        /\ sessions'[s].user = sessions[s].user
    BY <1>1, <1>3, <2>1 DEF Rotated, TypeOK, SessionRecord
  <2>3. \A x \in SessionId \ {s} : sessions'[x] = sessions[x]
    BY <1>1, <1>3 DEF Rotated, TypeOK
  <2>4. ChainRow(s)' = Chain!Row("live", ChainRow(s).owner, Drawn)
    BY <2>2 DEF ChainRow, Chain!Row
  <2>5. \A x \in SessionId \ {s} : ChainRow(x)' = ChainRow(x)
    BY <2>3 DEF ChainRow
  <2>6. QED
    BY <2>4, <2>5 DEF ChainRows
<1>7. Carried(r).sid = s /\ Carried(r) \in Accepted
  BY <1>1, <1>2 DEF Token, Accepted
<1>8. Chain!Exchange(Carried(r), Drawn)
  BY <1>3, <1>5, <1>6, <1>7, DrawnIsFresh DEF Chain!Exchange, Chain!Release, Chain!Token, Token
<1>9. QED
  BY <1>3, <1>5, <1>7, <1>8 DEF Chain!Next

(* A request that is cut short loses the token it was about to send, or gives up. *)
LEMMA ChainAborts ==
  ASSUME IInv, RepliesApart, NEW r \in RequestId, Abort(r)
  PROVE  (Chain!Next \/ UNCHANGED Chain!vars) /\ RepliesApart'
<1>1. TypeOK /\ Idle.pc = "idle" /\ Continue(r, Idle) /\ UNCHANGED <<sessions, tokens, spent>>
  BY IdleType DEF IInv, Abort
<1>2. ChainRows' = ChainRows
  BY <1>1 DEF ChainRows, ChainRow
<1>3. RepliesApart'
  BY <1>1, ApartMoves
<1>4. CASE r \in Replying
  <2>1. lost' = lost \cup {Carried(r).sid} /\ r \notin Refreshing
    BY <1>4 DEF Abort, Replying, Refreshing, Carried, Token
  <2>2. Sent' = Sent \ {Carried(r)} /\ Accepted' = Accepted
    BY <1>1, <1>4, <2>1, SentMoves, AcceptedMoves
  <2>3. Chain!Lose(Carried(r)) /\ Carried(r) \in Sent
    BY <1>1, <1>2, <1>4, <2>1, <2>2 DEF Chain!Lose, Sent
  <2>4. QED
    BY <1>3, <2>3 DEF Chain!Next
<1>5. CASE r \notin Replying
  <2>1. lost' = lost /\ Sent' = Sent
    BY <1>1, <1>5, SentMoves DEF Abort, Replying
  <2>2. /\ Accepted' \in {Accepted, Accepted \ {Carried(r)}}
        /\ r \notin Refreshing => Accepted' = Accepted
    BY <1>1, AcceptedMoves
  <2>3. CASE r \in Refreshing
    <3>1. Chain!GiveUp(Carried(r)) /\ Carried(r) \in Accepted
      BY <1>1, <1>2, <2>1, <2>2, <2>3 DEF Chain!GiveUp, Chain!Release, Accepted
    <3>2. QED
      BY <1>3, <3>1 DEF Chain!Next
  <2>4. CASE r \notin Refreshing
    BY <1>1, <1>2, <1>3, <2>1, <2>2, <2>4 DEF Chain!vars
  <2>5. QED
    BY <2>3, <2>4
<1>6. QED
  BY <1>4, <1>5

(* Sessions deleted are chains closed. *)
LEMMA ChainCloses ==
  ASSUME IInv, NEW gone, sessions' = WithoutSessions(sessions, gone),
         UNCHANGED <<tokens, spent, lost>>, Sent' = Sent, Accepted' = Accepted
  PROVE  Chain!Next
<1> DEFINE S == {s \in SessionId : LiveSession(sessions, s) /\ s \in gone}
<1>1. sessions \in [SessionId -> SessionRecord]
  BY DEF IInv, TypeOK
<1>2. ASSUME NEW s \in SessionId
      PROVE  ChainRow(s)' = IF s \in S THEN [ChainRow(s) EXCEPT !.state = "deleted"] ELSE ChainRow(s)
  BY <1>1 DEF WithoutSessions, ChainRow, SessionRecord
<1>3. \A s \in S : ChainRows[s].state = "live"
  BY DEF ChainRows, ChainRow, LiveSession
<1> HIDE DEF S
<1>4. S \subseteq SessionId
  BY DEF S
<1>5. Chain!Close(S)
  BY <1>2, <1>3, <1>4 DEF Chain!Close, Chain!Live, ChainRows
<1>6. QED
  BY <1>4, <1>5 DEF Chain!Next

(* For a new password, those of the user are. *)
LEMMA ChainDeletes ==
  ASSUME IInv, RepliesApart, NEW r \in RequestId, DeleteSessions(r) \/ DeleteOtherSessions(r)
  PROVE  Chain!Next /\ RepliesApart'
<1>1. TypeOK /\ req[r] \in RequestRecord /\ r \notin Refreshing /\ r \notin Replying
  BY DEF IInv, TypeOK, DeleteSessions, DeleteOtherSessions, Refreshing, Replying
<1>2. PICK gone : sessions' = WithoutSessions(sessions, gone) /\ UNCHANGED <<tokens, spent, lost>>
  BY DEF DeleteSessions, DeleteOtherSessions, DeletedByUser, history
<1>3. PICK q : Continue(r, q) /\ q.pc \notin TokenPc
  BY <1>1, UpdatePc, NewEmailOrUpdateType DEF DeleteSessions, DeleteOtherSessions, TokenPc
<1>4. Sent' = Sent /\ Accepted' = Accepted /\ RepliesApart'
  BY <1>1, <1>3, SentMoves, AcceptedMoves, ApartMoves DEF TokenPc
<1>5. QED
  BY <1>2, <1>4, ChainCloses

(* A logout closes one. *)
LEMMA ChainLogsOut == ASSUME IInv, RepliesApart, Logout PROVE Chain!Next /\ RepliesApart'
<1>1. PICK s \in SessionId : sessions' = WithoutSessions(sessions, {s})
  BY DEF Logout
<1>2. UNCHANGED <<req, tokens, spent, lost>>
  BY DEF Logout, history
<1>3. Sent' = Sent /\ Accepted' = Accepted /\ RepliesApart'
  BY <1>2 DEF Sent, Accepted, Replying, Refreshing, Carried, RepliesApart
<1>4. QED
  BY <1>1, <1>2, <1>3, ChainCloses

(* Every step is one of the chains, or none to them. *)
LEMMA ChainStep ==
  ASSUME IInv, RepliesApart, [Next]_vars
  PROVE  [Chain!Next]_(Chain!vars) /\ RepliesApart'
<1>1. ASSUME ChainAside PROVE UNCHANGED Chain!vars /\ RepliesApart'
  BY <1>1, AsideStutters
<1>2. ASSUME NEW r \in RequestId, Start(r)
      PROVE  (Chain!Next \/ UNCHANGED Chain!vars) /\ RepliesApart'
  BY <1>1, <1>2, StartAside, ChainAccepts
<1>3. ASSUME NEW r \in RequestId, SessionStep(r)
      PROVE  (Chain!Next \/ UNCHANGED Chain!vars) /\ RepliesApart'
  BY <1>3, ChainDeletes, ChainOpens, ChainReads, ChainExchanges, ChainDelivers DEF SessionStep
<1>4. ASSUME NEW r \in RequestId, UserStep(r)
      PROVE  (Chain!Next \/ UNCHANGED Chain!vars) /\ RepliesApart'
  BY <1>1, <1>4, UserStepAside
<1>5. CASE ForgotPassword \/ UNCHANGED vars \/ (\E u \in User : Remove(u))
  BY <1>1, <1>5, OtherStepsAside
<1>6. QED
  BY <1>2, <1>3, <1>4, <1>5, ChainAborts, ChainLogsOut DEF Next, SoftDelete, AdminRemove

(* There are no sessions and no tokens to begin with. *)
LEMMA ChainInit == ASSUME Init PROVE Chain!Init /\ RepliesApart
<1>1. /\ \A s \in SessionId : sessions[s] = NoSession(Null)
      /\ \A r \in RequestId : req[r].pc = "idle"
      /\ tokens = {} /\ spent = {} /\ lost = {}
  BY IdleType DEF Init
<1>2. Replying = {} /\ Refreshing = {}
  BY <1>1 DEF Replying, Refreshing
<1>3. Sent = {} /\ Accepted = {} /\ RepliesApart
  BY <1>2 DEF Sent, Accepted, RepliesApart
<1>4. \A s \in SessionId : ChainRow(s) = Chain!Row("none", Null, 0)
  BY <1>1 DEF ChainRow, Chain!Row, NoSession, SessionRow
<1>5. QED
  BY <1>1, <1>3, <1>4 DEF Chain!Init, ChainRows

(* Sessions are chains of tokens, whatever requests overlap and wherever they stop:
   Auth implements TokenChain. *)
THEOREM SessionsAreChains == Spec => KeepsChains
<1>1. Init => Chain!Init /\ RepliesApart
  BY ChainInit
<1>2. IInv /\ RepliesApart /\ [Next]_vars => [Chain!Next]_(Chain!vars) /\ RepliesApart'
  BY ChainStep
<1>3. QED
  BY <1>1, <1>2, Invariance, PTL DEF Spec, KeepsChains, Chain!Spec

(* On chains alone: what was exchanged does not match again, and what matches is in reach,
   because only tokens a client has are accepted, and each exchange brings a hash the session
   has not had. *)
ChainInv ==
  /\ Chain!NeverAgain /\ Chain!WithinReach
  /\ Accepted \subseteq tokens /\ spent \subseteq tokens

(* A session is given a hash it has not had. *)
LEMMA ChainGrows ==
  ASSUME ChainInv, NEW s, NEW u, NEW h \in Int, Chain!Fresh(s, h),
         ChainRows' = [ChainRows EXCEPT ![s] = Chain!Row("live", u, h)],
         Sent' = Sent \cup {Chain!Token(s, h)}, UNCHANGED tokens, Accepted' \subseteq Accepted,
         \A t \in spent' : t \in spent \/ (t \in Accepted /\ t.sid = s),
         lost \ {s} \subseteq lost'
  PROVE  ChainInv'
<1>1. /\ Accepted' \subseteq tokens' /\ spent' \subseteq tokens'
      /\ \A t \in spent : t \in tokens
  BY DEF ChainInv
<1>2. ASSUME NEW x \in SessionId
      PROVE  ChainRows'[x] = IF x = s THEN Chain!Row("live", u, h) ELSE ChainRows[x]
  BY DEF ChainRows
<1>3. \A x, k : Chain!Token(x, k).sid = x /\ Chain!Token(x, k).hash = k
  BY DEF Chain!Token
<1>4. Chain!Row("live", u, h).hash = h
  BY DEF Chain!Row
<1>5. ASSUME NEW x \in SessionId PROVE Chain!Token(x, ChainRows'[x].hash) \notin spent'
  <2>1. CASE x = s
    <3>1. Chain!Token(s, h) \notin tokens
      BY <1>3 DEF Chain!Fresh
    <3>2. QED
      BY <1>1, <1>2, <1>4, <2>1, <3>1
  <2>2. CASE x # s
    <3>1. Chain!Token(x, ChainRows[x].hash) \notin spent
      BY DEF ChainInv, Chain!NeverAgain, Chain!Current
    <3>2. QED
      BY <1>2, <1>3, <2>2, <3>1
  <2>3. QED
    BY <2>1, <2>2
<1>6. ASSUME NEW x \in SessionId, ChainRows'[x].state = "live"
      PROVE  Chain!Token(x, ChainRows'[x].hash) \in tokens' \cup Sent' \/ x \in lost'
  <2>1. CASE x = s
    BY <1>2, <1>4, <2>1
  <2>2. CASE x # s
    BY <1>2, <1>6, <2>2 DEF ChainInv, Chain!WithinReach, Chain!Current, Chain!Live
  <2>3. QED
    BY <2>1, <2>2
<1>7. Chain!NeverAgain' /\ Chain!WithinReach'
  BY <1>5, <1>6 DEF Chain!NeverAgain, Chain!WithinReach, Chain!Current, Chain!Live
<1>8. QED
  BY <1>1, <1>7 DEF ChainInv

(* Nothing else gives a session a hash, or takes a token away but by losing it. *)
LEMMA ChainKeeps ==
  ASSUME ChainInv, [Chain!Next]_(Chain!vars) PROVE ChainInv'
<1>1. \A x, k : Chain!Token(x, k).sid = x
  BY DEF Chain!Token
<1>2. CASE UNCHANGED Chain!vars
  BY <1>2 DEF Chain!vars, ChainInv, Chain!NeverAgain, Chain!WithinReach, Chain!Current, Chain!Live
<1>3. ASSUME NEW s \in SessionId, NEW u \in User, NEW h \in 1..MaxRand, Chain!Open(s, u, h)
      PROVE  ChainInv'
  <2>1. h \in Int
    BY BoundAssumption
  <2>2. QED
    BY <1>3, <2>1, ChainGrows DEF Chain!Open
<1>4. ASSUME NEW t \in Sent, Chain!Deliver(t) \/ Chain!Lose(t) PROVE ChainInv'
  <2>1. ChainRows' = ChainRows /\ spent' = spent /\ Accepted' = Accepted /\ tokens \subseteq tokens'
    BY <1>4 DEF Chain!Deliver, Chain!Lose
  <2>2. ASSUME NEW x \in SessionId, NEW k,
               Chain!Token(x, k) \in tokens \cup Sent \/ x \in lost
        PROVE  Chain!Token(x, k) \in tokens' \cup Sent' \/ x \in lost'
    BY <1>1, <1>4, <2>2 DEF Chain!Deliver, Chain!Lose
  <2>3. QED
    BY <2>1, <2>2 DEF ChainInv, Chain!NeverAgain, Chain!WithinReach, Chain!Current, Chain!Live
<1>5. ASSUME NEW t \in tokens, Chain!Accept(t) PROVE ChainInv'
  BY <1>5 DEF Chain!Accept, ChainInv, Chain!NeverAgain, Chain!WithinReach, Chain!Current, Chain!Live
<1>6. ASSUME NEW t \in Accepted, Chain!GiveUp(t) PROVE ChainInv'
  BY <1>6 DEF Chain!GiveUp, Chain!Release, ChainInv, Chain!NeverAgain, Chain!WithinReach,
    Chain!Current, Chain!Live
<1>7. ASSUME NEW t \in Accepted, NEW h \in 1..MaxRand, Chain!Exchange(t, h) PROVE ChainInv'
  <2>1. h \in Int
    BY BoundAssumption
  <2>2. QED
    BY <1>7, <2>1, ChainGrows DEF Chain!Exchange, Chain!Release
<1>8. ASSUME NEW S \in SUBSET SessionId, Chain!Close(S) PROVE ChainInv'
  <2>1. UNCHANGED <<Sent, tokens, Accepted, spent, lost>>
    BY <1>8 DEF Chain!Close
  <2>2. ASSUME NEW x \in SessionId
        PROVE  /\ ChainRows'[x].hash = ChainRows[x].hash
               /\ ChainRows'[x].state = "live" => ChainRows[x].state = "live"
    BY <1>8 DEF Chain!Close, Chain!Live, ChainRows, ChainRow
  <2>3. QED
    BY <2>1, <2>2 DEF ChainInv, Chain!NeverAgain, Chain!WithinReach, Chain!Current, Chain!Live
<1>9. QED
  BY <1>2, <1>3, <1>4, <1>5, <1>6, <1>7, <1>8 DEF Chain!Next

(* What was exchanged never matches again, and a live session can be continued: both follow
   from the chains alone. *)
THEOREM ChainsPromise == KeepsChains => [](SpentTokenNeverMatches /\ LiveSessionContinues)
<1>1. Chain!Init => ChainInv
  BY DEF Chain!Init, ChainInv, Chain!NeverAgain, Chain!WithinReach, Chain!Live, Chain!Row
<1>2. ChainInv /\ [Chain!Next]_(Chain!vars) => ChainInv'
  BY ChainKeeps
<1>3. ChainInv => SpentTokenNeverMatches /\ LiveSessionContinues
  <2>1. ASSUME NEW s \in SessionId
        PROVE  /\ Chain!Current(s) = Token(s, sessions[s].hash)
               /\ Chain!Live(s) <=> LiveSession(sessions, s)
    BY DEF Chain!Current, Chain!Token, Token, Chain!Live, LiveSession, ChainRows, ChainRow
  <2>2. Chain!NeverAgain => SpentTokenNeverMatches
    BY <2>1 DEF Chain!NeverAgain, SpentTokenNeverMatches
  <2>3. ASSUME NEW s \in SessionId, Token(s, sessions[s].hash) \in Sent
        PROVE  \E r \in RequestId :
                 req[r].pc = "reply" /\ req[r].sid = s /\ req[r].hash = sessions[s].hash
    BY <2>3 DEF Sent, Carried, Replying, Token
  <2>4. Chain!WithinReach => LiveSessionContinues
    BY <2>1, <2>3 DEF Chain!WithinReach, LiveSessionContinues
  <2>5. QED
    BY <2>2, <2>4 DEF ChainInv
<1>4. QED
  BY <1>1, <1>2, <1>3, PTL DEF KeepsChains, Chain!Spec

(***************************************************************************)
(* A password is hashed once                                               *)
(***************************************************************************)
(* One request moves on with a password hashed at most once, the others stay. *)
LEMMA HashMoves ==
  ASSUME TypeOK, AllHashOnce, NEW r \in RequestId, NEW q, Continue(r, q), HashesOnce(q)
  PROVE  AllHashOnce'
BY OneMoves DEF AllHashOnce

(* Marking a request as stale allows it more. *)
LEMMA HashOvertaken ==
  ASSUME TypeOK, AllHashOnce, NEW u, NEW i \in RequestId
  PROVE  HashesOnce(Overtaken(u)[i])
<1>1. PICK p \in RequestRecord : p = req[i] /\ HashesOnce(p)
  BY DEF TypeOK, AllHashOnce
<1>2. PICK q : q = Overtaken(u)[i] /\ (q = p \/ q = [p EXCEPT !.stale = TRUE])
  BY <1>1 DEF Overtaken
<1>3. q.op = p.op /\ q.pc = p.pc /\ q.dto = p.dto /\ (p.stale => q.stale)
  BY <1>2 DEF RequestRecord
<1>4. QED
  BY <1>1, <1>2, <1>3 DEF HashesOnce, WritesWhole

(* A password that goes to update is about to be hashed. *)
LEMMA HashBegins ==
  ASSUME NEW q \in RequestRecord, NamesPassword(q.dto) => WritesWhole(q) \/ Typed(q.dto.password),
         NEW g, g \in {Update(q), NewEmailOrUpdate(q)}
  PROVE  HashesOnce(g)
<1>1. /\ g = [q EXCEPT !.pc = g.pc] /\ g.pc \in {"newEmail", "probe", "unique", "find"}
      /\ g.pc \in {"unique", "find"} => ~NamesPassword(q.dto)
  BY UpdateType, NewEmailOrUpdateType
<1>2. g.op = q.op /\ g.dto = q.dto
  BY <1>1 DEF RequestRecord
<1>3. QED
  BY <1>1, <1>2 DEF HashesOnce, WritesWhole

(* So is one that is written back. *)
LEMMA HashWrittenBack ==
  ASSUME NEW op, NEW u, NEW changed,
         op \in {"confirm", "confirmNew", "social"} \/ ~NamesPassword(changed)
           \/ Typed(changed.password)
  PROVE  HashesOnce(Update([Begin(op, "", u) EXCEPT !.dto = changed]))
<1>1. PICK q : q = [Begin(op, "", u) EXCEPT !.dto = changed]
  OBVIOUS
<1>2. q.op = op /\ q.dto = changed /\ \A pc : /\ [q EXCEPT !.pc = pc].op = op
                                              /\ [q EXCEPT !.pc = pc].pc = pc
                                              /\ [q EXCEPT !.pc = pc].dto = changed
  BY <1>1 DEF Begin, Idle
<1>3. HashesOnce(Update(q))
  BY <1>2 DEF Update, HashesOnce, WritesWhole
<1>4. QED
  BY <1>1, <1>3

(* Hashing: a typed password becomes its hash.  Of the users written back whole, one that
   has not been overtaken holds the hash that is stored, which is left as it is. *)
LEMMA HashProbed ==
  ASSUME IInv, AllHashOnce, NEW r \in RequestId, ProbePassword(r)
  PROVE  AllHashOnce'
<1>1. TypeOK
  BY DEF IInv
<1>2. PICK p \in RequestRecord : p = req[r] /\ p.pc = "probe" /\ p.dto \in Dto
                               /\ HashesOnce(p) /\ UpToDate(p) /\ NamesPassword(p.dto)
  BY <1>1 DEF ProbePassword, AllHashOnce, IInv, Carries, WritesHash, TypeOK, RequestRecord
<1>3. PICK new : new = NewPassword(users[p.user], p.dto, Drawn)
  OBVIOUS
<1> DEFINE q == [p EXCEPT !.dto.password = new,
                          !.pc = IF NamesEmail(p.dto) THEN "unique" ELSE "find"]
<1>4. Continue(r, q)
  BY <1>2, <1>3, Zenon DEF ProbePassword
<1>5. /\ q.op = p.op /\ q.stale = p.stale /\ q.pc \in {"unique", "find"}
      /\ q.dto.password = new
  BY <1>2 DEF RequestRecord, Dto
<1> HIDE DEF q
<1>6. ASSUME new # Unset, new.of = Mangled PROVE WritesWhole(p) /\ p.stale
  <2>1. new = HashOf(p.dto.password, Drawn) /\ Live(users, p.user)
           /\ p.dto.password # users[p.user].password
    BY <1>3, <1>6 DEF NewPassword, Live
  <2>2. ~Typed(p.dto.password)
    <3> SUFFICES ASSUME NEW w \in Password, p.dto.password = Plain(w) PROVE FALSE
      BY DEF Typed
    <3>1. HashOf(Plain(w), Drawn).of = w
      BY DEF HashOf, Plain
    <3>2. QED
      BY <1>6, <2>1, <3>1, MangledAssumption
  <2>3. WritesWhole(p)
    BY <1>2, <2>2 DEF HashesOnce, Updating
  <2>4. "password" \in Column \ Asked(p) /\ p.op \notin {"update", "admin"}
    BY <2>3 DEF WritesWhole, Asked, Column
  <2>5. p.stale
    BY <1>2, <2>1, <2>4 DEF UpToDate, Updating, NamesPassword
  <2>6. QED
    BY <2>3, <2>5
<1>7. HashesOnce(q)
  BY <1>5, <1>6 DEF HashesOnce, WritesWhole, NamesPassword
<1>8. QED
  BY <1>1, <1>4, <1>7, HashMoves

(* The other steps that prepare and write a user. *)
LEMMA HashUserStep ==
  ASSUME IInv, AllHashOnce, NEW r \in RequestId, UserStep(r)
  PROVE  AllHashOnce'
<1>1. TypeOK /\ req[r] \in RequestRecord /\ HashesOnce(req[r]) /\ Idle.pc \notin Updating
  BY IdleType DEF IInv, TypeOK, AllHashOnce, Updating
<1>2. ASSUME NEW q, Continue(r, q), q.pc \notin Updating PROVE AllHashOnce'
  BY <1>1, <1>2, HashMoves DEF HashesOnce
<1>3. \A pc : At(r, pc).pc = pc /\ At(r, pc).op = req[r].op /\ At(r, pc).dto = req[r].dto
                /\ At(r, pc).stale = req[r].stale
  BY <1>1 DEF At, RequestRecord
<1>4. CASE CheckEmail(r) \/ FindUser(r)
  <2>1. PICK q : Continue(r, q) /\ (q = Idle \/ q = At(r, "find") \/ q = At(r, "save"))
    BY <1>4 DEF CheckEmail, FindUser
  <2>2. req[r].pc \in {"unique", "find"}
    BY <1>4 DEF CheckEmail, FindUser
  <2>3. HashesOnce(q)
    BY <1>1, <1>3, <2>1, <2>2 DEF HashesOnce, WritesWhole, Updating
  <2>4. QED
    BY <1>1, <2>1, <2>3, HashMoves
<1>5. CASE SaveUser(r)
  <2>1. CASE EmailFree(users, req[r].user, SavedRow(r).email)
    <3>1. PICK q : req' = [Overtaken(req[r].user) EXCEPT ![r] = q] /\ q.pc \notin Updating
      BY <1>1, <1>3, <1>5, <2>1 DEF SaveUser, Updating
    <3>2. /\ req'[r] = q
          /\ \A i \in RequestId : i # r => req'[i] = Overtaken(req[r].user)[i]
      BY <3>1 DEF Overtaken
    <3>3. QED
      BY <1>1, <3>1, <3>2, HashOvertaken DEF AllHashOnce, HashesOnce
  <2>2. CASE ~EmailFree(users, req[r].user, SavedRow(r).email)
    BY <1>1, <1>2, <1>5, <2>2 DEF SaveUser
  <2>3. QED
    BY <2>1, <2>2
<1>6. CASE SendConfirmation(r) \/ RereadUser(r)
  BY <1>1, <1>2, <1>3, <1>6 DEF SendConfirmation, RereadUser, Updating
<1>7. CASE InsertUser(r)
  <2>1. ASSUME NEW u PROVE /\ [At(r, "mail") EXCEPT !.user = u].pc = "mail"
                           /\ [At(r, "reread") EXCEPT !.user = u].pc = "reread"
    BY <1>1 DEF At, RequestRecord
  <2>2. PICK q : Continue(r, q) /\ q.pc \notin Updating
    <3>1. CASE EmailFree(users, Null, req[r].dto.email)
      BY <1>1, <1>7, <2>1, <3>1 DEF InsertUser, Updating
    <3>2. CASE ~EmailFree(users, Null, req[r].dto.email)
      BY <1>1, <1>7, <3>2 DEF InsertUser
    <3>3. QED
      BY <3>1, <3>2
  <2>3. QED
    BY <1>2, <2>2
<1>8. CASE MailNewEmail(r)
  <2>1. [req[r] EXCEPT !.dto = MailedDto(r)] = req[r]
    BY <1>1 DEF MailedDto, RequestRecord
  <2>2. HashesOnce(Update(req[r]))
    BY <1>1, <1>8, HashBegins DEF MailNewEmail, HashesOnce, Updating
  <2>3. Continue(r, Update(req[r])) \/ Continue(r, Idle)
    BY <1>8, <2>1 DEF MailNewEmail
  <2>4. QED
    BY <1>1, <1>2, <2>2, <2>3, HashMoves
<1>9. CASE MatchSocial(r)
  <2>1. ASSUME NEW u, NEW changed, WriteBack(r, "social", u, changed) PROVE AllHashOnce'
    BY <1>1, <2>1, HashWrittenBack, HashMoves DEF WriteBack
  <2>2. ASSUME NEW dto, Creating(r, "social", dto) PROVE AllHashOnce'
    <3>1. [Begin("social", "insert", Null) EXCEPT !.dto = dto].pc \notin Updating
      BY DEF Begin, Idle, Updating
    <3>2. QED
      BY <1>2, <2>2, <3>1 DEF Creating
  <2>3. ASSUME Continue(r, At(r, "open")) \/ Continue(r, Idle) PROVE AllHashOnce'
    BY <1>1, <1>2, <1>3, <2>3 DEF Updating
  <2>4. QED
    BY <1>9, <2>1, <2>2, <2>3 DEF MatchSocial
<1>10. QED
  BY <1>4, <1>5, <1>6, <1>7, <1>8, <1>9, HashProbed DEF UserStep

(* Who sets a password starts with it as typed. *)
LEMMA HashStart ==
  ASSUME IInv, AllHashOnce, NEW r \in RequestId, Start(r)
  PROVE  AllHashOnce'
<1>1. TypeOK
  BY DEF IInv
<1>2. ASSUME NEW q, Continue(r, q), q.pc \notin Updating PROVE AllHashOnce'
  BY <1>1, <1>2, HashMoves DEF HashesOnce
<1>3. ASSUME NEW op, NEW u, NEW changed, WriteBack(r, op, u, changed),
             op \in {"confirm", "confirmNew"} \/ ~NamesPassword(changed)
               \/ Typed(changed.password)
      PROVE  AllHashOnce'
  BY <1>1, <1>3, HashWrittenBack, HashMoves DEF WriteBack
<1>4. CASE Register(r) \/ AdminCreate(r)
  <2>1. PICK op, dto : Creating(r, op, dto)
    BY <1>4 DEF Register, AdminCreate
  <2>2. [Begin(op, "insert", Null) EXCEPT !.dto = dto].pc \notin Updating
    BY DEF Begin, Idle, Updating
  <2>3. QED
    BY <1>2, <2>1, <2>2 DEF Creating
<1>5. CASE ConfirmEmail(r) \/ ConfirmNewEmail(r)
  BY <1>3, <1>5 DEF ConfirmEmail, ConfirmNewEmail
<1>6. CASE AdminUpdate(r)
  <2>1. PICK u \in User, e \in Email \cup {Unset}, w \in Password \cup {Unset},
             f \in Profile \cup {Unset}, role \in {"user", Unset}, status \in Status \cup {Unset} :
          /\ Live(users, u)
          /\ WriteBack(r, "admin", u,
               [Nothing EXCEPT !.email = e, !.profile = f, !.role = role, !.status = status,
                               !.password = IF w = Unset THEN Unset ELSE Plain(w)])
    BY <1>6 DEF AdminUpdate
  <2>2. [Nothing EXCEPT !.email = e, !.profile = f, !.role = role, !.status = status,
           !.password = IF w = Unset THEN Unset ELSE Plain(w)].password
          = IF w = Unset THEN Unset ELSE Plain(w)
    BY DEF Nothing, Blank, Column
  <2>3. QED
    BY <1>3, <2>1, <2>2 DEF NamesPassword, Typed
<1>7. CASE ResetPassword(r)
  <2>1. PICK m \in mails, w \in Password :
          Continue(r, [Begin("reset", "wipe", m.user) EXCEPT
                         !.dto = [WholeUser(users[m.user]) EXCEPT !.password = Plain(w)]])
    BY <1>7 DEF ResetPassword
  <2>2. [WholeUser(users[m.user]) EXCEPT !.password = Plain(w)].password = Plain(w)
    BY DEF WholeUser, Column
  <2>3. ASSUME NEW d, d.password = Plain(w)
        PROVE  HashesOnce([Begin("reset", "wipe", m.user) EXCEPT !.dto = d])
    BY <2>3 DEF HashesOnce, Typed, Begin, Idle
  <2>4. QED
    BY <1>1, <2>1, <2>2, <2>3, HashMoves
<1>8. CASE UpdateMe(r)
  <2> DEFINE Moves(u, s, d, e) ==
        Continue(r, IF NamesPassword(d) THEN MeRequest(u, s, d, e)
                                        ELSE NewEmailOrUpdate(MeRequest(u, s, d, e)))
  <2> DEFINE dto(w, f) ==
        [Nothing EXCEPT !.profile = f, !.password = IF w = Unset THEN Unset ELSE Plain(w)]
  <2> DEFINE address(u, e0) == IF e0 = users[u].email THEN Null ELSE e0
  <2>1. PICK u \in User, s \in SessionId :
          \E e0 \in Email \cup {Null}, w \in Password \cup {Unset}, f \in Profile \cup {Unset} :
            /\ Access(u, s) /\ Live(users, u)
            /\ NamesPassword(dto(w, f)) => \E old \in Password : Compare(old, users[u].password)
            /\ Moves(u, s, dto(w, f), address(u, e0))
    BY <1>8, Zenon DEF UpdateMe, MeRequest
  <2> HIDE DEF Moves
  <2>2. PICK w \in Password \cup {Unset}, f \in Profile \cup {Unset} :
          \E e : Moves(u, s, dto(w, f), e)
    BY <2>1
  <2>3. PICK e : Moves(u, s, dto(w, f), e)
    BY <2>2
  <2>4. PICK d : d = dto(w, f) /\ d.password = (IF w = Unset THEN Unset ELSE Plain(w))
    <3>1. dto(w, f).password = IF w = Unset THEN Unset ELSE Plain(w)
      BY DEF Nothing, Blank, Column
    <3>2. QED
      BY <3>1
  <2> HIDE DEF dto
  <2>5. NamesPassword(d) => Typed(d.password)
    BY <2>4 DEF NamesPassword, Typed
  <2>6. PICK m : m = MeRequest(u, s, d, e)
    OBVIOUS
  <2>7. /\ m.pc = "others" /\ m.dto = d
        /\ \A pc : [m EXCEPT !.pc = pc].pc = pc /\ [m EXCEPT !.pc = pc].dto = d
    BY <2>6 DEF MeRequest, Begin, Idle
  <2>8. HashesOnce(m)
    BY <2>5, <2>7 DEF HashesOnce
  <2>9. ~NamesPassword(d) => HashesOnce(NewEmailOrUpdate(m))
    BY <2>7 DEF NewEmailOrUpdate, Update, HashesOnce
  <2>10. Continue(r, IF NamesPassword(d) THEN m ELSE NewEmailOrUpdate(m))
    BY <2>3, <2>4, <2>6 DEF Moves
  <2>11. QED
    BY <1>1, <2>8, <2>9, <2>10, HashMoves
<1>9. CASE Login(r)
  <2>1. PICK u, under : Continue(r, [Begin("login", "open", u) EXCEPT !.under = under])
    BY <1>9 DEF Login
  <2>2. [Begin("login", "open", u) EXCEPT !.under = under].pc \notin Updating
    BY DEF Begin, Idle, Updating
  <2>3. QED
    BY <1>2, <2>1, <2>2
<1>10. CASE Refresh(r)
  <2>1. PICK u, s, h : Continue(r, [Begin("refresh", "owner", u) EXCEPT !.sid = s, !.hash = h])
    BY <1>10 DEF Refresh
  <2>2. [Begin("refresh", "owner", u) EXCEPT !.sid = s, !.hash = h].pc \notin Updating
    BY DEF Begin, Idle, Updating
  <2>3. QED
    BY <1>2, <2>1, <2>2
<1>11. CASE SocialLogin(r)
  <2>1. PICK u, e, x : Continue(r, [Begin("social", "match", u) EXCEPT
                                      !.email = e, !.dto.socialId = x])
    BY <1>11 DEF SocialLogin
  <2>2. [Begin("social", "match", u) EXCEPT !.email = e, !.dto.socialId = x].pc \notin Updating
    BY DEF Begin, Idle, Updating
  <2>3. QED
    BY <1>2, <2>1, <2>2
<1>12. QED
  BY <1>4, <1>5, <1>6, <1>7, <1>8, <1>9, <1>10, <1>11 DEF Start

(* Ending sessions brings update nearer; the other steps on sessions are not of update. *)
LEMMA HashSessionStep ==
  ASSUME IInv, AllHashOnce, NEW r \in RequestId, SessionStep(r) \/ Abort(r)
  PROVE  AllHashOnce'
<1>1. TypeOK /\ req[r] \in RequestRecord /\ HashesOnce(req[r]) /\ Idle.pc \notin Updating
  BY IdleType DEF IInv, TypeOK, AllHashOnce, Updating
<1>2. ASSUME NEW q, Continue(r, q), q.pc \notin Updating PROVE AllHashOnce'
  BY <1>1, <1>2, HashMoves DEF HashesOnce
<1>3. \A pc : At(r, pc).pc = pc
  BY <1>1 DEF At, RequestRecord
<1>4. CASE DeleteSessions(r) \/ DeleteOtherSessions(r)
  <2>1. NamesPassword(req[r].dto) => WritesWhole(req[r]) \/ Typed(req[r].dto.password)
    BY <1>1, <1>4 DEF DeleteSessions, DeleteOtherSessions, HashesOnce, Updating
  <2>2. Continue(r, Update(req[r])) \/ Continue(r, NewEmailOrUpdate(req[r]))
    BY <1>4 DEF DeleteSessions, DeleteOtherSessions
  <2>3. QED
    BY <1>1, <2>1, <2>2, HashBegins, HashMoves
<1>5. CASE OpenSession(r)
  <2>1. PICK s, h : Continue(r, [At(r, "reply") EXCEPT !.sid = s, !.hash = h])
    BY <1>5 DEF OpenSession
  <2>2. [At(r, "reply") EXCEPT !.sid = s, !.hash = h].pc \notin Updating
    BY <1>1 DEF At, RequestRecord, Updating
  <2>3. QED
    BY <1>2, <2>1, <2>2
<1>6. CASE Rotate(r)
  <2>1. PICK h : Continue(r, [At(r, "reply") EXCEPT !.hash = h])
    BY <1>6 DEF Rotate
  <2>2. [At(r, "reply") EXCEPT !.hash = h].pc \notin Updating
    BY <1>1 DEF At, RequestRecord, Updating
  <2>3. QED
    BY <1>2, <2>1, <2>2
<1>7. CASE ReadOwner(r) \/ FindSession(r) \/ Reply(r) \/ Abort(r)
  BY <1>1, <1>2, <1>3, <1>7 DEF ReadOwner, FindSession, Reply, Abort, Updating
<1>8. QED
  BY <1>4, <1>5, <1>6, <1>7 DEF SessionStep

(* Every step keeps it. *)
LEMMA HashStep ==
  ASSUME IInv, AllHashOnce, [Next]_vars
  PROVE  AllHashOnce'
<1>1. ASSUME NEW u \in User, Remove(u) PROVE AllHashOnce'
  <2>1. \A i \in RequestId : HashesOnce(Overtaken(u)[i])
    BY HashOvertaken DEF IInv
  <2>2. QED
    BY <1>1, <2>1 DEF Remove, AllHashOnce
<1>2. CASE ForgotPassword \/ Logout \/ UNCHANGED vars
  BY <1>2 DEF ForgotPassword, Logout, vars, AllHashOnce
<1>3. QED
  BY <1>1, <1>2, HashStart, HashUserStep, HashSessionStep DEF Next, SoftDelete, AdminRemove

(* A save that stores the hash of a hash is that of a handler that writes the whole user
   back and was overtaken. *)
LEMMA SaveHashes ==
  ASSUME IInv, AllHashOnce, NEW r \in RequestId, req[r].pc = "save", NEW u \in User,
         u = req[r].user, users' = [users EXCEPT ![u] = SavedRow(r)],
         users'[u].password \notin {Null, users[u].password}, users'[u].password.of = Mangled
  PROVE  req[r].stale /\ WritesWhole(req[r])
<1>1. PICK q : q = req[r] /\ q.dto \in Dto /\ HashesOnce(q)
  BY DEF IInv, TypeOK, RequestRecord, AllHashOnce
<1>2. users[u] \in UserRecord
  BY DEF IInv, TypeOK
<1>3. users'[u].password = Saved(users[u], Payload(q.dto)).password
  BY <1>1 DEF SavedRow, IInv, TypeOK
<1>4. Saved(users[u], Payload(q.dto)).password
        = IF q.dto.password \in {Unset, Null} THEN users[u].password ELSE q.dto.password
  BY DEF Saved, Payload, Row, Column
<1>5. users'[u].password = q.dto.password /\ NamesPassword(q.dto)
  BY <1>3, <1>4 DEF NamesPassword
<1>6. QED
  BY <1>1, <1>5 DEF HashesOnce, Updating

(* Whoever sets a password stores its hash, whatever overlaps: a hash is hashed again only
   by a confirmation or a Google sign-in that another request overtook. *)
THEOREM PasswordsAreHashedOnce == Spec => HashedAgainOnlyWhenStale
<1> DEFINE Kept(r) ==
      req[r].pc = "save" /\ req'[r].pc # "save" =>
        LET old == users[req[r].user].password
            new == users'[req[r].user].password
        IN  new \notin {Null, old} /\ new.of = Mangled => req[r].stale /\ WritesWhole(req[r])
<1>1. Init => AllHashOnce
  BY IdleType DEF Init, AllHashOnce, HashesOnce, Updating
<1>2. IInv /\ AllHashOnce /\ [Next]_vars => AllHashOnce'
  BY HashStep
<1>3. IInv /\ AllHashOnce /\ [Next]_vars => [\A r \in RequestId : Kept(r)]_vars
  <2> SUFFICES ASSUME IInv, AllHashOnce, [Next]_vars, NEW r \in RequestId,
                      req[r].pc = "save", req'[r].pc # "save"
               PROVE  Kept(r)
    OBVIOUS
  <2>1. CASE UNCHANGED users
    BY <2>1
  <2>2. CASE SaveUser(r) /\ ~UNCHANGED users
    <3>1. req[r].user \in User
      BY DEF IInv, Carries, KnowsUser, Updating
    <3>2. users' = [users EXCEPT ![req[r].user] = SavedRow(r)]
      BY <2>2 DEF SaveUser
    <3>3. QED
      BY <3>1, <3>2, SaveHashes
  <2>3. QED
    BY <2>1, <2>2, OnlySaveLeaves
<1>4. QED
  BY <1>1, <1>2, <1>3, Invariance, PTL DEF Spec, HashedAgainOnlyWhenStale
=============================================================================
