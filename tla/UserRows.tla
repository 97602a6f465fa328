------------------------------- MODULE UserRows -------------------------------
(***************************************************************************)
(* The user table as UsersService and UsersRelationalRepository see it: the *)
(* row, the update dto, and what one call on the table returns or writes.   *)
(* The handlers that make these calls, one await at a time, are in Auth.    *)
(*                                                                         *)
(* Profile stands for firstName and lastName, which every operation treats  *)
(* alike; photo is left out.  Null is the database's NULL, Unset is         *)
(* `undefined'.                                                             *)
(***************************************************************************)
EXTENDS Integers

CONSTANTS
  User,      \* ids of the user table
  Email, Password, Profile, SocialId,
  Null, Unset,
  Mangled    \* what a hash of a hash is a hash of: nothing anybody can type

(* Nobody types a bcrypt hash of a bcrypt hash. *)
ASSUME MangledAssumption == Mangled \notin Password

Column == {"email", "password", "profile", "provider", "socialId", "role", "status"}

(* A password as typed has salt 0; a stored hash carries the salt it was made with,
   so two hashes of one password differ. *)
Plain(p) == [of |-> p, salt |-> 0]
HashOf(secret, salt) ==
  [of |-> IF secret.salt = 0 THEN secret.of ELSE Mangled, salt |-> salt]
Compare(p, hash) == hash # Null /\ hash.of = p

Blank(value) == [c \in Column |-> value]
Nothing == Blank(Unset)
Row(state, columns) ==
  [state |-> state, email |-> columns.email, password |-> columns.password,
   profile |-> columns.profile, provider |-> columns.provider,
   socialId |-> columns.socialId, role |-> columns.role, status |-> columns.status]
NoRow == Row("none", Blank(Null))

(***************************************************************************)
(* Reads: TypeORM leaves soft-deleted rows out                             *)
(***************************************************************************)
Live(users, u) == users[u].state = "live"
FindByEmail(users, e) ==
  IF e = Null THEN {} ELSE {u \in User : Live(users, u) /\ users[u].email = e}
FindBySocial(users, x) ==
  {u \in User : Live(users, u) /\ users[u].socialId = x /\ users[u].provider = "google"}

(* toDomain: the whole user, as confirmEmail and its like pass it back to update. *)
WholeUser(row) == [c \in Column |-> row[c]]

(***************************************************************************)
(* Writes                                                                  *)
(***************************************************************************)
(* The unique index on e-mail also holds the soft-deleted rows. *)
EmailFree_Unchecked(users, u, e) == TRUE
EmailFree(users, u, e) ==
  e = Null \/ \A v \in User \ {u} : users[v].state = "none" \/ users[v].email # e

(* Does the dto name a password, an e-mail?  (`if (dto.password)', `if (dto.email)') *)
NamesPassword(dto) == dto.password \notin {Unset, Null}
NamesEmail(dto) == dto.email \notin {Unset, Null}

(* UsersService.update hashes the dto's password unless it is the stored one. *)
NewPassword_AlwaysHash(row, dto, salt) == HashOf(dto.password, salt)
NewPassword_Plain(row, dto, salt) ==
  IF row.state = "live" /\ row.password # dto.password THEN dto.password ELSE Unset
NewPassword(row, dto, salt) ==
  IF row.state = "live" /\ row.password # dto.password
    THEN HashOf(dto.password, salt) ELSE Unset

(* `if (dto.password)', `dto.role?.id': a NULL password, role or status is not written. *)
Payload(dto) ==
  [c \in Column |->
     IF c \in {"password", "role", "status"} /\ dto[c] = Null THEN Unset ELSE dto[c]]

(* UsersRelationalRepository.update: the payload over the row it has read, through
   toPersistence.  Undefined columns are not written; deletedAt is written as read,
   which was NULL. *)
Saved_ClearsUnset(row, payload) ==
  Row("live", [c \in Column |-> IF payload[c] = Unset THEN Null ELSE payload[c]])
Saved(row, payload) ==
  Row("live", [c \in Column |-> IF payload[c] = Unset THEN row[c] ELSE payload[c]])
=============================================================================
