----------------------------- MODULE SessionRows -----------------------------
(***************************************************************************)
(* The session table as SessionRelationalRepository sees it.  `under' is    *)
(* history: the stored password the login compared with, Null for a social *)
(* login.                                                                  *)
(***************************************************************************)
EXTENDS Integers

CONSTANTS SessionId

SessionRow(state, user, hash, under) ==
  [state |-> state, user |-> user, hash |-> hash, under |-> under]
NoSession(none) == SessionRow("none", none, 0, none)

LiveSession(sessions, s) == sessions[s].state = "live"
SessionsOf(sessions, u) == {s \in SessionId : LiveSession(sessions, s) /\ sessions[s].user = u}

(* softDelete where ... *)
WithoutSessions(sessions, gone) ==
  [s \in SessionId |->
     IF s \in gone /\ LiveSession(sessions, s)
       THEN [sessions[s] EXCEPT !.state = "deleted"] ELSE sessions[s]]

(* deleteByUserId, deleteByUserIdWithExclude: `kept' are the excluded sessions. *)
DeletedByUser_Nobody(sessions, u, kept) == sessions
DeletedByUser(sessions, u, kept) == WithoutSessions(sessions, SessionsOf(sessions, u) \ kept)

(* update saves the row it has read under the new hash; toPersistence copies
   deletedAt, so a session deleted since that read is live again. *)
Rotated_Stale(sessions, s, hash) == [sessions EXCEPT ![s].state = "live"]
Rotated(sessions, s, hash) == [sessions EXCEPT ![s].state = "live", ![s].hash = hash]
=============================================================================
