------------------------------ MODULE TokenChain ------------------------------
(***************************************************************************)
(* What sessions promise those who hold refresh tokens, with accounts,     *)
(* endpoints and the steps of a request left out: a session is a chain of  *)
(* hashes, and only the holder of a token that matches gets the next one.  *)
(***************************************************************************)
EXTENDS Integers

CONSTANTS Session, Owner, NoOwner, Hash

VARIABLES
  row,      \* the sessions
  sent,     \* the tokens on their way to a client
  held,     \* the tokens clients have
  accepted, \* the tokens found to match, and not exchanged yet
  spent,    \* the tokens exchanged
  lost      \* the sessions a token of which got lost after the last exchange

vars == <<row, sent, held, accepted, spent, lost>>

Row(state, owner, hash) == [state |-> state, owner |-> owner, hash |-> hash]
Token(s, h) == [sid |-> s, hash |-> h]
Current(s) == Token(s, row[s].hash)
Live(s) == row[s].state = "live"

(* The session has not had the hash yet. *)
Fresh(s, h) ==
  row[s].hash < h /\ \A t \in sent \cup held : t.sid = s => t.hash < h

Init ==
  /\ row = [s \in Session |-> Row("none", NoOwner, 0)]
  /\ sent = {} /\ held = {} /\ accepted = {} /\ spent = {} /\ lost = {}

Open(s, u, h) ==
  /\ row[s].state = "none" /\ Fresh(s, h)
  /\ row' = [row EXCEPT ![s] = Row("live", u, h)]
  /\ sent' = sent \cup {Token(s, h)}
  /\ UNCHANGED <<held, accepted, spent, lost>>

Deliver(t) ==
  /\ sent' = sent \ {t} /\ held' = held \cup {t}
  /\ UNCHANGED <<row, accepted, spent, lost>>

Lose(t) ==
  /\ sent' = sent \ {t} /\ lost' = lost \cup {t.sid}
  /\ UNCHANGED <<row, held, accepted, spent>>

(* A client presents a token: it must be the current one of a live session. *)
Accept(t) ==
  /\ Live(t.sid) /\ t = Current(t.sid)
  /\ accepted' = accepted \cup {t}
  /\ UNCHANGED <<row, sent, held, spent, lost>>

(* Somebody else may still be about to exchange the same token. *)
Release(t) == accepted' \in {accepted, accepted \ {t}}

GiveUp(t) == Release(t) /\ UNCHANGED <<row, sent, held, spent, lost>>

(* An accepted token is exchanged, even if it is no longer current, or its session was
   deleted since: that one is live again. *)
Exchange(t, h) ==
  /\ Fresh(t.sid, h)
  /\ row' = [row EXCEPT ![t.sid] = Row("live", row[t.sid].owner, h)]
  /\ sent' = sent \cup {Token(t.sid, h)}
  /\ Release(t)
  /\ spent' = spent \cup {t}
  /\ lost' = lost \ {t.sid}
  /\ UNCHANGED held

Close(S) ==
  /\ \A s \in S : Live(s)
  /\ row' = [s \in Session |-> IF s \in S THEN [row[s] EXCEPT !.state = "deleted"] ELSE row[s]]
  /\ UNCHANGED <<sent, held, accepted, spent, lost>>

Next ==
  \/ \E s \in Session, u \in Owner, h \in Hash : Open(s, u, h)
  \/ \E t \in sent : Deliver(t) \/ Lose(t)
  \/ \E t \in held : Accept(t)
  \/ \E t \in accepted : GiveUp(t) \/ \E h \in Hash : Exchange(t, h)
  \/ \E S \in SUBSET Session : Close(S)

Spec == Init /\ [][Next]_vars

(***************************************************************************)
(* What follows                                                            *)
(***************************************************************************)
(* A token that was exchanged does not match again, so nobody accepts it. *)
NeverAgain == \A s \in Session : Current(s) \notin spent

(* The token that matches a live session is not out of reach. *)
WithinReach == \A s \in Session : Live(s) => Current(s) \in held \cup sent \/ s \in lost
=============================================================================
