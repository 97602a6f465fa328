------------------------------- MODULE MCLoops -------------------------------
(* The loops over blocks and the loop over days.  They share nothing, so a behaviour
   runs one of them and leaves the other finished. *)
EXTENDS RangeLoops, Analytics

MCZone == -2..2

(* Tables of one event or two: what two events do, sharing a day or not. *)
MCTables == {{a, b} : a \in Event, b \in Event}

allVars == <<vars, movementVars>>

NoBlocks ==
  /\ fromBlock = 0 /\ toBlock = 0 /\ splitValue = 1 /\ configured = 0
  /\ pc = "done" /\ current = 0 /\ ranges = <<>> /\ next = 1 /\ batches = <<>>

NoDays ==
  /\ zone = 0 /\ start = Day /\ end = 0 /\ events = {}
  /\ report = <<>> /\ day = 0 /\ reporting = FALSE

LoopsInit ==
  \/ Init /\ NoDays
  \/ NoBlocks /\ MovementInit

LoopsNext ==
  \/ Next /\ UNCHANGED movementVars
  \/ MovementNext /\ UNCHANGED vars

LoopsSpec == LoopsInit /\ [][LoopsNext]_allVars
=============================================================================
