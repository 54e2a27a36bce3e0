------------------------------ MODULE MCThreads ------------------------------
(* What must come about between threads: the mailbox with three writes     *)
(* (enough for a value to be overwritten in transit while the reader still *)
(* holds an older one), and the Hand's graph with one request and a loss   *)
(* of authority.  They share nothing; `part' says which of them runs.      *)
EXTENDS Mailbox

VARIABLES part, graph, gnode, cli, up, down, br, actor, stopper, dev, res, hups

H == INSTANCE Hand WITH
  MaxAsks <- 1, MaxHandUpsets <- 1, MaxHandEvents <- 2, Upsets <- {"authority"}
handVars == <<graph, gnode, cli, up, down, br, actor, stopper, dev, res, hups>>

ThreadsInit ==
  /\ part \in {"mailbox", "hand"}
  /\ Init
  /\ H!HandInit /\ (part = "mailbox" => ~graph.gated /\ ~graph.sim)
ThreadsNext ==
  /\ UNCHANGED part
  /\ \/ part = "mailbox" /\ Next /\ UNCHANGED handVars
     \/ part = "hand" /\ H!HandNext /\ UNCHANGED vars
TheHand == part = "hand"
ThreadsSpec ==
  /\ ThreadsInit /\ [][ThreadsNext]_<<part, vars, handVars>>
  /\ WF_vars(~TheHand /\ Read)
  /\ WF_handVars(TheHand /\ H!Client) /\ WF_handVars(TheHand /\ H!Server)
  /\ WF_handVars(TheHand /\ H!Actor) /\ WF_handVars(TheHand /\ H!Stopper)
  /\ WF_handVars(TheHand /\ H!SimStops) /\ WF_handVars(TheHand /\ H!NodeTick)
  /\ WF_handVars(TheHand /\ H!DeadlinePasses)

(* Without the arm's authority the Hand does not go on acting (Hand).      *)
UnauthorisedStops == H!UnauthorisedStops
=============================================================================
