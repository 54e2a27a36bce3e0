------------------------------ MODULE MCClients ------------------------------
(* What the clients of the supervisors owe in the end: one teleoperation   *)
(* node with its bridge and its arm, and the coordinator of two arms with  *)
(* one pair.  The two share nothing; `client' says which of them runs; in  *)
(* the other's initial state nothing is due, so its fairness asks nothing. *)
EXTENDS Teleop

CONSTANTS L, R   \* the two arms of the pair
VARIABLES client, run, todo, hand, sup, rel, clock, trouble

P == INSTANCE Pair WITH
  Left <- L, Right <- R, MaxPair <- 1, MaxTrouble <- 1, MaxEvents <- 1, MaxQueue <- 2

pairVars == <<run, todo, hand, sup, rel, clock, trouble>>

ClientsInit == client \in {"teleop", "pair"} /\ TeleopInit /\ P!Init
ClientsNext ==
  /\ UNCHANGED client
  /\ \/ client = "teleop" /\ TeleopNext /\ UNCHANGED pairVars
     \/ client = "pair" /\ P!Next /\ UNCHANGED teleopVars
ClientsSpec ==
  /\ ClientsInit /\ [][ClientsNext]_<<client, teleopVars, pairVars>>
  /\ TeleopFair /\ P!PairFair

(* A pair never waits forever on members that are over (Pair).             *)
PairEnds == P!PairEnds
(* An arm left alone by its partner is stopped (Pair).                     *)
LoneLegStopped == P!LoneLegStopped
=============================================================================
