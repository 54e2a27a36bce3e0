------------------------------ MODULE MCRecords ------------------------------
(* What may never happen between the threads and processes of the RT side: *)
(* the state stream over two ARM generations, two commands and three       *)
(* packets, whose sequence numbers cross the wrap; one slot of the group   *)
(* record with its two writers and a reader; and the references of one     *)
(* server, within one ARM epoch and over two.  They share nothing; `part'  *)
(* says which of them runs.                                                *)
EXTENDS StateStream, GroupRecord, Reference

VARIABLE part

\* The references once more, over two ARM epochs and two sessions, with one
\* reference.
E == INSTANCE Reference WITH
  MaxRefs <- 1, MaxRev <- 1, MaxCommits <- 1, MaxCancels <- 2, MaxModes <- 1,
  MaxEpochs <- 2, MaxSess <- 2

RecordsInit ==
  part \in {"stream", "record", "reference", "epochs"} /\ Init /\ RecordInit /\ RefInit
RecordsNext ==
  /\ UNCHANGED part
  /\ \/ part = "stream" /\ Next /\ UNCHANGED <<recordVars, refVars>>
     \/ part = "record" /\ RecordNext /\ UNCHANGED <<vars, refVars>>
     \/ part = "reference" /\ RefNext /\ UNCHANGED <<vars, recordVars>>
     \/ part = "epochs" /\ E!RefNext /\ UNCHANGED <<vars, recordVars>>
RecordsSpec == RecordsInit /\ [][RecordsNext]_<<part, vars, recordVars, refVars>>
=============================================================================
