-------------------------- MODULE ExecutionContract --------------------------
(***************************************************************************)
(* The phases of an execution and which may follow which                   *)
(* (arm_control/execution/contract.py): a forward chain that may skip but  *)
(* never goes back, and terminal outcomes, each after certain phases only. *)
(***************************************************************************)
EXTENDS Naturals

Rank == [REQUESTED |-> 1, ADMITTED |-> 2, SELECTED |-> 3, SENT |-> 4, APPLIED |-> 5]

Chain == DOMAIN Rank

\* The phases that each terminal outcome may follow.
Ends == [REJECTED   |-> {"REQUESTED", "ADMITTED"},
         SUPERSEDED |-> {"ADMITTED"},
         EXPIRED    |-> {"ADMITTED"},
         CANCELLED  |-> {"ADMITTED", "SELECTED", "SENT", "APPLIED"},
         FAULTED    |-> {"SELECTED", "SENT", "APPLIED"},
         COMPLETED  |-> {"APPLIED"}]

Terminal == DOMAIN Ends
Phase == Chain \cup Terminal

\* ExecutionStatus.start and ExecutionStatus.apply: what a first receipt, and
\* a receipt for a phase not yet reached, may say.
Begins(q) == q \in {"REQUESTED", "ADMITTED", "REJECTED"}

Follows(p, q) ==
  /\ p \notin Terminal
  /\ IF q \in Terminal THEN p \in Ends[q] ELSE Rank[q] > Rank[p]

\* supersession_refusal, of a request that names execution `names' (0 = none)
\* while execution `current' (0 = none), in phase p, is live.
SupersessionRefused(names, current, p) ==
  IF names # 0 THEN current # names \/ p # "ADMITTED" ELSE current # 0

\* _OWNING: the lifecycles under which a plan may be staged.
Owning == {"CLAIMED", "ARMED"}
=============================================================================
