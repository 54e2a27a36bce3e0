----------------------------- MODULE AppliedRule ------------------------------
(***************************************************************************)
(* The RT APPLIED rule as the client computes it (AppliedTracker in        *)
(* arm_control/plants/remote_rt/observation.py): which command the backend *)
(* has ACCEPTED in the current ARM generation, judged from state packets   *)
(* alone.  The server advances last_cmd_seq when it selects a command,     *)
(* before the write that may be refused, so one packet proves nothing: a   *)
(* command counts once a later packet of its generation is still ARMED and *)
(* not FAULTED.                                                            *)
(*                                                                         *)
(* A packet is a record with fields epoch, seq, armed, faulted and last;   *)
(* a tracker is one record, and its methods are functions of it.           *)
(***************************************************************************)
EXTENDS Integers

CONSTANT SeqMod   \* size of the wire's sequence numbers, 2^32 in the code

ASSUME SeqModAssumption == SeqMod \in Nat \ {0}

None == -1   \* Python's None, for an epoch or a seq

\* Serial comparison: a comes after b, modulo wraparound.
Newer(a, b) ==
  LET ahead == (a - b) % SeqMod
  IN 0 < ahead /\ ahead < SeqMod \div 2

NewTracker == [epoch |-> None, last |-> None, candidate |-> None,
               confirmed |-> None, closed |-> FALSE, faulted |-> FALSE]

\* A newer ARM generation starts over.
Enter(t, e) ==
  IF t.epoch = None \/ Newer(e, t.epoch) THEN [NewTracker EXCEPT !.epoch = e] ELSE t

\* Mutants: selection taken for acceptance; a fault forgotten when it clears.
JudgeSelected(t, p) ==
  LET seen == [t EXCEPT !.last = p.seq, !.faulted = t.faulted \/ p.faulted]
  IN IF t.closed
     THEN seen
     ELSE IF ~p.armed \/ p.faulted
     THEN [seen EXCEPT !.closed = TRUE, !.candidate = None]
     ELSE [seen EXCEPT !.candidate = p.last, !.confirmed = p.last]

JudgeForgets(t, p) ==
  LET seen == [t EXCEPT !.last = p.seq, !.faulted = p.faulted]
  IN IF t.closed
     THEN seen
     ELSE IF ~p.armed \/ p.faulted
     THEN [seen EXCEPT !.closed = TRUE, !.candidate = None]
     ELSE [seen EXCEPT !.candidate = p.last,
                       !.confirmed = IF t.candidate # None THEN t.candidate
                                     ELSE t.confirmed]

\* What one packet of the tracked generation, newer than the last, says.
Judge(t, p) ==
  LET seen == [t EXCEPT !.last = p.seq, !.faulted = t.faulted \/ p.faulted]
  IN IF t.closed
     THEN seen
     ELSE IF ~p.armed \/ p.faulted
     THEN [seen EXCEPT !.closed = TRUE, !.candidate = None]
     ELSE [seen EXCEPT !.candidate = p.last,
                       !.confirmed = IF t.candidate # None THEN t.candidate
                                     ELSE t.confirmed]

Feed(t, p) ==
  LET e == Enter(t, p.epoch)
  IN IF p.epoch = e.epoch /\ (e.last = None \/ Newer(p.seq, e.last))
     THEN Judge(e, p)
     ELSE e

DisarmSent(t) == [t EXCEPT !.closed = TRUE, !.candidate = None]

Confirmed(t, e) == IF t.epoch = e THEN t.confirmed ELSE None

FaultSeen(t, e) == t.faulted /\ t.epoch = e
=============================================================================
