---------------------------- MODULE MCSupervisor ----------------------------
(* The supervisor in the scenes of the runs: each with the clients and the *)
(* troubles that its properties take.  The sessions are interchangeable.   *)
EXTENDS Supervisor, TLC

Symmetry == Permutations(Sessions)

\* One client with two executions, one of which may wait for its release.
LedgerScenes ==
  {[sessions |-> 1, exec |-> 2, arm |-> 1, disarm |-> 0,
    trouble |-> {"fault"}, uses |-> {"gated"}]}

\* Owners that come and go; and ARM against DISARM, with late answers.
AuthorityScenes ==
  {[sessions |-> 2, exec |-> 1, arm |-> 1, disarm |-> 0,
    trouble |-> {"stale"}, uses |-> {"close", "setpoint", "preset", "hold"}],
   [sessions |-> 1, exec |-> 0, arm |-> 2, disarm |-> 1,
    trouble |-> {"slow"}, uses |-> {}]}

\* One execution, answers that come late, and a link that goes down.
LiveScenes ==
  {[sessions |-> 1, exec |-> 1, arm |-> 1, disarm |-> 0,
    trouble |-> {"slow", "down"}, uses |-> {}]}
=============================================================================
