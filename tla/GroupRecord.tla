---------------------------- MODULE GroupRecord -----------------------------
(***************************************************************************)
(* One member's slot of the group record (rt/include/arm_rt/               *)
(* group_record.hpp): shared memory that two threads of the member's       *)
(* server write, its control thread and its servo tick, and that the       *)
(* peers' servo ticks read.  A sequence number, odd while a writer is      *)
(* inside, is entered by compare-and-swap; the control thread tries until  *)
(* it gets in, the tick tries once.  A reader takes a copy whose sequence  *)
(* number was even and did not change, or after a few tries nothing.       *)
(*                                                                         *)
(* The fields are the state and `body', which stands for the group, the    *)
(* session, the epoch, the stamps and the code: the n-th write stores n    *)
(* there.  Loads, stores and the compare-and-swap are single steps in      *)
(* program order, which the fences of the code are there for; the 32-bit   *)
(* sequence does not wrap within one read.  The server may be killed       *)
(* anywhere in a write; its successor resets the slot before its threads   *)
(* start.                                                                  *)
(***************************************************************************)
EXTENDS Naturals

CONSTANTS ReadTries,   \* GROUP_READ_TRIES
          MaxWrites,   \* bound: writes to the slot, beside those of resets
          MaxKills     \* bound: how often the server is killed

VARIABLES
  seq,     \* seq
  cell,    \* the fields: state and body
  w,       \* each writing thread: where it is, the sequence it loaded, its write
  rd,      \* the reader: where it is, tries made, sequence, its copy
  up,      \* the server: up, down (killed), starting (in reset_slot)
  count,   \* writes begun, and kills
  held,    \* history: the value the slot was last left with
  window   \* history: the values it was left with since the reader's try began

recordVars == <<seq, cell, w, rd, up, count, held, window>>

Writers == {"control", "tick"}
LiveStates == {"STAGED", "READY", "COMMITTED", "RUNNING"}
States == LiveStates \cup {"NONE", "FAULTED", "CANCELLED", "DONE"}

\* The writes: the state written and the states it may replace (allowed_from).
\* Of the control thread: JOIN, COMMIT, group_leave, the end of the session.
ControlWrites ==
  {[to |-> "STAGED", from |-> States], [to |-> "COMMITTED", from |-> States],
   [to |-> "CANCELLED", from |-> LiveStates \cup {"CANCELLED", "NONE"}],
   [to |-> "CANCELLED", from |-> States]}
\* Of the tick: the stamp, the end, the mirrored latch, a bad peer.
TickWrites ==
  {[to |-> "RUNNING", from |-> {"COMMITTED"}], [to |-> "DONE", from |-> {"RUNNING"}],
   [to |-> "FAULTED", from |-> States \ {"DONE"}],
   [to |-> "CANCELLED", from |-> LiveStates]}
Writes(x) == IF x = "control" THEN ControlWrites ELSE TickWrites
Emptying == [to |-> "NONE", from |-> States]

Odd(n) == n % 2 = 1
\* What a reader inside its try may come across, once the slot is left with v.
Seen(v) == IF rd.pc = "idle" THEN window ELSE window \cup {v}
Inside == {"check", "state", "body", "leave"}
Idle == [pc |-> "idle", q |-> 0, op |-> Emptying, tag |-> 0]
NoRead == [pc |-> "idle", tries |-> 0, q |-> 0, state |-> "NONE", body |-> 0, ok |-> FALSE]

RecordInit ==
  /\ seq = 0
  /\ cell = [state |-> "NONE", body |-> 0]
  /\ w = [x \in Writers |-> Idle]
  /\ rd = NoRead
  /\ up = "up"
  /\ count = [writes |-> 0, kills |-> 0]
  /\ held = cell /\ window = {}

-----------------------------------------------------------------------------
(* try_write_slot, and write_slot, which tries again when CONTENDED.       *)

Begin(x, op) ==
  /\ up = "up" /\ w[x].pc = "idle" /\ count.writes < MaxWrites
  /\ w' = [w EXCEPT ![x] = [pc |-> "load", q |-> 0, op |-> op, tag |-> count.writes + 1]]
  /\ count' = [count EXCEPT !.writes = @ + 1]
  /\ UNCHANGED <<seq, cell, rd, up, held, window>>

Contended(x) ==
  w' = [w EXCEPT ![x].pc = IF x = "control" THEN "load" ELSE "idle"]

Load(x) ==
  /\ w[x].pc = "load"
  /\ IF Odd(seq) THEN Contended(x) ELSE w' = [w EXCEPT ![x].q = seq, ![x].pc = "cas"]
  /\ UNCHANGED <<seq, cell, rd, up, count, held, window>>

\* Mutant: the sequence is entered by a store, not by compare-and-swap.
CasBlind(x) ==
  /\ w[x].pc = "cas"
  /\ seq' = w[x].q + 1 /\ w' = [w EXCEPT ![x].pc = "check"]
  /\ UNCHANGED <<cell, rd, up, count, held, window>>

Cas(x) ==
  /\ w[x].pc = "cas"
  /\ IF seq = w[x].q THEN seq' = seq + 1 /\ w' = [w EXCEPT ![x].pc = "check"]
     ELSE UNCHANGED seq /\ Contended(x)
  /\ UNCHANGED <<cell, rd, up, count, held, window>>

\* REFUSED: the data unchanged, the sequence even again.
Check(x) ==
  /\ w[x].pc = "check"
  /\ IF cell.state \in w[x].op.from
     THEN w' = [w EXCEPT ![x].pc = "state"] /\ UNCHANGED seq
     ELSE w' = [w EXCEPT ![x].pc = "idle"] /\ seq' = w[x].q + 2
  /\ UNCHANGED <<cell, rd, up, count, held, window>>

PutState(x) ==
  /\ w[x].pc = "state"
  /\ cell' = [cell EXCEPT !.state = w[x].op.to]
  /\ w' = [w EXCEPT ![x].pc = "body"]
  /\ UNCHANGED <<seq, rd, up, count, held, window>>

PutBody(x) ==
  /\ w[x].pc = "body"
  /\ cell' = [cell EXCEPT !.body = w[x].tag]
  /\ w' = [w EXCEPT ![x].pc = "leave"]
  /\ UNCHANGED <<seq, rd, up, count, held, window>>

\* The end of a write, for reset_slot's the end of the reset.
Leave(x) ==
  /\ w[x].pc = "leave"
  /\ seq' = w[x].q + 2
  /\ w' = [w EXCEPT ![x].pc = "idle"]
  /\ held' = cell /\ window' = Seen(cell)
  /\ up' = "up"
  /\ UNCHANGED <<cell, rd, count>>

Write(x) ==
  \/ \E op \in Writes(x) : Begin(x, op)
  \/ Load(x) \/ Cas(x) \/ Check(x) \/ PutState(x) \/ PutBody(x) \/ Leave(x)

-----------------------------------------------------------------------------
(* The server killed, and its successor's reset_slot.                      *)

Kill ==
  /\ up # "down" /\ count.kills < MaxKills
  /\ up' = "down"
  /\ w' = [x \in Writers |-> Idle]
  /\ count' = [count EXCEPT !.kills = @ + 1]
  /\ UNCHANGED <<seq, cell, rd, held, window>>

\* Mutant: the next number, whichever it is.
ClearedBlind == seq + 1

\* (q | 1) + 1, then write_slot; between the two a reader takes what the
\* predecessor has left, whole or not, for the slot's value.
Cleared == IF Odd(seq) THEN seq + 1 ELSE seq + 2

ResetSlot ==
  /\ up = "down"
  /\ up' = "starting"
  /\ seq' = Cleared
  /\ held' = cell /\ window' = Seen(cell)
  /\ w' = [w EXCEPT !["control"] = [pc |-> "load", q |-> 0, op |-> Emptying,
                                    tag |-> 0]]
  /\ UNCHANGED <<cell, rd, count>>

-----------------------------------------------------------------------------
(* read_slot, by a peer's tick.                                            *)

ReadBegin ==
  /\ rd.pc = "idle"
  /\ rd' = [NoRead EXCEPT !.pc = "load"]
  /\ window' = {}
  /\ UNCHANGED <<seq, cell, w, up, count, held>>

\* One more try, or nothing.
ReadAgain ==
  rd' = IF rd.tries + 1 < ReadTries
        THEN [NoRead EXCEPT !.tries = rd.tries + 1, !.pc = "load"] ELSE NoRead

ReadLoad ==
  /\ rd.pc = "load"
  /\ IF Odd(seq) THEN ReadAgain ELSE rd' = [rd EXCEPT !.q = seq, !.pc = "state"]
  /\ window' = {held}
  /\ UNCHANGED <<seq, cell, w, up, count, held>>

ReadState ==
  /\ rd.pc = "state"
  /\ rd' = [rd EXCEPT !.state = cell.state, !.pc = "body"]
  /\ UNCHANGED <<seq, cell, w, up, count, held, window>>

ReadBody ==
  /\ rd.pc = "body"
  /\ rd' = [rd EXCEPT !.body = cell.body, !.pc = "again"]
  /\ UNCHANGED <<seq, cell, w, up, count, held, window>>

ReadCheck ==
  /\ rd.pc = "again"
  /\ IF seq = rd.q THEN rd' = [rd EXCEPT !.ok = TRUE, !.pc = "idle"] ELSE ReadAgain
  /\ UNCHANGED <<seq, cell, w, up, count, held, window>>

Read == ReadBegin \/ ReadLoad \/ ReadState \/ ReadBody \/ ReadCheck

RecordNext == Read \/ (\E x \in Writers : Write(x)) \/ Kill \/ ResetSlot

RecordSpec == RecordInit /\ [][RecordNext]_recordVars

-----------------------------------------------------------------------------
(* A copy that read_slot returns is one the slot was left with while the   *)
(* read was going on: never the state of one write with the group, epoch   *)
(* or stamps of another, whichever threads write meanwhile.                *)
ReadWhole ==
  rd.ok => [state |-> rd.state, body |-> rd.body] \in window

(* The slot never stays shut: with the server there, the sequence is odd only *)
(* while one of its threads is inside, and never are both.                 *)
SlotOpen ==
  up # "down" =>
    /\ Odd(seq) => \E x \in Writers : w[x].pc \in Inside
    /\ \E x \in Writers : w[x].pc \notin Inside
=============================================================================
