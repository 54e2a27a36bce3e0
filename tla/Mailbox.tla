------------------------------- MODULE Mailbox -------------------------------
(***************************************************************************)
(* The seam between the non-RT threads and the RT servo loop               *)
(* (rt/include/arm_rt/mailbox.hpp): a single-writer, single-reader,        *)
(* latest-value triple buffer.  The writer owns slot `back', the reader    *)
(* owns slot `front', the third is in transit in the atomic `middle'       *)
(* together with the FRESH bit.                                            *)
(*                                                                         *)
(* The atomic exchanges are single steps.  The ordinary copies of a value  *)
(* are not: a value is filled and copied in two halves, `lo' and `hi', so  *)
(* that two threads in one slot would be seen as a torn value.  The n-th   *)
(* value written has both halves equal to n, its version; T{} is 0.        *)
(***************************************************************************)
EXTENDS Naturals

CONSTANT MaxWrites  \* bound on the number of writes (the code's is 2^64)

ASSUME MaxWritesAssumption == MaxWrites \in Nat

VARIABLES
  slots,      \* slots_: what each of the three slots holds
  middle,     \* middle_: the slot in transit and its FRESH bit
  back,       \* back_: the writer's slot
  front,      \* front_: the reader's slot
  written,    \* written_: how many values the writer has numbered
  wpc,        \* where the writer is inside write()
  rpc,        \* where the reader is inside read()
  out,        \* what the last finished read() returned (both halves, version)
  copy,       \* the half of `out' already copied by a read() in progress
  published,  \* history: newest version whose exchange has happened
  floor       \* history: `published' when the read() in progress began

vars == <<slots, middle, back, front, written, wpc, rpc, out, copy,
          published, floor>>

Slot == 0..2
Held(n) == [lo |-> n, hi |-> n, version |-> n]
Value == [lo : Nat, hi : Nat, version : Nat]

TypeOK ==
  /\ slots \in [Slot -> Value]
  /\ middle \in [slot : Slot, fresh : BOOLEAN]
  /\ back \in Slot /\ front \in Slot
  /\ written \in Nat /\ published \in Nat /\ floor \in Nat
  /\ wpc \in {"idle", "hi", "version", "publish"}
  /\ rpc \in {"idle", "take", "lo", "hi"}
  /\ out \in Value /\ copy \in Nat

Init ==
  /\ slots = [s \in Slot |-> Held(0)]
  /\ middle = [slot |-> 1, fresh |-> FALSE]
  /\ back = 0 /\ front = 2
  /\ written = 0 /\ published = 0 /\ floor = 0
  /\ wpc = "idle" /\ rpc = "idle"
  /\ out = Held(0) /\ copy = 0

-----------------------------------------------------------------------------
(* write(value): fill the back slot, number it, publish it.                *)

FillLo ==
  /\ wpc = "idle" /\ written < MaxWrites
  /\ slots' = [slots EXCEPT ![back].lo = written + 1]
  /\ wpc' = "hi"
  /\ UNCHANGED <<middle, back, front, written, rpc, out, copy, published, floor>>

FillHi ==
  /\ wpc = "hi"
  /\ slots' = [slots EXCEPT ![back].hi = written + 1]
  /\ wpc' = "version"
  /\ UNCHANGED <<middle, back, front, written, rpc, out, copy, published, floor>>

Number ==
  /\ wpc = "version"
  /\ written' = written + 1
  /\ slots' = [slots EXCEPT ![back].version = written + 1]
  /\ wpc' = "publish"
  /\ UNCHANGED <<middle, back, front, rpc, out, copy, published, floor>>

\* Mutant: the exchanged slot not adopted.
PublishKeepsBack ==
  /\ wpc = "publish"
  /\ middle' = [slot |-> back, fresh |-> TRUE]
  /\ published' = written
  /\ wpc' = "idle"
  /\ UNCHANGED <<slots, back, front, written, rpc, out, copy, floor>>

Publish ==
  /\ wpc = "publish"
  /\ middle' = [slot |-> back, fresh |-> TRUE]
  /\ back' = middle.slot
  /\ published' = written
  /\ wpc' = "idle"
  /\ UNCHANGED <<slots, front, written, rpc, out, copy, floor>>

-----------------------------------------------------------------------------
(* read(out): take the middle slot if it is FRESH, then copy the front.    *)

\* Mutant: the exchange without the FRESH test.
LookUntested ==
  /\ rpc = "idle"
  /\ floor' = published
  /\ rpc' = "take"
  /\ UNCHANGED <<slots, middle, back, front, written, wpc, out, copy, published>>

Look ==
  /\ rpc = "idle"
  /\ floor' = published
  /\ rpc' = IF middle.fresh THEN "take" ELSE "lo"
  /\ UNCHANGED <<slots, middle, back, front, written, wpc, out, copy, published>>

\* Mutant: the FRESH bit consumed but the front slot not replaced.
TakeKeepsFront ==
  /\ rpc = "take"
  /\ middle' = [middle EXCEPT !.fresh = FALSE]
  /\ rpc' = "lo"
  /\ UNCHANGED <<slots, back, front, written, wpc, out, copy, published, floor>>

Take ==
  /\ rpc = "take"
  /\ middle' = [slot |-> front, fresh |-> FALSE]
  /\ front' = middle.slot
  /\ rpc' = "lo"
  /\ UNCHANGED <<slots, back, written, wpc, out, copy, published, floor>>

CopyLo ==
  /\ rpc = "lo"
  /\ copy' = slots[front].lo
  /\ rpc' = "hi"
  /\ UNCHANGED <<slots, middle, back, front, written, wpc, out, published, floor>>

CopyHi ==
  /\ rpc = "hi"
  /\ out' = [slots[front] EXCEPT !.lo = copy]
  /\ rpc' = "idle"
  /\ UNCHANGED <<slots, middle, back, front, written, wpc, copy, published, floor>>

-----------------------------------------------------------------------------
Write == FillLo \/ FillHi \/ Number \/ Publish
Read == Look \/ Take \/ CopyLo \/ CopyHi

Next == Write \/ Read

\* Only the reader (the servo tick, which never stops) is fair: a writer may
\* fall silent for ever, and nothing the reader does waits for it.
Spec == Init /\ [][Next]_vars /\ WF_vars(Read)

-----------------------------------------------------------------------------
(* No slot is ever in the hands of both threads: the writer's, the         *)
(* reader's and the one in transit are three different slots at every      *)
(* step of both calls.                                                     *)
SlotsDisjoint ==
  /\ back # front
  /\ back # middle.slot
  /\ front # middle.slot

(* What read() returns is one value as written, never halves of two.       *)
NotTorn == out.lo = out.version /\ out.hi = out.version

(* Latest wins: a finished read() returns nothing older than what was      *)
(* already published when it began.                                        *)
NoOlderThanPublished == rpc = "idle" => out.version >= floor

(* A reader never sees the stream of values go back.                       *)
VersionsForward == [][out'.version >= out.version]_vars

(* The last value published before the writer falls silent is read.        *)
LastValueRead ==
  \A n \in 1..MaxWrites : <>[](published = n) => <>[](out.version = n)

Register == INSTANCE LatestRegister
              WITH newest <- published, asked <- rpc # "idle", got <- out.version

(* The mailbox implements the register: write() puts its value when it     *)
(* exchanges the slots, and what read() returns was the newest value at    *)
(* some moment of the call.                                                *)
ImplementsRegister == Register!Spec
=============================================================================
