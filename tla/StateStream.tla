----------------------------- MODULE StateStream ------------------------------
(***************************************************************************)
(* The RT server and its commanding client joined by UDP.  The servo       *)
(* selects a command, writes the plant, latches a refused write, publishes *)
(* a packet; the network loses, repeats and reorders packets and commands; *)
(* the client feeds what arrives to its AppliedTracker and closes the      *)
(* tracker when it requests a DISARM.  What the tracker confirms must be   *)
(* what the plant accepted.                                                *)
(*                                                                         *)
(* The server is RtServer at a coarser grain: the latch word is free,      *)
(* being written by the control thread (session lost), or set; the servo's *)
(* own latch is one step, because only its effect on later packets counts  *)
(* here.                                                                   *)
(***************************************************************************)
EXTENDS AppliedRule, FiniteSets

CONSTANTS
  MaxGen,     \* bound on ARM generations
  MaxSeq,     \* bound on commands sent
  MaxTicks,   \* bound on packets published, below half of SeqMod
  MaxStall,   \* whole ticks a thread inside latch() may be preempted for
  FirstSeq    \* state_seq of the first packet: near the wrap, to cross it

ASSUME StateStreamAssumption ==
  /\ MaxGen \in Nat /\ MaxSeq \in Nat /\ MaxStall \in Nat
  /\ MaxTicks \in Nat /\ 2 * MaxTicks < SeqMod
  /\ FirstSeq \in 0..(SeqMod - 1)

VARIABLES
  word,      \* the latch word: "free", "writing" (control thread), "set"
  armed,     \* armed
  agen,      \* arm_gen
  sentIn,    \* the ARM epoch each command was sent under, in seq order
  epoch,     \* the client's ARM epoch, 0 = none
  asked,     \* DISARM: "no", "requested", "dropped" (armed is false, the
             \* latch not yet cleared)
  cmdIn,     \* seq of the command in the servo's mailbox, 0 = none
  spc,       \* where the servo is inside a tick
  s,         \* what this tick sampled
  seen,      \* seen_gen
  plantOk,   \* plant_ok
  lastCmd,   \* last_cmd_seq
  lost,      \* the control session has ended, with this client's requests
  stalled,   \* packets published since the control thread entered latch()
  net,       \* packets published so far: any may arrive, late or twice
  trk,       \* the client's AppliedTracker
  accepted   \* history: seqs of the commands whose write the plant accepted

vars == <<word, armed, agen, sentIn, epoch, asked, cmdIn, spc, s, seen, plantOk,
          lastCmd, lost, stalled, net, trk, accepted>>
serverVars == <<word, armed, agen, cmdIn, spc, s, seen, plantOk, lastCmd, lost, stalled,
                net, accepted>>
servoVars == <<spc, s, seen, plantOk, lastCmd, accepted>>

Packet == [epoch : 0..MaxGen, seq : 0..(SeqMod - 1), armed : BOOLEAN,
           faulted : BOOLEAN, last : 0..MaxSeq]
Tracker == [epoch : {None} \cup (0..MaxGen), last : {None} \cup (0..(SeqMod - 1)),
            candidate : {None} \cup (0..MaxSeq), confirmed : {None} \cup (0..MaxSeq),
            closed : BOOLEAN, faulted : BOOLEAN]

TypeOK ==
  /\ word \in {"free", "writing", "set"} /\ armed \in BOOLEAN /\ agen \in 0..MaxGen
  /\ sentIn \in [1..MaxSeq -> {None} \cup (1..MaxGen)]
  /\ epoch \in 0..MaxGen /\ asked \in {"no", "requested", "dropped"}
  /\ cmdIn \in 0..MaxSeq
  /\ spc \in {"armed", "gen", "act", "write", "publish"}
  /\ s \in [armed : BOOLEAN, faulted : BOOLEAN, gen : 0..MaxGen, cmd : 0..MaxSeq]
  /\ seen \in 0..MaxGen /\ plantOk \in BOOLEAN /\ lastCmd \in 0..MaxSeq
  /\ lost \in BOOLEAN /\ stalled \in 0..MaxStall
  /\ net \subseteq Packet /\ trk \in Tracker
  /\ accepted \subseteq 1..MaxSeq

Init ==
  /\ word = "free" /\ armed = FALSE /\ agen = 0
  /\ sentIn = [n \in 1..MaxSeq |-> None] /\ epoch = 0 /\ asked = "no" /\ cmdIn = 0
  /\ spc = "armed"
  /\ s = [armed |-> FALSE, faulted |-> FALSE, gen |-> 0, cmd |-> 0]
  /\ seen = 0 /\ plantOk = TRUE /\ lastCmd = 0 /\ lost = FALSE /\ stalled = 0
  /\ net = {} /\ trk = NewTracker /\ accepted = {}

-----------------------------------------------------------------------------
(* Client and control thread.                                              *)

\* CTL_ARM, admitted only over a free latch; the ack brings the new epoch.
Arm ==
  /\ asked = "no" /\ ~lost /\ ~armed /\ word = "free" /\ agen < MaxGen
  /\ agen' = agen + 1 /\ armed' = TRUE
  /\ epoch' = agen + 1
  /\ UNCHANGED <<word, sentIn, asked, cmdIn, servoVars, lost, stalled, net, trk>>

\* The tracker is closed before the DISARM leaves; no command is sent from
\* then on.
RequestDisarm ==
  /\ asked = "no"
  /\ asked' = "requested"
  /\ trk' = DisarmSent(trk)
  /\ UNCHANGED <<serverVars, sentIn, epoch>>

\* CTL_DISARM drops authority, then clears the latch.
Drop ==
  /\ asked = "requested" /\ ~lost
  /\ asked' = "dropped"
  /\ armed' = FALSE
  /\ UNCHANGED <<word, agen, sentIn, epoch, cmdIn, servoVars, lost, stalled, net, trk>>

Clear ==
  /\ asked = "dropped"
  /\ word' = "free"
  /\ asked' = "no"
  /\ epoch' = 0
  /\ UNCHANGED <<armed, agen, sentIn, cmdIn, servoVars, lost, stalled, net, trk>>

\* The session is lost while armed: the control thread latches CTL_LOST, and
\* the servo may tick while it is inside latch().
LostBegin ==
  /\ asked # "dropped" /\ ~lost /\ armed
  /\ lost' = TRUE
  /\ word' = IF word = "free" THEN "writing" ELSE word
  /\ UNCHANGED <<armed, agen, sentIn, epoch, asked, cmdIn, servoVars, stalled, net, trk>>

LostSet ==
  /\ word = "writing"
  /\ word' = "set"
  /\ stalled' = 0
  /\ UNCHANGED <<armed, agen, sentIn, epoch, asked, cmdIn, servoVars, lost, net, trk>>

-----------------------------------------------------------------------------
(* Commands.                                                               *)

Send ==
  /\ epoch # 0 /\ asked = "no"
  /\ \E n \in 1..MaxSeq :
       /\ sentIn[n] = None /\ \A m \in 1..(n - 1) : sentIn[m] # None
       /\ sentIn' = [sentIn EXCEPT ![n] = epoch]
  /\ UNCHANGED <<serverVars, epoch, asked, trk>>

\* udp_rx admits a command of this generation, newer than the last; a lost
\* session is retired once its fault is latched.
Admit(n) ==
  /\ lost => word = "writing"
  /\ armed /\ sentIn[n] = agen /\ n > cmdIn
  /\ cmdIn' = n
  /\ UNCHANGED <<word, armed, agen, sentIn, epoch, asked, servoVars, lost, stalled, net, trk>>

-----------------------------------------------------------------------------
(* The servo.                                                              *)

SampleArmed ==
  /\ spc = "armed"
  /\ s' = [s EXCEPT !.armed = armed, !.faulted = word = "set"]
  /\ spc' = "gen"
  /\ UNCHANGED <<word, armed, agen, sentIn, epoch, asked, cmdIn, seen, plantOk,
                 lastCmd, lost, stalled, net, trk, accepted>>

SampleGen ==
  /\ spc = "gen"
  /\ s' = [s EXCEPT !.gen = agen,
                    !.cmd = IF cmdIn # 0 /\ sentIn[cmdIn] = agen THEN cmdIn ELSE 0]
  /\ seen' = agen
  /\ plantOk' = (agen # seen \/ plantOk)
  /\ spc' = IF s.armed THEN "act" ELSE "publish"
  /\ UNCHANGED <<word, armed, agen, sentIn, epoch, asked, cmdIn, lastCmd, lost, stalled,
                 net, trk, accepted>>

Suppress ==
  /\ spc = "act" /\ ~plantOk
  /\ spc' = "publish"
  /\ UNCHANGED <<word, armed, agen, sentIn, epoch, asked, cmdIn, s, seen, plantOk,
                 lastCmd, lost, stalled, net, trk, accepted>>

\* last_cmd_seq advances here, before the write.
Select ==
  /\ spc = "act" /\ plantOk /\ ~s.faulted /\ s.cmd # 0
  /\ lastCmd' = s.cmd
  /\ spc' = "write"
  /\ UNCHANGED <<word, armed, agen, sentIn, epoch, asked, cmdIn, s, seen, plantOk,
                 lost, stalled, net, trk, accepted>>

\* Faulted, or no command young enough.
Hold ==
  /\ spc = "act" /\ plantOk
  /\ s' = [s EXCEPT !.cmd = 0]
  /\ spc' = "write"
  /\ UNCHANGED <<word, armed, agen, sentIn, epoch, asked, cmdIn, seen, plantOk,
                 lastCmd, lost, stalled, net, trk, accepted>>

WriteAccepted ==
  /\ spc = "write"
  /\ accepted' = accepted \cup ({s.cmd} \ {0})
  /\ spc' = "publish"
  /\ UNCHANGED <<word, armed, agen, sentIn, epoch, asked, cmdIn, s, seen, plantOk,
                 lastCmd, lost, stalled, net, trk>>

\* A refused write latches, unless another cause has the latch.
WriteRejected ==
  /\ spc = "write"
  /\ word' = IF word = "free" THEN "set" ELSE word
  /\ plantOk' = FALSE
  /\ spc' = "publish"
  /\ UNCHANGED <<armed, agen, sentIn, epoch, asked, cmdIn, s, seen, lastCmd, lost, stalled,
                 net, trk, accepted>>

\* The armed level of the sample, the fault flag as it is now.
Publish ==
  /\ spc = "publish"
  /\ Cardinality(net) < MaxTicks
  /\ word = "writing" => stalled < MaxStall
  /\ net' = net \cup {[epoch |-> seen, seq |-> (FirstSeq + Cardinality(net)) % SeqMod,
                       armed |-> s.armed, faulted |-> word = "set", last |-> lastCmd]}
  /\ stalled' = IF word = "writing" THEN stalled + 1 ELSE stalled
  /\ spc' = "armed"
  /\ UNCHANGED <<word, armed, agen, sentIn, epoch, asked, cmdIn, s, seen, plantOk,
                 lastCmd, lost, trk, accepted>>

Receive(p) ==
  /\ trk' = Feed(trk, p)
  /\ UNCHANGED <<serverVars, sentIn, epoch, asked>>

Next ==
  \/ Arm \/ RequestDisarm \/ Drop \/ Clear \/ LostBegin \/ LostSet
  \/ Send \/ \E n \in 1..MaxSeq : Admit(n)
  \/ SampleArmed \/ SampleGen \/ Suppress \/ Select \/ Hold
  \/ WriteAccepted \/ WriteRejected \/ Publish
  \/ \E p \in net : Receive(p)

Spec == Init /\ [][Next]_vars

-----------------------------------------------------------------------------
(* APPLIED is evidence: a command that the tracker confirms, in the ARM    *)
(* generation it was sent under, was written to the plant and accepted;    *)
(* selection by the servo alone is never enough.                           *)
AppliedMeansAccepted ==
  \A n \in 1..MaxSeq :
    sentIn[n] # None /\ Confirmed(trk, sentIn[n]) = n => n \in accepted

(* A fault, once seen, ends its generation for the tracker: whatever late, *)
(* repeated or reordered packets still arrive, nothing more of that        *)
(* generation is confirmed and the fault is not forgotten.                 *)
FaultCloses ==
  [][trk.faulted /\ trk'.epoch = trk.epoch
       => trk'.faulted /\ trk'.confirmed = trk.confirmed]_trk
=============================================================================
