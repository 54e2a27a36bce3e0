------------------------------- MODULE RtServer -------------------------------
(***************************************************************************)
(* The RT server process (rt/src): three threads over shared atomics.      *)
(*   - the control thread (control_session.cpp) serves one TCP session at  *)
(*     a time: ARM, DISARM, fault notices, session loss;                   *)
(*   - udp_rx (udp_link.cpp) admits command datagrams into a mailbox;      *)
(*   - the servo (rt_loop.cpp) ticks: read, sample authority, select a     *)
(*     command or hold, write the plant, publish a state packet.           *)
(* They meet in the fault latch (server.hpp): one word, claimed by         *)
(* compare-and-swap, that says who may touch the latched fault.            *)
(*                                                                         *)
(* The stores of latch(), ARM and DISARM and the servo's samples of them   *)
(* are steps of their own.  Ages and deadlines are choices of the          *)
(* environment: a command in the mailbox may be too old at any tick, and a *)
(* silent stream may pass its CMD_LOST deadline at any tick that has no    *)
(* fresh command.                                                          *)
(***************************************************************************)
EXTENDS Naturals

CONSTANTS
  MaxGen,         \* bound on ARM generations
  MaxDisarm,      \* bound on DISARM requests
  MaxSession,     \* bound on control sessions
  MaxSeq,         \* bound on commands sent
  MaxFault,       \* bound on latched faults
  ConfirmedStop   \* TRUE: the client arms only after the state stream has
                  \* confirmed its last DISARM, as the supervisor does

ASSUME RtServerAssumption ==
  /\ MaxGen \in Nat /\ MaxDisarm \in Nat /\ MaxSession \in Nat
  /\ MaxSeq \in Nat /\ MaxFault \in Nat
  /\ ConfirmedStop \in BOOLEAN

Codes == {"CMD_LOST", "CTL_LOST", "PLANT"}
Threads == {"servo", "control"}

NoCmd == [seq |-> 0, epoch |-> 0, gen |-> 0, sess |-> 0]
NoCause == [code |-> "none", gen |-> 0]

VARIABLES
  word,       \* latch_state
  fault,      \* fault
  cause,      \* fault_code and fault_gen
  fseq,       \* fault_seq: serial of the newest latch
  secondary,  \* secondary_codes
  lw,         \* where each thread is inside latch()
  lc,         \* the code and generation each thread is latching
  armed,      \* armed
  agen,       \* arm_gen
  dgen,       \* disarm_gen
  sess,       \* session_id of the newest session
  up,         \* whether that session is connected and claimed
  cpc,        \* where the control thread is
  notice,     \* the CTL_FAULT frame the control thread is sending
  notified,   \* fault_notified
  wire,       \* command datagrams sent so far: any may arrive, late or twice
  ack,        \* the client's ARM epoch (RtBackend._arm_epoch)
  hand,       \* the datagram udp_rx has checked and not yet published
  flow,       \* CommandFlow: generation and seq last admitted
  cmdIn,      \* cmd_in: newest admitted command
  spc,        \* where the servo is inside a tick
  s,          \* what this tick sampled
  seen,       \* seen_gen
  plant,      \* plant_ok, and why it is false: a failed read, or a write
              \* rejected or suppressed over a non-finite measurement
  prevArmed,  \* prev_armed
  lastCmd,    \* last_cmd_seq
  stopEpoch,  \* stop_epoch
  open,       \* generation whose torque session the plant has open, 0 = none
  out,        \* state_out: newest state packet
  accepted,   \* history: commands whose write the plant accepted
  causes,     \* history: what each latch serial was claimed for
  delivered   \* history: fault notices the client received

latchVars == <<word, fault, cause, fseq, secondary, lw, lc, causes>>
ctlVars == <<armed, agen, dgen, sess, up, cpc, notice, notified, delivered>>
cmdVars == <<wire, ack, hand, flow, cmdIn>>
servoVars == <<spc, s, seen, plant, prevArmed, lastCmd, stopEpoch, open, out,
               accepted>>
vars == <<latchVars, ctlVars, cmdVars, servoVars>>

Cmd == [seq : 0..MaxSeq, epoch : 0..MaxGen, gen : 0..MaxGen, sess : 0..MaxSession]
Cause == [code : Codes \cup {"none"}, gen : 0..MaxGen]
Packet == [last : 0..MaxSeq, armed : BOOLEAN, faulted : BOOLEAN,
           epoch : 0..MaxGen, stop : 0..MaxDisarm]

Notice == [seq : 0..MaxFault, code : Codes \cup {"none"}]

LatchTypes ==
  /\ word \in {"FREE", "WRITING", "SET", "CLEARING", "ARMING"}
  /\ fault \in BOOLEAN /\ cause \in Cause /\ fseq \in 0..MaxFault
  /\ secondary \subseteq Codes
  /\ lw \in [Threads -> {"no", "fill", "fault", "set"}]
  /\ lc \in [Threads -> Cause]
  /\ causes \in [1..MaxFault -> Cause]

ControlTypes ==
  /\ armed \in BOOLEAN /\ agen \in 0..MaxGen /\ dgen \in 0..MaxDisarm
  /\ sess \in 0..MaxSession /\ up \in BOOLEAN
  /\ cpc \in {"serve", "prepare", "free", "raise", "clear", "clearing", "reset",
              "bump", "notice", "end", "accept"}
  /\ notice \in Notice /\ notified \in 0..MaxFault /\ delivered \subseteq Notice

CommandTypes ==
  /\ wire \subseteq Cmd /\ ack \in 0..MaxGen
  /\ hand \in Cmd /\ flow \in [gen : 0..MaxGen, seq : 0..MaxSeq] /\ cmdIn \in Cmd

ServoTypes ==
  /\ spc \in {"read", "armed", "fault", "gen", "act", "write", "publish"}
  /\ s \in [stop : 0..MaxDisarm, armed : BOOLEAN, faulted : BOOLEAN,
            gen : 0..MaxGen, cmd : Cmd]
  /\ seen \in 0..MaxGen /\ plant \in {"ok", "unread", "rejected"}
  /\ prevArmed \in BOOLEAN
  /\ lastCmd \in 0..MaxSeq /\ stopEpoch \in 0..MaxDisarm /\ open \in 0..MaxGen
  /\ out \in Packet /\ accepted \subseteq Cmd

TypeOK == LatchTypes /\ ControlTypes /\ CommandTypes /\ ServoTypes

Init ==
  /\ word = "FREE" /\ fault = FALSE /\ cause = NoCause /\ fseq = 0
  /\ secondary = {}
  /\ lw = [t \in Threads |-> "no"] /\ lc = [t \in Threads |-> NoCause]
  /\ armed = FALSE /\ agen = 0 /\ dgen = 0 /\ sess = 0 /\ up = FALSE
  /\ cpc = "accept" /\ notice = [seq |-> 0, code |-> "none"] /\ notified = 0
  /\ wire = {} /\ ack = 0 /\ hand = NoCmd /\ flow = [gen |-> 0, seq |-> 0]
  /\ cmdIn = NoCmd
  /\ spc = "read"
  /\ s = [stop |-> 0, armed |-> FALSE, faulted |-> FALSE, gen |-> 0, cmd |-> NoCmd]
  /\ seen = 0 /\ plant = "ok" /\ prevArmed = FALSE /\ lastCmd = 0
  /\ stopEpoch = 0 /\ open = 0
  /\ out = [last |-> 0, armed |-> FALSE, faulted |-> FALSE, epoch |-> 0, stop |-> 0]
  /\ accepted = {} /\ causes = [n \in 1..MaxFault |-> NoCause] /\ delivered = {}

Idle(t) == lw[t] = "no"

\* The bound on latched faults, kept at the events that cause one.
MayFault ==
  IF \E t \in Threads : lw[t] = "fill" THEN fseq + 1 < MaxFault ELSE fseq < MaxFault

-----------------------------------------------------------------------------
(* latch(code, text, gen): the thread that swaps FREE for WRITING fills    *)
(* the latch and publishes SET last; any other cause is only journaled,    *)
(* once per code.                                                          *)

LatchBegin(t, c, g) ==
  IF word = "FREE"
  THEN /\ word' = "WRITING"
       /\ lw' = [lw EXCEPT ![t] = "fill"]
       /\ lc' = [lc EXCEPT ![t] = [code |-> c, gen |-> g]]
       /\ UNCHANGED <<fault, cause, fseq, secondary, causes>>
  ELSE /\ secondary' = IF c # cause.code THEN secondary \cup {c} ELSE secondary
       /\ UNCHANGED <<word, fault, cause, fseq, lw, lc, causes>>

LatchFill(t) ==
  /\ lw[t] = "fill"
  /\ cause' = lc[t]
  /\ fseq' = fseq + 1
  /\ causes' = [causes EXCEPT ![fseq + 1] = lc[t]]
  /\ lw' = [lw EXCEPT ![t] = "fault"]
  /\ UNCHANGED <<word, fault, secondary, lc, ctlVars, cmdVars, servoVars>>

LatchFault(t) ==
  /\ lw[t] = "fault"
  /\ fault' = TRUE
  /\ lw' = [lw EXCEPT ![t] = "set"]
  /\ UNCHANGED <<word, cause, fseq, secondary, lc, causes, ctlVars, cmdVars, servoVars>>

LatchSet(t) ==
  /\ lw[t] = "set"
  /\ word' = "SET"
  /\ lw' = [lw EXCEPT ![t] = "no"]
  /\ UNCHANGED <<fault, cause, fseq, secondary, lc, causes, ctlVars, cmdVars, servoVars>>

Latch(t) == LatchFill(t) \/ LatchFault(t) \/ LatchSet(t)

-----------------------------------------------------------------------------
(* The control thread.                                                     *)

Accept ==
  /\ cpc = "accept" /\ sess < MaxSession
  /\ sess' = sess + 1 /\ up' = TRUE
  /\ cpc' = "serve"
  /\ UNCHANGED <<armed, agen, dgen, notice, notified, delivered, latchVars,
                 cmdVars, servoVars>>

\* CTL_ARM of a live, fault-free authority: acknowledged, nothing changes.
ArmAgain ==
  /\ cpc = "serve" /\ armed /\ ~fault
  /\ ack' = agen
  /\ UNCHANGED <<wire, hand, flow, cmdIn, latchVars, ctlVars, servoVars>>

\* Mutant: a latched fault does not refuse the ARM.
ArmOverFault ==
  /\ cpc = "serve" /\ agen < MaxGen
  /\ ~(armed /\ ~fault)
  /\ ConfirmedStop => out.stop = dgen /\ ~out.armed
  /\ word \in {"FREE", "SET"}
  /\ word' = "ARMING"
  /\ cpc' = "prepare"
  /\ UNCHANGED <<fault, cause, fseq, secondary, lw, lc, causes, armed, agen, dgen,
                 sess, up, notice, notified, delivered, cmdVars, servoVars>>

\* CTL_ARM otherwise; anything but a FREE latch refuses.
Arm ==
  /\ cpc = "serve" /\ agen < MaxGen
  /\ ~(armed /\ ~fault)
  /\ ConfirmedStop => out.stop = dgen /\ ~out.armed
  /\ word = "FREE"
  /\ word' = "ARMING"
  /\ cpc' = "prepare"
  /\ UNCHANGED <<fault, cause, fseq, secondary, lw, lc, causes, armed, agen, dgen,
                 sess, up, notice, notified, delivered, cmdVars, servoVars>>

\* Mutant: authority raised with the generation, before the word is FREE.
PrepareRaises ==
  /\ cpc = "prepare"
  /\ agen' = agen + 1 /\ armed' = TRUE
  /\ cpc' = "free"
  /\ UNCHANGED <<dgen, sess, up, notice, notified, delivered, latchVars, cmdVars,
                 servoVars>>

Prepare ==
  /\ cpc = "prepare"
  /\ agen' = agen + 1
  /\ cpc' = "free"
  /\ UNCHANGED <<armed, dgen, sess, up, notice, notified, delivered, latchVars,
                 cmdVars, servoVars>>

FreeWord ==
  /\ cpc = "free"
  /\ word' = "FREE"
  /\ cpc' = "raise"
  /\ UNCHANGED <<fault, cause, fseq, secondary, lw, lc, causes, armed, agen, dgen,
                 sess, up, notice, notified, delivered, cmdVars, servoVars>>

Raise ==
  /\ cpc = "raise"
  /\ armed' = TRUE
  /\ ack' = agen
  /\ cpc' = "serve"
  /\ UNCHANGED <<agen, dgen, sess, up, notice, notified, delivered, latchVars,
                 wire, hand, flow, cmdIn, servoVars>>

\* CTL_DISARM: drop authority, clear the latch, then number the request.
Disarm ==
  /\ cpc = "serve" /\ dgen < MaxDisarm
  /\ armed' = FALSE
  /\ cpc' = "clear"
  /\ UNCHANGED <<agen, dgen, sess, up, notice, notified, delivered, latchVars,
                 cmdVars, servoVars>>

ClearClaim ==
  /\ cpc = "clear" /\ word # "WRITING"
  /\ word' = "CLEARING"
  /\ cpc' = "clearing"
  /\ UNCHANGED <<fault, cause, fseq, secondary, lw, lc, causes, armed, agen, dgen,
                 sess, up, notice, notified, delivered, cmdVars, servoVars>>

ClearTimeout ==
  /\ cpc = "clear" /\ word = "WRITING"
  /\ cpc' = "bump"
  /\ UNCHANGED <<armed, agen, dgen, sess, up, notice, notified, delivered,
                 latchVars, cmdVars, servoVars>>

ClearFault ==
  /\ cpc = "clearing"
  /\ fault' = FALSE
  /\ cpc' = "reset"
  /\ UNCHANGED <<word, cause, fseq, secondary, lw, lc, causes, armed, agen, dgen,
                 sess, up, notice, notified, delivered, cmdVars, servoVars>>

ClearReset ==
  /\ cpc = "reset"
  /\ cause' = NoCause /\ secondary' = {}
  /\ word' = "FREE"
  /\ cpc' = "bump"
  /\ UNCHANGED <<fault, fseq, lw, lc, causes, armed, agen, dgen, sess, up, notice,
                 notified, delivered, cmdVars, servoVars>>

Bump ==
  /\ cpc = "bump"
  /\ dgen' = dgen + 1
  /\ ack' = 0
  /\ cpc' = "serve"
  /\ UNCHANGED <<armed, agen, sess, up, notice, notified, delivered, latchVars,
                 wire, hand, flow, cmdIn, servoVars>>

\* Mutants: a latch that DISARM has cleared is still reported; the newest
\* serial is taken for delivered.
NoticeReadUnset ==
  /\ cpc = "serve"
  /\ fseq # notified
  /\ notice' = [seq |-> fseq, code |-> cause.code]
  /\ cpc' = "notice"
  /\ UNCHANGED <<armed, agen, dgen, sess, up, notified, delivered, latchVars,
                 cmdVars, servoVars>>

NoticeReadLate ==
  /\ cpc = "serve"
  /\ word = "SET" /\ fseq > notified + 1
  /\ notice' = [seq |-> fseq, code |-> cause.code]
  /\ cpc' = "notice"
  /\ UNCHANGED <<armed, agen, dgen, sess, up, notified, delivered, latchVars,
                 cmdVars, servoVars>>

\* pending_fault_notice, CTL_FAULT, ack_fault_notice.
NoticeRead ==
  /\ cpc = "serve"
  /\ word = "SET" /\ fseq # notified
  /\ notice' = [seq |-> fseq, code |-> cause.code]
  /\ cpc' = "notice"
  /\ UNCHANGED <<armed, agen, dgen, sess, up, notified, delivered, latchVars,
                 cmdVars, servoVars>>

NoticeSent ==
  /\ cpc = "notice"
  /\ delivered' = delivered \cup {notice}
  /\ notified' = IF notice.seq > notified THEN notice.seq ELSE notified
  /\ cpc' = "serve"
  /\ UNCHANGED <<armed, agen, dgen, sess, up, notice, latchVars, cmdVars, servoVars>>

\* The session ends (client gone, half-open, or a notice that cannot be sent):
\* an armed robot latches CTL_LOST before the session is retired.
SessionLost ==
  /\ cpc \in {"serve", "notice"}
  /\ armed => MayFault
  /\ IF armed THEN LatchBegin("control", "CTL_LOST", agen) ELSE UNCHANGED latchVars
  /\ cpc' = "end"
  /\ UNCHANGED <<armed, agen, dgen, sess, up, notice, notified, delivered,
                 cmdVars, servoVars>>

EndSession ==
  /\ cpc = "end" /\ Idle("control")
  /\ up' = FALSE
  /\ ack' = 0
  /\ cpc' = "accept"
  /\ UNCHANGED <<armed, agen, dgen, sess, notice, notified, delivered, latchVars,
                 wire, hand, flow, cmdIn, servoVars>>

-----------------------------------------------------------------------------
(* Commands: the client sends, udp_rx checks and then publishes.  Between  *)
(* the two, an ARM can retire the generation the datagram was checked in.  *)

Send ==
  /\ up /\ ack # 0
  /\ \E n \in 1..MaxSeq :
       /\ \A c \in wire : c.seq < n
       /\ n = 1 \/ \E c \in wire : c.seq = n - 1
       /\ wire' = wire \cup {[seq |-> n, epoch |-> ack, gen |-> 0, sess |-> sess]}
  /\ UNCHANGED <<ack, hand, flow, cmdIn, latchVars, ctlVars, servoVars>>

RxCheck(c) ==
  /\ hand = NoCmd
  /\ up /\ c.sess = sess
  /\ armed
  /\ c.epoch = agen
  /\ flow.gen = agen => c.seq > flow.seq
  /\ hand' = [c EXCEPT !.gen = agen]
  /\ UNCHANGED <<wire, ack, flow, cmdIn, latchVars, ctlVars, servoVars>>

\* Mutant: the envelope stamped with the generation of its publication.
RxPublishRestamped ==
  /\ hand # NoCmd
  /\ cmdIn' = [hand EXCEPT !.gen = agen]
  /\ flow' = [gen |-> agen, seq |-> hand.seq]
  /\ hand' = NoCmd
  /\ UNCHANGED <<wire, ack, latchVars, ctlVars, servoVars>>

RxPublish ==
  /\ hand # NoCmd
  /\ cmdIn' = hand
  /\ flow' = [gen |-> hand.gen, seq |-> hand.seq]
  /\ hand' = NoCmd
  /\ UNCHANGED <<wire, ack, latchVars, ctlVars, servoVars>>

-----------------------------------------------------------------------------
(* The servo tick.                                                         *)

ServoAt(p) == spc = p /\ Idle("servo")

\* A failed plant read: latched only while armed; no packet this tick.
ReadFails ==
  /\ ServoAt("read")
  /\ armed => MayFault
  /\ IF armed THEN LatchBegin("servo", "PLANT", agen) ELSE UNCHANGED latchVars
  /\ plant' = IF plant = "ok" THEN "unread" ELSE plant
  /\ UNCHANGED <<spc, s, seen, prevArmed, lastCmd, stopEpoch, open, out, accepted,
                 ctlVars, cmdVars>>

SampleStop ==
  /\ ServoAt("read")
  /\ s' = [s EXCEPT !.stop = dgen]
  /\ spc' = "armed"
  /\ UNCHANGED <<seen, plant, prevArmed, lastCmd, stopEpoch, open, out, accepted,
                 latchVars, ctlVars, cmdVars>>

SampleArmed ==
  /\ ServoAt("armed")
  /\ s' = [s EXCEPT !.armed = armed]
  /\ spc' = "fault"
  /\ UNCHANGED <<seen, plant, prevArmed, lastCmd, stopEpoch, open, out, accepted,
                 latchVars, ctlVars, cmdVars>>

SampleFault ==
  /\ ServoAt("fault")
  /\ s' = [s EXCEPT !.faulted = fault]
  /\ spc' = "gen"
  /\ UNCHANGED <<seen, plant, prevArmed, lastCmd, stopEpoch, open, out, accepted,
                 latchVars, ctlVars, cmdVars>>

\* CommandAuthority::observe: only an envelope of this generation counts.
SampleGen ==
  /\ ServoAt("gen")
  /\ s' = [s EXCEPT !.gen = agen, !.cmd = IF cmdIn.gen = agen THEN cmdIn ELSE NoCmd]
  /\ spc' = "act"
  /\ UNCHANGED <<seen, plant, prevArmed, lastCmd, stopEpoch, open, out, accepted,
                 latchVars, ctlVars, cmdVars>>

\* The generation edge: stop the session of a DISARM never sampled, retry
\* the plant.
Edge == s.gen # seen
PlantOk == Edge \/ plant = "ok"

\* Mutant: the edge does not stop the old session.
AfterEdgeKeepsSession == seen' = s.gen /\ open' = open

AfterEdge ==
  /\ seen' = s.gen
  /\ open' = IF Edge /\ prevArmed THEN 0 ELSE open

Fresh == s.cmd # NoCmd /\ up /\ s.cmd.sess = sess

\* Mutant: stop_epoch follows only a sampled falling edge.
ActDisarmedOnEdge ==
  /\ ServoAt("act") /\ ~s.armed
  /\ seen' = s.gen
  /\ open' = IF prevArmed THEN 0 ELSE open
  /\ plant' = IF PlantOk THEN "ok" ELSE plant
  /\ stopEpoch' = IF prevArmed THEN s.stop ELSE stopEpoch
  /\ spc' = "publish"
  /\ UNCHANGED <<s, prevArmed, lastCmd, out, accepted, latchVars, ctlVars, cmdVars>>

ActDisarmed ==
  /\ ServoAt("act") /\ ~s.armed
  /\ seen' = s.gen
  /\ open' = IF prevArmed THEN 0 ELSE open
  /\ plant' = IF PlantOk THEN "ok" ELSE plant
  /\ stopEpoch' = s.stop
  /\ spc' = "publish"
  /\ UNCHANGED <<s, prevArmed, lastCmd, out, accepted, latchVars, ctlVars, cmdVars>>

\* Writes are suppressed after a plant failure until the next ARM.
ActSuppressed ==
  /\ ServoAt("act") /\ s.armed /\ ~PlantOk
  /\ AfterEdge
  /\ UNCHANGED plant
  /\ spc' = "publish"
  /\ UNCHANGED <<s, prevArmed, lastCmd, stopEpoch, out, accepted, latchVars,
                 ctlVars, cmdVars>>

ActNonFinite ==
  /\ ServoAt("act") /\ s.armed /\ MayFault
  /\ AfterEdge
  /\ LatchBegin("servo", "PLANT", s.gen)
  /\ plant' = "rejected"
  /\ spc' = "publish"
  /\ UNCHANGED <<s, prevArmed, lastCmd, stopEpoch, out, accepted, ctlVars, cmdVars>>

\* A fresh command is selected: last_cmd_seq advances before the write.
ActSelect ==
  /\ ServoAt("act") /\ s.armed /\ PlantOk /\ ~s.faulted /\ Fresh
  /\ AfterEdge
  /\ plant' = "ok"
  /\ lastCmd' = s.cmd.seq
  /\ spc' = "write"
  /\ UNCHANGED <<s, prevArmed, stopEpoch, out, accepted, latchVars, ctlVars, cmdVars>>

\* The selected law has no valid inputs: latch, and write a hold instead.
ActLawInvalid ==
  /\ ServoAt("act") /\ s.armed /\ PlantOk /\ ~s.faulted /\ Fresh /\ MayFault
  /\ AfterEdge
  /\ plant' = "ok"
  /\ lastCmd' = s.cmd.seq
  /\ LatchBegin("servo", "PLANT", s.gen)
  /\ s' = [s EXCEPT !.cmd = NoCmd]
  /\ spc' = "write"
  /\ UNCHANGED <<prevArmed, stopEpoch, out, accepted, ctlVars, cmdVars>>

\* Faulted, or no command young enough: hold the pose.
ActHold ==
  /\ ServoAt("act") /\ s.armed /\ PlantOk
  /\ AfterEdge
  /\ plant' = "ok"
  /\ s' = [s EXCEPT !.cmd = NoCmd]
  /\ spc' = "write"
  /\ UNCHANGED <<prevArmed, lastCmd, stopEpoch, out, accepted, latchVars, ctlVars,
                 cmdVars>>

\* The same, past the CMD_LOST deadline.
ActCmdLost ==
  /\ ServoAt("act") /\ s.armed /\ PlantOk /\ ~s.faulted /\ MayFault
  /\ AfterEdge
  /\ plant' = "ok"
  /\ LatchBegin("servo", "CMD_LOST", s.gen)
  /\ s' = [s EXCEPT !.cmd = NoCmd]
  /\ spc' = "write"
  /\ UNCHANGED <<prevArmed, lastCmd, stopEpoch, out, accepted, ctlVars, cmdVars>>

WriteAccepted ==
  /\ ServoAt("write")
  /\ open' = s.gen
  /\ accepted' = IF s.cmd = NoCmd THEN accepted
                 ELSE accepted \cup {[s.cmd EXCEPT !.gen = s.gen]}
  /\ spc' = "publish"
  /\ UNCHANGED <<s, seen, plant, prevArmed, lastCmd, stopEpoch, out, latchVars,
                 ctlVars, cmdVars>>

WriteRejected ==
  /\ ServoAt("write") /\ MayFault
  /\ LatchBegin("servo", "PLANT", s.gen)
  /\ plant' = "rejected"
  /\ spc' = "publish"
  /\ UNCHANGED <<s, seen, prevArmed, lastCmd, stopEpoch, open, out, accepted,
                 ctlVars, cmdVars>>

\* The packet carries the armed level sampled by the tick, but the fault flag
\* as it is now.
Publish ==
  /\ ServoAt("publish")
  /\ out' = [last |-> lastCmd, armed |-> s.armed, faulted |-> fault,
             epoch |-> seen, stop |-> stopEpoch]
  /\ prevArmed' = s.armed
  /\ spc' = "read"
  /\ UNCHANGED <<s, seen, plant, lastCmd, stopEpoch, open, accepted, latchVars,
                 ctlVars, cmdVars>>

-----------------------------------------------------------------------------
\* Everything the servo does but publish.
Tick ==
  \/ ReadFails \/ SampleStop \/ SampleArmed \/ SampleFault \/ SampleGen
  \/ ActDisarmed \/ ActSuppressed \/ ActNonFinite \/ ActSelect \/ ActLawInvalid
  \/ ActHold \/ ActCmdLost \/ WriteAccepted \/ WriteRejected
  \/ Latch("servo")

\* The control thread inside an operation it has begun.
Serving ==
  \/ Prepare \/ FreeWord \/ Raise
  \/ ClearClaim \/ ClearTimeout \/ ClearFault \/ ClearReset \/ Bump
  \/ NoticeRead \/ NoticeSent \/ EndSession
  \/ Latch("control")

\* What the client and the network decide.
Requests ==
  \/ Accept \/ Arm \/ ArmAgain \/ Disarm \/ SessionLost
  \/ Send \/ (\E c \in wire : RxCheck(c))

Next == Tick \/ Publish \/ Serving \/ Requests \/ RxPublish

\* The servo never blocks for ever and its plant reads do not fail for ever
\* (after 50 failures in a row the process exits and is restarted); the
\* control thread finishes what it began.  Clients and the network owe nothing.
Fairness ==
  /\ WF_vars((Tick \/ Publish) /\ ~ReadFails)
  /\ WF_vars(Serving)

Spec == Init /\ [][Next]_vars /\ Fairness

-----------------------------------------------------------------------------
(* The latch word names its one owner: a thread inside latch() iff         *)
(* WRITING, DISARM's reset iff CLEARING, ARM's preparation iff ARMING.     *)
LatchOwned ==
  /\ \A t, u \in Threads : ~Idle(t) /\ ~Idle(u) => t = u
  /\ word = "WRITING" <=> \E t \in Threads : ~Idle(t)
  /\ word = "CLEARING" <=> cpc \in {"clearing", "reset"}
  /\ word = "ARMING" <=> cpc \in {"prepare", "free"}

(* First cause wins, and no ARM is prepared over a fault: a SET latch      *)
(* shows the cause its serial was claimed for, a FREE or ARMING one shows  *)
(* none.                                                                   *)
LatchCoherent ==
  /\ word = "SET" => fault /\ fseq > 0 /\ cause = causes[fseq]
  /\ word \in {"FREE", "ARMING"} => ~fault /\ cause = NoCause

(* Every CTL_FAULT the client receives names the cause that was latched    *)
(* under its serial, whatever latched or cleared while it was being sent.  *)
NoticesTrue ==
  \A n \in delivered : n.seq \in 1..fseq /\ n.code = causes[n.seq].code

(* No command moves the robot under another ARM generation than the one    *)
(* it was sent for, however long udp_rx stalls between check and publish.  *)
CommandsScoped == \A c \in accepted : c.epoch = c.gen

(* A plant torque session never outlives its ARM generation, even when the *)
(* DISARM and the next ARM both fall between two samples of the servo; and *)
(* a packet that says disarmed is sent with the session stopped.           *)
PlantSessionScoped ==
  /\ open # 0 => open = seen
  /\ ~out.armed /\ spc \in {"read", "armed", "fault", "gen", "act"} => open = 0

(* A tick that ran armed, in the generation that is armed now, and wrote   *)
(* nothing to the plant ends with a fault latched, or being latched: the   *)
(* robot is never armed, dead and silent.                                  *)
DeadPlantLatched ==
  spc = "publish" /\ s.armed /\ armed /\ seen = agen /\ plant # "ok"
    => word \in {"WRITING", "SET"}

(* A servo that gave up writing over a rejected write or a non-finite      *)
(* measurement, in the generation that is armed now, has a fault latched   *)
(* or being latched, at every moment of the tick.                          *)
RejectedWriteLatched ==
  armed /\ seen = agen /\ plant = "rejected" => word \in {"WRITING", "SET"}

(* The state stream comes to confirm every DISARM it must wait for.        *)
DisarmConfirmed ==
  \A d \in 1..MaxDisarm : dgen = d ~> stopEpoch >= d

(* A latched fault is delivered to the session, unless a DISARM clears it  *)
(* or the session goes first.                                              *)
FaultDelivered ==
  \A n \in 1..MaxFault :
    (word = "SET" /\ fseq = n) ~> (notified >= n \/ word # "SET" \/ ~up)
=============================================================================
