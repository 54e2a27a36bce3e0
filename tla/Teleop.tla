------------------------------- MODULE Teleop --------------------------------
(***************************************************************************)
(* Leader-follower teleoperation of one supervised arm: the teleop node    *)
(* (leader_follower/node.py, loop.py, safety.py, dora_feedback.py and the  *)
(* Dora follower), the arm's controller node (supervisor/dora_arm.py with  *)
(* AsyncAuthorityHandle of multi_arm/supervised.py), and what they can     *)
(* tell of the supervisor behind it: its queue of calls, ARM, and the jog  *)
(* with its deadman (control/jog_hold.py).                                 *)
(*                                                                         *)
(* The two nodes exchange Dora messages: one queue per topic, in order     *)
(* within a topic and in any order between topics.  Time is kept as ages   *)
(* that stop counting once past the timeout they are compared with; the    *)
(* loop compares what the ages were when its tick began.                   *)
(***************************************************************************)
EXTENDS Naturals, Sequences

CONSTANTS
  FeedbackTimeout,  \* feedback_timeout_s, in clock steps
  LeaderTimeout,    \* leader_timeout_s
  TrackHold,        \* track_err_hold_s
  JogTimeout,       \* jog_timeout_s of the controller
  CollisionEvery,   \* collision_every_n
  JogQueue,         \* queue size of the jog topic; the oldest is dropped
  MaxUpsets         \* bound on failures, crashes, lost channels and STOPs

ASSUME TeleopAssumption ==
  /\ {FeedbackTimeout, LeaderTimeout, TrackHold, JogTimeout, MaxUpsets} \subseteq Nat
  /\ {CollisionEvery, JogQueue} \subseteq Nat \ {0}

VARIABLES
  tele,     \* the teleop node: where it is, jogs sent after bad news
  mon,      \* its SafetyMonitor
  fb,       \* its DoraFollowerFeedback
  inbox,    \* what waits for it: state, health, fault event, STOP
  control,  \* the control topic, towards the bridge
  jogs,     \* how many jogs wait for the bridge
  bridge,   \* the bridge: running or not, its authority requests
  calls,    \* the supervisor's queued calls of the bridge's session
  arm,      \* the supervisor: ARM, a fault, a live jog
  age,      \* since: feedback taken, tick begun, tracking error begun, jog renewed
  off,      \* whether the arm is far from its target
  upsets    \* failures so far

teleVars == <<tele, mon, fb, inbox>>
bridgeVars == <<bridge, calls, arm>>
teleopVars == <<teleVars, control, jogs, bridgeVars, age, off, upsets>>

TeleOver == {"exit", "failed", "crashed"}
Pcs == {"prime", "open", "align", "top", "read", "feedback", "stopping", "closing"}
         \cup TeleOver
Controls == {"arm", "cancel", "cancelDisarm"}
NoHealth == [some |-> FALSE, armed |-> FALSE, fault |-> FALSE]
Caps == [fb |-> FeedbackTimeout + 1, track |-> TrackHold + 1, jog |-> JogTimeout + 1,
         tick |-> IF LeaderTimeout < TrackHold THEN TrackHold + 1 ELSE LeaderTimeout + 1]

TeleopTypeOK ==
  /\ tele \in [pc : Pcs, blind : 0..2]
  /\ mon \in [leader : BOOLEAN, tick : 0..(CollisionEvery - 1),
              track : BOOLEAN,
              now : [fb : 0..Caps.fb, tick : 0..Caps.tick, track : 0..Caps.track]]
  /\ fb \in [q : BOOLEAN, armed : {"unknown", "yes", "no"}, fault : BOOLEAN,
             event : BOOLEAN, stopped : BOOLEAN]
  /\ inbox \in [state : BOOLEAN, event : BOOLEAN, stop : BOOLEAN,
                health : [some : BOOLEAN, armed : BOOLEAN, fault : BOOLEAN]]
  /\ control \in Seq(Controls) /\ jogs \in 0..JogQueue
  /\ bridge \in [st : {"up", "stopping", "lost", "gone"}, fault : BOOLEAN, stop : BOOLEAN,
                 pend : Seq([arm : BOOLEAN, st : {"queued", "running", "ok", "failed",
                                                  "cancelled"}]),
                 open : BOOLEAN, unreleased : BOOLEAN]
  /\ calls \in Seq({"jog", "hold", "arm", "disarm"})
  /\ arm \in [armed : BOOLEAN, fault : BOOLEAN, jog : BOOLEAN]
  /\ age \in [fb : 0..Caps.fb, tick : 0..Caps.tick, track : 0..Caps.track,
              jog : 0..Caps.jog]
  /\ off \in BOOLEAN /\ upsets \in 0..MaxUpsets

NoTime == [fb |-> 0, tick |-> 0, track |-> 0]
NewMonitor ==
  [leader |-> FALSE, tick |-> 0, track |-> FALSE, now |-> NoTime]
NewFeedback ==
  [q |-> FALSE, armed |-> "unknown", fault |-> FALSE, event |-> FALSE, stopped |-> FALSE]
EmptyInbox == [state |-> FALSE, event |-> FALSE, stop |-> FALSE, health |-> NoHealth]

\* DoraArmBridge.start claims and never ARMs.
TeleopInit ==
  /\ tele = [pc |-> "prime", blind |-> 0]
  /\ mon = NewMonitor /\ fb = NewFeedback /\ inbox = EmptyInbox
  /\ control = <<>> /\ jogs = 0
  /\ bridge = [st |-> "up", fault |-> FALSE, stop |-> FALSE, pend |-> <<>>,
               open |-> TRUE, unreleased |-> FALSE]
  /\ calls = <<>>
  /\ arm = [armed |-> FALSE, fault |-> FALSE, jog |-> FALSE]
  /\ age = [fb |-> 0, tick |-> 0, track |-> 0, jog |-> 0]
  /\ off = FALSE /\ upsets = 0

Upset == upsets < MaxUpsets /\ upsets' = upsets + 1
TeleAt(pc) == tele.pc = pc

\* The node leaves its loop: what it remembered and what waits for it is not
\* looked at again.
Gone(pc) ==
  /\ tele' = [pc |-> pc, blind |-> 0]
  /\ mon' = NewMonitor /\ fb' = NewFeedback /\ inbox' = EmptyInbox
  /\ age' = [fb |-> 0, tick |-> 0, track |-> 0, jog |-> age.jog]

-----------------------------------------------------------------------------
(* DoraFollowerFeedback.                                                   *)

\* handle: what one pending message does; the arrival is stamped when it is
\* taken from the queue, not when it was put there.
WithHealth(f, h) ==
  IF h.some THEN [f EXCEPT !.armed = IF h.armed THEN "yes" ELSE "no", !.fault = h.fault]
  ELSE f
WithEvent(f, e) == IF e THEN [f EXCEPT !.event = TRUE] ELSE f
WithState(f, s) == IF s THEN [f EXCEPT !.q = TRUE] ELSE f

\* drain: everything pending, but nothing behind a STOP.
Drained == IF inbox.stop THEN [fb EXCEPT !.stopped = TRUE]
           ELSE WithState(WithEvent(WithHealth(fb, inbox.health), inbox.event), inbox.state)
Emptied == IF inbox.stop THEN [inbox EXCEPT !.stop = FALSE]
           ELSE EmptyInbox

\* Mutant: the stamp is the time of the call, whether or not anything came.
StampedAlways == TRUE
Stamped == inbox.state /\ ~inbox.stop

\* What check_feedback will find wrong with a sample, whatever its age.
Bad(f) == f.stopped \/ f.event \/ f.fault \/ f.armed = "no"

-----------------------------------------------------------------------------
(* The teleop node, to the start of its loop.                              *)

\* prime: messages are handled one at a time until the first motor_state or
\* a STOP.
PrimeTakes ==
  /\ TeleAt("prime") /\ ~fb.q /\ ~fb.stopped
  /\ \/ inbox.stop /\ fb' = [fb EXCEPT !.stopped = TRUE]
                   /\ inbox' = [inbox EXCEPT !.stop = FALSE] /\ age' = age
     \/ inbox.state /\ fb' = WithState(fb, TRUE)
                    /\ inbox' = [inbox EXCEPT !.state = FALSE] /\ age' = [age EXCEPT !.fb = 0]
     \/ inbox.event /\ fb' = WithEvent(fb, TRUE)
                    /\ inbox' = [inbox EXCEPT !.event = FALSE] /\ age' = age
     \/ inbox.health.some /\ fb' = WithHealth(fb, inbox.health)
                          /\ inbox' = [inbox EXCEPT !.health = NoHealth] /\ age' = age
  /\ UNCHANGED <<tele, mon, control, jogs, bridgeVars, off, upsets>>

\* It returns once there is a pose, or at a STOP; a timeout raises.
PrimeEnds ==
  /\ TeleAt("prime") /\ (fb.q \/ fb.stopped)
  /\ tele' = [tele EXCEPT !.pc = "open"]
  /\ UNCHANGED <<mon, fb, inbox, control, jogs, bridgeVars, age, off, upsets>>

PrimeTimesOut ==
  /\ TeleAt("prime") /\ ~fb.q /\ ~fb.stopped
  /\ Gone("failed")
  /\ UNCHANGED <<control, jogs, bridgeVars, off, upsets>>

\* DoraJogFollower.open with auto_arm.
Open ==
  /\ TeleAt("open")
  /\ tele' = [tele EXCEPT !.pc = "align"]
  /\ control' = Append(control, "arm")
  /\ UNCHANGED <<mon, fb, inbox, jogs, bridgeVars, age, off, upsets>>

\* _startup_align: the leader, then the arm's pose (zeros if none was ever
\* received).  It runs before run()'s try: an error here closes nothing.
Align ==
  /\ TeleAt("align")
  /\ tele' = [tele EXCEPT !.pc = "top"]
  /\ fb' = Drained /\ inbox' = Emptied
  /\ age' = [age EXCEPT !.fb = IF Stamped THEN 0 ELSE @]
  /\ UNCHANGED <<mon, control, jogs, bridgeVars, off, upsets>>

AlignFails ==
  /\ TeleAt("align") /\ Upset
  /\ Gone("failed")
  /\ UNCHANGED <<control, jogs, bridgeVars, off>>

-----------------------------------------------------------------------------
(* One tick of TeleopLoop.run and once.                                    *)

\* The top of the loop: `now' is read here, and every stamp of the tick is it.
Top ==
  /\ TeleAt("top")
  /\ tele' = [tele EXCEPT !.pc = "read"]
  /\ mon' = [mon EXCEPT !.now = [fb |-> age.fb, tick |-> age.tick, track |-> age.track]]
  /\ age' = [age EXCEPT !.tick = 0]
  /\ UNCHANGED <<fb, inbox, control, jogs, bridgeVars, off, upsets>>

\* request_stop, or the duration is over: nothing but the finally clause.
Ends ==
  /\ TeleAt("top") /\ Upset
  /\ Gone("closing")
  /\ UNCHANGED <<control, jogs, bridgeVars, off>>

\* check_leader: the gap since the last tick that had a leader.
LeaderLate == mon.leader /\ mon.now.tick > LeaderTimeout

Due == (mon.tick + 1) % CollisionEvery = 0

\* A topic's queue drops its oldest message to take one more.
Enqueued(n) == IF n < JogQueue THEN n + 1 ELSE n

\* once, up to the feedback: the leader is read, check_and_clamp_target passes
\* the target, and DoraJogFollower.send sends it (the gripper goes to the
\* hand's own node).  The distance is asked for on every CollisionEvery-th
\* target only.  (The slower speed of the warning zone is left out.)
SendTarget ==
  /\ TeleAt("read") /\ ~LeaderLate
  /\ tele' = [tele EXCEPT !.pc = "feedback", !.blind = IF Bad(fb) /\ @ < 2 THEN @ + 1 ELSE @]
  /\ mon' = [mon EXCEPT !.leader = TRUE, !.tick = (@ + 1) % CollisionEvery]
  /\ jogs' = Enqueued(jogs)
  /\ UNCHANGED <<fb, inbox, control, bridgeVars, age, off, upsets>>

\* A SafetyStop on the way: the leader's gap or its values, limits, a jump,
\* the distance.  A leader read that raises leaves run() by its finally clause.
StopTarget ==
  /\ TeleAt("read")
  /\ \/ (LeaderLate \/ Due) /\ Gone("stopping") /\ upsets' = upsets
     \/ ~LeaderLate /\ Upset /\ (Gone("stopping") \/ Gone("closing"))
  /\ UNCHANGED <<control, jogs, bridgeVars, off>>

\* The tracking error's part of check_feedback: when it began is kept until
\* it is small again.
Tracking(m, far) == [m EXCEPT !.track = far]

\* Mutant: only faults stop the loop, a DISARM does not.
VerdictFaultOnly(f) == f.stopped \/ f.event \/ f.fault
Verdict(f) == Bad(f)

\* sample and check_feedback.  A new state is younger than `now'.
Feedback ==
  /\ TeleAt("feedback")
  /\ LET old == IF Stamped THEN 0 ELSE mon.now.fb
         late == Tracking(mon, off).track /\ mon.track
                   /\ Tracking(mon, off).now.track > TrackHold
     IN IF ~Drained.q \/ old > FeedbackTimeout \/ Verdict(Drained) \/ late
        THEN Gone("stopping")
        ELSE /\ tele' = [tele EXCEPT !.pc = "top"]
             /\ fb' = Drained /\ inbox' = Emptied
             /\ mon' = [Tracking(mon, off) EXCEPT !.now = NoTime]
             /\ age' = [age EXCEPT !.fb = IF Stamped THEN 0 ELSE @,
                                   !.track = IF ~off THEN 0 ELSE IF mon.track THEN @
                                             ELSE IF age.tick > TrackHold THEN TrackHold + 1
                                             ELSE age.tick]
  /\ UNCHANGED <<control, jogs, bridgeVars, off, upsets>>

\* _read_feedback turns an error of the read into a faulted sample.
FeedbackFails ==
  /\ TeleAt("feedback") /\ Upset
  /\ Gone("stopping")
  /\ UNCHANGED <<control, jogs, bridgeVars, off>>

\* A SafetyStop (or Ctrl-C): safe_stop, and the finally clause.
SafeStop ==
  /\ TeleAt("stopping")
  /\ Gone("exit")
  /\ control' = control \o <<"cancel", "cancelDisarm">>
  /\ UNCHANGED <<jogs, bridgeVars, off, upsets>>

\* The finally clause of run(): DoraJogFollower.close.
Close ==
  /\ TeleAt("closing")
  /\ Gone("exit")
  /\ control' = Append(control, "cancelDisarm")
  /\ UNCHANGED <<jogs, bridgeVars, off, upsets>>

-----------------------------------------------------------------------------
(* AsyncAuthorityHandle: one worker, requests in order.                    *)

Pending(p) == SelectSeq(p, LAMBDA r : r.st \in {"queued", "running"})
Reaped(b) ==
  LET done == SelectSeq(b.pend, LAMBDA r : r.st \in {"ok", "failed"})
  IN [b EXCEPT !.pend = Pending(@),
               !.fault = IF done = <<>> THEN @ ELSE done[Len(done)].st = "failed"]
Request(want) == [arm |-> want, st |-> "queued"]

\* Mutant: a DISARM is refused while an ARM is pending, as an ARM is.
SetArmedWaits(b, want) ==
  LET r == Reaped(b) IN
  IF r.pend # <<>> THEN r ELSE [r EXCEPT !.pend = Append(@, Request(want))]

\* set_armed: an ARM is refused while anything is pending; a DISARM joins one
\* in flight, voids the queued ARMs and follows the running one.
SetArmed(b, want) ==
  LET r == Reaped(b) IN
  IF want /\ r.pend # <<>> THEN r
  ELSE IF ~want /\ \E i \in DOMAIN r.pend : ~r.pend[i].arm THEN r
  ELSE [r EXCEPT !.pend = Append(SelectSeq(@, LAMBDA x : want \/ x.st = "running"),
                                 Request(want))]

\* The worker hands the oldest request not yet served to the supervisor.
WorkerBegins ==
  /\ \E i \in DOMAIN bridge.pend :
       /\ bridge.pend[i].st = "queued"
       /\ \A j \in 1..(i - 1) : bridge.pend[j].st \notin {"queued", "running"}
       /\ bridge' = [bridge EXCEPT !.pend[i].st = IF bridge.open THEN "running" ELSE "failed"]
       /\ calls' = IF ~bridge.open THEN calls
                   ELSE Append(calls, IF bridge.pend[i].arm THEN "arm" ELSE "disarm")
  /\ UNCHANGED <<teleVars, control, jogs, arm, age, off, upsets>>

-----------------------------------------------------------------------------
(* The bridge.                                                             *)

\* An SDK call of the bridge's own thread: it waits for the one before it, or
\* that one times out and stays queued.
MayCall ==
  \/ (\A i \in DOMAIN calls : calls[i] \notin {"jog", "hold"}) /\ upsets' = upsets
  \/ (\E i \in DOMAIN calls : calls[i] \in {"jog", "hold"}) /\ Upset

\* on_control: ARM or DISARM first, then the cancel.  A cancel without a
\* DISARM also asks the supervisor to hold.
TakesControl ==
  /\ bridge.st = "up" /\ control # <<>> /\ MayCall
  /\ control' = Tail(control)
  /\ bridge' = CASE Head(control) = "arm" -> SetArmed(bridge, TRUE)
                 [] Head(control) = "cancel" -> bridge
                 [] Head(control) = "cancelDisarm" -> SetArmed(bridge, FALSE)
  /\ calls' = IF Head(control) = "cancel" /\ bridge.open THEN Append(calls, "hold") ELSE calls
  /\ UNCHANGED <<teleVars, jogs, arm, age, off>>

\* on_jog: a setpoint; refused or unanswered, the bridge only says so.
TakesJog ==
  /\ bridge.st = "up" /\ jogs > 0 /\ MayCall
  /\ jogs' = jogs - 1
  /\ calls' = IF bridge.open THEN Append(calls, "jog") ELSE calls
  /\ UNCHANGED <<teleVars, control, bridge, arm, age, off>>

\* A topic keeps its newest message; a node that is over receives nothing.
Received(m) ==
  IF tele.pc \in TeleOver \cup {"stopping", "closing"} THEN inbox
  ELSE [x \in DOMAIN inbox |-> IF x \in DOMAIN m THEN m[x] ELSE inbox[x]]

\* pump and _publish_health, _publish_motor_state.
Publishes ==
  /\ bridge.st = "up" /\ bridge.open
  /\ bridge' = Reaped(bridge)
  /\ inbox' = Received([state |-> TRUE,
       health |-> [some |-> TRUE, armed |-> arm.armed, fault |-> arm.fault \/ bridge'.fault]])
  /\ UNCHANGED <<tele, mon, fb, control, jogs, calls, arm, age, off, upsets>>

\* _lose: the supervisor cannot be read; terminal.
Loses ==
  /\ bridge.st = "up" /\ ~bridge.open
  /\ bridge' = [bridge EXCEPT !.st = "lost"]
  /\ inbox' = Received([event |-> TRUE,
                         health |-> [some |-> TRUE, armed |-> FALSE, fault |-> TRUE]])
  /\ UNCHANGED <<tele, mon, fb, control, jogs, calls, arm, age, off, upsets>>

\* A STOP, or a signal: leave the arm DISARMED.
BridgeStops ==
  /\ bridge.st = "up" /\ bridge.stop
  /\ bridge' = [SetArmed(bridge, FALSE) EXCEPT !.st = "stopping"]
  /\ UNCHANGED <<teleVars, control, jogs, calls, arm, age, off, upsets>>

\* handle.close waits for the worker; then the session ends, or, after a loss,
\* release_after_loss DISARMs through a new one.
BridgeEnds ==
  /\ bridge.st \in {"stopping", "lost"} /\ Pending(bridge.pend) = <<>>
  /\ \/ /\ bridge.st = "stopping" /\ arm' = [arm EXCEPT !.jog = FALSE]
        /\ bridge' = [bridge EXCEPT !.st = "gone"] /\ upsets' = upsets
     \/ /\ bridge.st = "lost" /\ arm' = [arm EXCEPT !.jog = FALSE, !.armed = FALSE]
        /\ bridge' = [bridge EXCEPT !.st = "gone"] /\ upsets' = upsets
     \/ /\ bridge.st = "lost" /\ Upset /\ arm' = arm
        /\ bridge' = [bridge EXCEPT !.st = "gone", !.unreleased = TRUE]
  /\ calls' = <<>>
  /\ UNCHANGED <<teleVars, control, jogs, age, off>>

-----------------------------------------------------------------------------
(* The supervisor, the clock and what goes wrong.                          *)

Answer(b, st) ==
  [b EXCEPT !.pend = [i \in DOMAIN @ |->
                        IF @[i].st = "running" THEN [@[i] EXCEPT !.st = st] ELSE @[i]]]

\* RobotRuntime._setpoint and JogHold.set.
Setpoint(a) == IF a.armed THEN [a EXCEPT !.jog = TRUE] ELSE a

\* The supervisor's loop performs the next call.  An ARM may fail.
Performs ==
  /\ calls # <<>> /\ calls' = Tail(calls)
  /\ LET op == Head(calls) IN
     \/ op = "jog" /\ arm' = Setpoint(arm) /\ bridge' = bridge /\ upsets' = upsets
          /\ age' = [age EXCEPT !.jog = IF arm.armed THEN 0 ELSE @]
     \/ op = "hold" /\ arm' = [arm EXCEPT !.jog = FALSE]
          /\ UNCHANGED <<bridge, age, upsets>>
     \/ op = "arm" /\ arm' = [arm EXCEPT !.armed = TRUE, !.fault = FALSE]
          /\ bridge' = Answer(bridge, "ok") /\ UNCHANGED <<age, upsets>>
     \/ op = "arm" /\ Upset /\ arm' = arm /\ bridge' = Answer(bridge, "failed")
          /\ age' = age
     \/ op = "disarm" /\ arm' = [arm EXCEPT !.armed = FALSE, !.jog = FALSE]
          /\ bridge' = Answer(bridge, "ok") /\ UNCHANGED <<age, upsets>>
  /\ UNCHANGED <<teleVars, control, jogs, off>>

\* Mutant: the deadman is off.
JogExpiresNever == arm.jog /\ FALSE
\* JogHold.target: a setpoint not renewed is dropped, once.
JogExpires == arm.jog /\ age.jog > JogTimeout

ControllerTick ==
  /\ JogExpires /\ arm' = [arm EXCEPT !.jog = FALSE]
  /\ UNCHANGED <<teleVars, control, jogs, bridge, calls, age, off, upsets>>

\* The ages somebody will compare.
Counts == (IF arm.jog THEN {"jog"} ELSE {}) \cup (IF mon.track THEN {"track"} ELSE {})
            \cup (IF fb.q THEN {"fb"} ELSE {})
            \cup (IF tele.pc \in {"top", "read", "feedback"} THEN {"tick"} ELSE {})
Ageing == {x \in Counts : age[x] < Caps[x]}

Passes ==
  /\ Ageing # {}
  /\ age' = [x \in DOMAIN age |-> IF x \in Ageing THEN age[x] + 1 ELSE age[x]]
  /\ UNCHANGED <<teleVars, control, jogs, bridgeVars, off, upsets>>

\* The arm falls behind its target, or catches up.
Drifts ==
  /\ TeleAt("read") /\ off' = ~off
  /\ UNCHANGED <<teleVars, control, jogs, bridgeVars, age, upsets>>

Faulted ==
  /\ Upset /\ arm' = [armed |-> FALSE, fault |-> TRUE, jog |-> FALSE]
  /\ UNCHANGED <<teleVars, control, jogs, bridge, calls, age, off>>

\* The channel is lost: the supervisor drops the session's calls and holds
\* (_owner_lost), still armed.
ChannelLost ==
  /\ bridge.open /\ bridge.st # "gone" /\ Upset
  /\ bridge' = [Answer(bridge, "failed") EXCEPT !.open = FALSE]
  /\ calls' = <<>> /\ arm' = [arm EXCEPT !.jog = FALSE]
  /\ UNCHANGED <<teleVars, control, jogs, age, off>>

\* The bridge dies.  Its session ends with it as above; nobody is told.
BridgeCrashes ==
  /\ bridge.st # "gone" /\ Upset
  /\ bridge' = [bridge EXCEPT !.st = "gone", !.pend = <<>>, !.open = FALSE, !.unreleased = TRUE]
  /\ calls' = <<>> /\ arm' = [arm EXCEPT !.jog = FALSE]
  /\ UNCHANGED <<teleVars, control, jogs, age, off>>

\* Dora stops the graph: both nodes are told.
GraphStops ==
  /\ Upset /\ ~inbox.stop /\ ~bridge.stop
  /\ inbox' = Received([stop |-> TRUE]) /\ bridge' = [bridge EXCEPT !.stop = TRUE]
  /\ UNCHANGED <<tele, mon, fb, control, jogs, calls, arm, age, off>>

Crashes ==
  /\ tele.pc \notin TeleOver /\ Upset /\ Gone("crashed")
  /\ UNCHANGED <<control, jogs, bridgeVars, off>>

Loop == Top \/ SendTarget \/ StopTarget \/ Feedback \/ SafeStop \/ Close
Start == PrimeTakes \/ PrimeEnds \/ PrimeTimesOut \/ Open \/ Align \/ AlignFails
Bridge == TakesControl \/ TakesJog \/ Publishes \/ Loses \/ BridgeStops \/ BridgeEnds

TeleopNext ==
  \/ Start \/ Loop \/ Ends \/ FeedbackFails
  \/ Bridge \/ WorkerBegins \/ Performs \/ ControllerTick \/ Passes \/ Drifts
  \/ Faulted \/ ChannelLost \/ BridgeCrashes \/ GraphStops \/ Crashes

TeleopSpec == TeleopInit /\ [][TeleopNext]_teleopVars

\* Both nodes run, the bridge takes what its topics hold, the worker and
\* the supervisor's loop run, and time passes.  The bridge need not publish
\* often, and nothing that goes wrong need happen.
TeleopFair ==
  /\ WF_teleopVars(Open) /\ WF_teleopVars(Align) /\ WF_teleopVars(Loop)
  /\ WF_teleopVars(TakesControl \/ TakesJog)
  /\ WF_teleopVars(Loses \/ BridgeEnds) /\ WF_teleopVars(WorkerBegins)
  /\ WF_teleopVars(Performs) /\ WF_teleopVars(ControllerTick)
  /\ WF_teleopVars(Passes)

TeleopFairSpec == TeleopSpec /\ TeleopFair

-----------------------------------------------------------------------------
TeleopIsOver == tele.pc \in TeleOver

(* At most one jog is sent after the node knows that something is wrong -  *)
(* a fault, a DISARM, a STOP: the target goes out before the feedback of   *)
(* its tick is looked at (loop.py once), and the tick after never comes.   *)
BlindAtMostOnce == tele.blind <= 1

(* Not sending is the stop: once the teleop node is over, however it ended *)
(* and whatever it left in the queues, the arm ends up with no jog for     *)
(* good (jog_hold.py, the deadman).                                        *)
DeadmanStops == []((TeleopIsOver) => <>[](~arm.jog))

(* Closing the node DISARMs the arm, also when it closes while its own ARM *)
(* is still under way, or the bridge loses its channel on the way; the     *)
(* ways out are a bridge that dies and one that cannot reach the           *)
(* supervisor again                                                        *)
(* (leader_teleop_franka.yml; AsyncAuthorityHandle; release_after_loss).   *)
CloseDisarms == (tele.pc = "exit") ~> (~arm.armed \/ bridge.unreleased)

(* A bridge that is gone silences the feedback, and the silence ends the   *)
(* loop, though every tick is handed the last sample again                 *)
(* (safety.py check_feedback).                                             *)
SilenceStops == (bridge.st = "gone") ~> (TeleopIsOver \/ tele.pc = "prime")

=============================================================================
