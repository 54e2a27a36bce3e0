---------------------------- MODULE ArmController -----------------------------
(***************************************************************************)
(* The controller of one arm (arm_control/control/arm_controller.py) as a  *)
(* record and its handlers as functions of it: a staged or running plan, a *)
(* live jog, a soft pose hold, ARM and what the plant's health says of it. *)
(*                                                                         *)
(* Geometry is left out.  Whether a plan passes its policy, a leg settles, *)
(* a command is valid, an observation is stale, is an argument of the      *)
(* handler.  `out' is the outbox of events, `asks' the ARM and DISARM      *)
(* requests in order, `commands' whether motor commands wait in the outbox.*)
(***************************************************************************)
EXTENDS Naturals, Sequences

NoPlan == 0

NewController ==
  [armed |-> FALSE, bridge |-> FALSE, ready |-> FALSE, frozen |-> FALSE,
   stopped |-> FALSE, plan |-> NoPlan, running |-> FALSE, jog |-> FALSE,
   soft |-> FALSE, health |-> FALSE,
   out |-> <<>>, asks |-> <<>>, commands |-> FALSE]

Emit(c, k, e, ok) ==
  [c EXCEPT !.out = Append(@, [kind |-> k, plan |-> e, ok |-> ok])]

FinishLeg(c, ok) ==
  Emit([c EXCEPT !.running = FALSE, !.plan = NoPlan], "leg_result", c.plan, ok)

EndRunning(c) == IF c.running THEN FinishLeg(c, FALSE) ELSE c

\* Abort the leg and hold, still armed: `frozen' is cleared, `stopped' is not.
Cancel(c) ==
  [EndRunning(c) EXCEPT !.frozen = FALSE, !.plan = NoPlan, !.running = FALSE,
                        !.jog = FALSE, !.soft = FALSE]

DisarmReset(c) ==
  [EndRunning(c) EXCEPT !.plan = NoPlan, !.running = FALSE, !.ready = FALSE,
                        !.bridge = FALSE, !.jog = FALSE, !.soft = FALSE]

SetArm(c, a) ==
  [(IF c.armed /\ ~a THEN DisarmReset(c) ELSE c)
     EXCEPT !.armed = a, !.asks = Append(@, a)]

Stop(c) ==
  LET st == [c EXCEPT !.stopped = TRUE]
  IN IF c.stopped THEN c ELSE IF c.armed THEN SetArm(st, FALSE) ELSE st

Fault(c) == Stop(EndRunning(c))

\* on_plan: one leg at a time, never swapped under a running one.
OnPlan(c, e, fits) ==
  IF c.soft \/ c.stopped \/ c.frozen \/ c.running \/ ~c.health \/ ~fits
  THEN LET refused == Emit(c, "plan_staged", e, FALSE)
       IN IF c.soft \/ ~(c.stopped \/ c.frozen \/ c.running)
          THEN Emit(refused, "leg_result", e, FALSE)
          ELSE refused
  ELSE Emit([c EXCEPT !.plan = e], "plan_staged", e, TRUE)

\* Mutant: a released plan leaves the jog live.
ReleaseKeepsJog(c, e, fits) ==
  IF c.plan # e THEN c
  ELSE IF ~c.armed \/ ~c.ready THEN FinishLeg(c, FALSE)
  ELSE IF c.running THEN c
  ELSE IF ~fits \/ ~c.health THEN FinishLeg(c, FALSE)
  ELSE [c EXCEPT !.running = TRUE]

\* on_control(execute): start a staged plan.  A plan that is not the staged
\* one never runs.
Release(c, e, fits) ==
  IF c.plan # e THEN c
  ELSE IF ~c.armed \/ ~c.ready THEN FinishLeg(c, FALSE)
  ELSE IF c.running THEN c
  ELSE IF ~fits \/ ~c.health THEN FinishLeg(c, FALSE)
  ELSE [c EXCEPT !.jog = FALSE, !.running = TRUE]

JogRefused(c) == c.stopped \/ c.frozen \/ ~c.armed \/ ~c.ready \/ c.soft \/ c.running
SoftRefused(c) ==
  ~c.health \/ ~c.armed \/ ~c.ready \/ c.stopped \/ c.frozen \/ c.running \/ c.jog

SetGains(c) == IF c.soft \/ c.running THEN Cancel(c) ELSE c
SetPoseHold(c) == IF SoftRefused(c) THEN c ELSE [Cancel(c) EXCEPT !.soft = TRUE]

\* The observation is stale or faulted: whatever was to move is dropped.  (The
\* code skips the cancel of a paused controller with nothing to drop; such a
\* controller is not frozen either, so there the cancel changes nothing.)
Pause(c) == [Cancel(c) EXCEPT !.ready = FALSE]

\* on_motor_health.  `edge': the plant has just begun to hold on its own.
OnObserved(c, ok, edge) ==
  IF ~ok THEN Pause(c) ELSE IF edge /\ c.running THEN Cancel(c) ELSE c

OnPlantArmed(c, plantArmed) ==
  IF plantArmed /\ ~c.bridge /\ c.armed THEN [c EXCEPT !.bridge = TRUE]
  ELSE IF ~plantArmed /\ c.bridge /\ c.armed /\ ~c.stopped THEN Fault(c)
  ELSE c

OnHealth(c, ok, plantArmed, edge) ==
  OnPlantArmed(OnObserved([c EXCEPT !.health = ok], ok, edge), plantArmed)

\* on_motor_state after a gap, or with a value that is not finite.
OnStateGap(c) == IF c.stopped THEN c ELSE Pause(c)

Command(c) == [c EXCEPT !.commands = TRUE]

\* What one tick meets.  Of the leg: the streamed command had a gap, the leg
\* settles, its settling times out; or the jog expires.  Of the command: it
\* is sent, tracks too far off the measured pose, is invalid, or is lost at
\* the socket.
Streaming(c) == ~c.stopped /\ c.health /\ c.armed /\ (c.ready \/ c.bridge)

LegOutcomes(c) ==
  IF c.running THEN {"on", "gap", "settled", "timeout"}
  ELSE IF c.jog THEN {"on", "expired"} ELSE {"on"}

SendOutcomes == {"sent", "tracking", "invalid", "lost"}

Advance(c, leg) ==
  CASE leg = "gap" -> Cancel(c)
    [] leg = "settled" -> FinishLeg(c, TRUE)
    [] leg = "timeout" -> [FinishLeg(c, FALSE) EXCEPT !.frozen = TRUE]
    [] leg = "expired" -> [c EXCEPT !.jog = FALSE]
    [] OTHER -> c

Send(c, send) ==
  CASE send = "invalid" -> Fault(c)
    [] send = "tracking" /\ ~c.soft -> Command(Cancel(c))
    [] send = "lost" -> c
    [] OTHER -> Command(c)

Tick(c, stale, leg, send) ==
  IF c.stopped THEN c
  ELSE IF ~c.health \/ stale THEN Pause(c)
  ELSE IF ~Streaming(c) THEN c
  ELSE Send(Advance([c EXCEPT !.ready = TRUE], leg), send)
=============================================================================
