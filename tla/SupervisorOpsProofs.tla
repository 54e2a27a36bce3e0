------------------------- MODULE SupervisorOpsProofs -------------------------
(***************************************************************************)
(* What each operation of the supervisor's loop (Supervisor) does to the   *)
(* record of its state, for every bound, every number of clients and every *)
(* scene: the lemmas that SupervisorProofs rests on.                       *)
(***************************************************************************)
EXTENDS Supervisor, FiniteSetTheorems, SequenceTheorems, TLAPS

-----------------------------------------------------------------------------
(* The types.                                                              *)

Events == [kind : {"leg_result", "plan_staged"}, plan : 0..MaxExec, ok : BOOLEAN]
Ctls == [armed : BOOLEAN, bridge : BOOLEAN, ready : BOOLEAN, frozen : BOOLEAN,
         stopped : BOOLEAN, plan : 0..MaxExec, running : BOOLEAN, jog : BOOLEAN,
         soft : BOOLEAN, health : BOOLEAN, out : Seq(Events), asks : Seq(BOOLEAN),
         commands : BOOLEAN]

\* The event that ends a leg.
Leg(e, ok) == [kind |-> "leg_result", plan |-> e, ok |-> ok]

-----------------------------------------------------------------------------
(* The controller.                                                         *)

\* One source of motion, and what keeps it so.
OneSource(c) ==
  /\ ~(c.running /\ c.jog) /\ ~(c.jog /\ c.soft)
  /\ c.running => c.plan # 0 /\ c.armed
  /\ c.soft => c.plan = 0

\* What a handler does that starts nothing: the plan stays as it is, or is
\* dropped, with an event if it was running; at most one DISARM is asked for.
Kept(c, d) == d.plan = c.plan /\ d.running = c.running /\ d.out = c.out
Dropped(c, d) == d.plan = 0 /\ ~d.running /\ ~c.running /\ d.out = c.out
Finished(c, d) ==
  /\ d.plan = 0 /\ ~d.running /\ c.running
  /\ \E ok \in BOOLEAN : d.out = Append(c.out, Leg(c.plan, ok))
Asked(c, d) ==
  \/ d.asks = c.asks /\ d.armed = c.armed
  \/ d.asks = Append(c.asks, FALSE) /\ ~d.armed

Eases(c, d) ==
  /\ d \in Ctls
  /\ (d.jog => c.jog) /\ (d.soft => c.soft)
  /\ Kept(c, d) \/ Dropped(c, d) \/ Finished(c, d)
  /\ Asked(c, d)
  /\ d.stopped => c.stopped \/ ~d.armed
  /\ d.running /\ c.armed => d.armed

\* The same, with nothing asked for.
Rests(c, d) ==
  Eases(c, d) /\ d.asks = c.asks /\ d.armed = c.armed /\ d.stopped = c.stopped

(* The bounds are numbers.                                                 *)
LEMMA Bounds == MaxExec \in Nat /\ MaxArm \in Nat /\ 0 \in 0..MaxExec /\ None \in Int
BY SupervisorAssumption DEF None

(* The outbox with one event more.                                         *)
LEMMA Emitted ==
  ASSUME NEW c \in Ctls, NEW x \in Events
  PROVE  Append(c.out, x) \in Seq(Events)
<1>1. c.out \in Seq(Events)
  BY DEF Ctls
<1> QED
  BY <1>1

(* _finish_leg: the event names the plan, and the plan is gone.            *)
LEMMA FinishLegEases ==
  ASSUME NEW c \in Ctls, c.running, NEW ok \in BOOLEAN
  PROVE  Rests(c, C!FinishLeg(c, ok)) /\ Finished(c, C!FinishLeg(c, ok))
<1>1. Leg(c.plan, ok) \in Events
  BY DEF Leg, Events, Ctls
<1>2. C!FinishLeg(c, ok) = [c EXCEPT !.running = FALSE, !.plan = 0,
                                     !.out = Append(c.out, Leg(c.plan, ok))]
  BY DEF C!FinishLeg, C!Emit, C!NoPlan, Leg, Ctls
<1> HIDE DEF Leg
<1>3. Append(c.out, Leg(c.plan, ok)) \in Seq(Events)
  BY <1>1, Emitted
<1>4. C!FinishLeg(c, ok) \in Ctls
  BY <1>2, <1>3, Bounds DEF Ctls
<1> QED
  BY <1>2, <1>4 DEF Rests, Eases, Finished, Asked, Ctls

(* cancel: whatever was to move is dropped, and nothing is asked for.      *)
LEMMA CancelRests ==
  ASSUME NEW c \in Ctls
  PROVE  /\ Rests(c, C!Cancel(c))
         /\ C!Cancel(c).plan = 0 /\ ~C!Cancel(c).jog /\ ~C!Cancel(c).soft
         /\ ~C!Cancel(c).running
<1>1. CASE c.running
  <2> DEFINE f == C!FinishLeg(c, FALSE)
  <2>1. /\ Rests(c, f) /\ Finished(c, f)
    BY <1>1, FinishLegEases
  <2>2. C!Cancel(c) = [f EXCEPT !.frozen = FALSE, !.plan = 0, !.running = FALSE,
                                !.jog = FALSE, !.soft = FALSE]
    BY <1>1 DEF C!Cancel, C!EndRunning, C!NoPlan
  <2> HIDE DEF f
  <2>3. f \in Ctls
    BY <2>1 DEF Rests, Eases
  <2>4. /\ C!Cancel(c) \in Ctls
        /\ C!Cancel(c).plan = 0 /\ ~C!Cancel(c).running /\ ~C!Cancel(c).jog
        /\ ~C!Cancel(c).soft /\ C!Cancel(c).out = f.out /\ C!Cancel(c).asks = f.asks
        /\ C!Cancel(c).armed = f.armed /\ C!Cancel(c).stopped = f.stopped
    BY <2>2, <2>3, Bounds DEF Ctls
  <2> QED
    BY <1>1, <2>1, <2>4 DEF Rests, Eases, Finished, Asked
<1>2. CASE ~c.running
  <2>1. C!Cancel(c) = [c EXCEPT !.frozen = FALSE, !.plan = 0, !.running = FALSE,
                                !.jog = FALSE, !.soft = FALSE]
    BY <1>2 DEF C!Cancel, C!EndRunning, C!NoPlan
  <2> QED
    BY <1>2, <2>1, Bounds DEF Rests, Eases, Dropped, Asked, Ctls
<1> QED
  BY <1>1, <1>2

(* One handler after another that asks for nothing.                        *)
LEMMA RestsThen ==
  ASSUME NEW c \in Ctls, NEW d, NEW e, Rests(c, d), Eases(d, e)
  PROVE  Eases(c, e) /\ (Rests(d, e) => Rests(c, e))
<1>1. d \in Ctls /\ e \in Ctls
  BY DEF Rests, Eases
<1>2. (e.jog => c.jog) /\ (e.soft => c.soft)
  BY DEF Rests, Eases
<1>3. Asked(c, e)
  BY DEF Rests, Eases, Asked
<1>4. e.stopped => c.stopped \/ ~e.armed
  BY DEF Rests, Eases, Asked
<1>6. e.running /\ c.armed => e.armed
  BY DEF Rests, Eases
<1>5. Kept(c, e) \/ Dropped(c, e) \/ Finished(c, e)
  <2>1. CASE Kept(c, d)
    BY <2>1 DEF Eases, Kept, Dropped, Finished
  <2>2. CASE Dropped(c, d)
    BY <2>2 DEF Eases, Kept, Dropped, Finished
  <2>3. CASE Finished(c, d)
    BY <2>3 DEF Eases, Kept, Dropped, Finished
  <2> QED
    BY <2>1, <2>2, <2>3 DEF Rests, Eases
<1> QED
  BY <1>1, <1>2, <1>3, <1>4, <1>5, <1>6 DEF Rests, Eases

(* Nothing done.                                                           *)
LEMMA Itself ==
  ASSUME NEW c \in Ctls
  PROVE  Rests(c, c)
BY DEF Rests, Eases, Kept, Asked

(* A running leg is ended, and nothing is asked for.                       *)
LEMMA EndRunningRests ==
  ASSUME NEW c \in Ctls
  PROVE  /\ Rests(c, C!EndRunning(c)) /\ ~C!EndRunning(c).running
         /\ C!EndRunning(c).stopped = c.stopped
<1>1. CASE c.running
  <2>1. C!EndRunning(c) = C!FinishLeg(c, FALSE)
    BY <1>1 DEF C!EndRunning
  <2>2. C!FinishLeg(c, FALSE).stopped = c.stopped
    BY DEF C!FinishLeg, C!Emit, Ctls
  <2> QED
    BY <1>1, <2>1, <2>2, FinishLegEases DEF Finished
<1>2. CASE ~c.running
  BY <1>2, Itself DEF C!EndRunning
<1> QED
  BY <1>1, <1>2

(* What is dropped with nothing asked for, when the rest of the record     *)
(* changes where only flags are.                                           *)
LEMMA DisarmEases ==
  ASSUME NEW c \in Ctls
  PROVE  /\ Eases(c, C!SetArm(c, FALSE))
         /\ C!SetArm(c, FALSE).asks = Append(c.asks, FALSE)
         /\ ~C!SetArm(c, FALSE).armed
         /\ C!SetArm(c, FALSE).stopped = c.stopped
<1> DEFINE d == C!EndRunning(c)
<1>1. Rests(c, d) /\ ~d.running /\ d \in Ctls /\ d.stopped = c.stopped
  BY EndRunningRests DEF Rests, Eases
<1>2. Append(c.asks, FALSE) \in Seq(BOOLEAN)
  BY DEF Ctls
<1>3. CASE c.armed
  <2> DEFINE r == C!DisarmReset(c)
  <2>1. r = [d EXCEPT !.plan = 0, !.running = FALSE, !.ready = FALSE, !.bridge = FALSE,
                      !.jog = FALSE, !.soft = FALSE]
    BY DEF C!DisarmReset, C!NoPlan
  <2>2. C!SetArm(c, FALSE) = [r EXCEPT !.armed = FALSE, !.asks = Append(r.asks, FALSE)]
    BY <1>3 DEF C!SetArm
  <2> HIDE DEF d, r
  <2>3. /\ r \in Ctls /\ r.plan = 0 /\ ~r.running /\ ~r.jog /\ ~r.soft
        /\ r.out = d.out /\ r.asks = c.asks /\ r.stopped = c.stopped
    BY <1>1, <2>1, Bounds DEF Rests, Ctls
  <2>4. /\ C!SetArm(c, FALSE) \in Ctls
        /\ C!SetArm(c, FALSE).asks = Append(c.asks, FALSE)
        /\ ~C!SetArm(c, FALSE).armed /\ ~C!SetArm(c, FALSE).running
        /\ C!SetArm(c, FALSE).plan = 0 /\ C!SetArm(c, FALSE).out = d.out
        /\ ~C!SetArm(c, FALSE).jog /\ ~C!SetArm(c, FALSE).soft
        /\ C!SetArm(c, FALSE).stopped = c.stopped
    BY <1>2, <2>2, <2>3 DEF Ctls
  <2>5. \/ Dropped(c, C!SetArm(c, FALSE)) \/ Finished(c, C!SetArm(c, FALSE))
    BY <1>1, <2>4 DEF Rests, Eases, Kept, Dropped, Finished
  <2> QED
    BY <2>4, <2>5 DEF Eases, Asked
<1>4. CASE ~c.armed
  <2>1. C!SetArm(c, FALSE) = [c EXCEPT !.armed = FALSE, !.asks = Append(@, FALSE)]
    BY <1>4 DEF C!SetArm
  <2>2. C!SetArm(c, FALSE) \in Ctls
    BY <1>2, <2>1 DEF Ctls
  <2>3. ~(C!SetArm(c, FALSE).running /\ c.armed)
    BY <1>4
  <2> QED
    BY <2>1, <2>2, <2>3 DEF Eases, Kept, Asked, Ctls
<1> QED
  BY <1>3, <1>4 DEF Ctls

(* stop: the controller disarms, once.                                     *)
LEMMA StopEases ==
  ASSUME NEW c \in Ctls
  PROVE  Eases(c, C!Stop(c)) /\ C!Stop(c).stopped
<1>1. CASE c.stopped
  BY <1>1, Itself DEF C!Stop, Rests
<1>2. CASE ~c.stopped
  <2> DEFINE d == [c EXCEPT !.stopped = TRUE]
  <2>1. d \in Ctls /\ d.stopped
    BY DEF Ctls
  <2>2. /\ d.plan = c.plan /\ d.running = c.running /\ d.out = c.out /\ d.jog = c.jog
        /\ d.soft = c.soft /\ d.asks = c.asks /\ d.armed = c.armed
    BY DEF Ctls
  <2>3. C!Stop(c) = IF c.armed THEN C!SetArm(d, FALSE) ELSE d
    BY <1>2 DEF C!Stop
  <2> HIDE DEF d
  <2>4. Eases(d, C!SetArm(d, FALSE)) /\ C!SetArm(d, FALSE).stopped /\ ~C!SetArm(d, FALSE).armed
    BY <2>1, DisarmEases
  <2>5. CASE c.armed
    BY <2>2, <2>3, <2>4, <2>5 DEF Eases, Kept, Dropped, Finished, Asked
  <2>6. CASE ~c.armed
    BY <2>1, <2>2, <2>3, <2>6 DEF Eases, Kept, Asked
  <2> QED
    BY <2>5, <2>6
<1> QED
  BY <1>1, <1>2 DEF Ctls

(* A fault: the leg ends, and the controller stops.                        *)
LEMMA FaultEases ==
  ASSUME NEW c \in Ctls
  PROVE  Eases(c, C!Fault(c))
<1>1. Rests(c, C!EndRunning(c)) /\ C!EndRunning(c) \in Ctls
  BY EndRunningRests DEF Rests, Eases
<1> QED
  BY <1>1, StopEases, RestsThen DEF C!Fault

(* An observation to be distrusted: whatever was to move is dropped.       *)
LEMMA PauseRests ==
  ASSUME NEW c \in Ctls
  PROVE  /\ Rests(c, C!Pause(c)) /\ C!Pause(c).plan = 0 /\ ~C!Pause(c).running
         /\ ~C!Pause(c).jog /\ ~C!Pause(c).soft
<1> DEFINE d == C!Cancel(c)
<1>1. /\ Rests(c, d) /\ d \in Ctls /\ d.plan = 0 /\ ~d.running /\ ~d.jog /\ ~d.soft
  BY CancelRests DEF Rests, Eases
<1>2. C!Pause(c) = [d EXCEPT !.ready = FALSE]
  BY DEF C!Pause
<1> HIDE DEF d
<1>3. C!Pause(c) \in Ctls /\ Rests(d, C!Pause(c))
  BY <1>1, <1>2 DEF Rests, Eases, Kept, Asked, Ctls
<1> QED
  BY <1>1, <1>2, <1>3, RestsThen DEF Rests, Ctls

(* on_motor_health.                                                        *)
LEMMA HealthEases ==
  ASSUME NEW c \in Ctls, NEW ok \in BOOLEAN, NEW plantArmed \in BOOLEAN, NEW edge \in BOOLEAN
  PROVE  /\ Eases(c, C!OnHealth(c, ok, plantArmed, edge))
         /\ ~ok => C!OnHealth(c, ok, plantArmed, edge).plan = 0
<1> DEFINE d == [c EXCEPT !.health = ok]
           e == C!OnObserved(d, ok, edge)
<1>1. d \in Ctls /\ Rests(c, d)
  <2>1. d \in Ctls
    BY DEF Ctls
  <2> QED
    BY <2>1 DEF Rests, Eases, Kept, Asked, Ctls
<1>2. C!OnHealth(c, ok, plantArmed, edge) = C!OnPlantArmed(e, plantArmed)
  BY DEF C!OnHealth
<1> HIDE DEF d
<1>3. Rests(d, e)
  BY <1>1, PauseRests, CancelRests, Itself DEF C!OnObserved
<1>4. Rests(c, e) /\ e \in Ctls
  BY <1>1, <1>3, RestsThen DEF Rests, Eases
<1>6. ~ok => e.plan = 0
  BY <1>1, PauseRests DEF C!OnObserved
<1> HIDE DEF e
<1>5. Eases(e, C!OnPlantArmed(e, plantArmed))
  <2>1. [e EXCEPT !.bridge = TRUE] \in Ctls
    BY <1>4 DEF Ctls
  <2>2. Eases(e, [e EXCEPT !.bridge = TRUE])
    BY <1>4, <2>1 DEF Eases, Kept, Asked, Ctls
  <2> QED
    BY <1>4, <2>2, FaultEases, Itself DEF C!OnPlantArmed, Rests
<1>7. ~ok => C!OnPlantArmed(e, plantArmed).plan = 0
  BY <1>5, <1>6 DEF Eases, Kept, Dropped, Finished
<1> QED
  BY <1>2, <1>4, <1>5, <1>7, RestsThen

(* A gap in the states is one.                                             *)
LEMMA GapRests ==
  ASSUME NEW c \in Ctls
  PROVE  Rests(c, C!OnStateGap(c))
BY PauseRests, Itself DEF C!OnStateGap

(* tick: a leg that settles or times out is one that runs.                 *)
LEMMA TickEases ==
  ASSUME NEW c \in Ctls, NEW stale \in BOOLEAN, NEW leg, NEW send,
         leg \in {"settled", "timeout"} => c.running
  PROVE  Eases(c, C!Tick(c, stale, leg, send))
<1> DEFINE r == [c EXCEPT !.ready = TRUE]
           a == C!Advance(r, leg)
<1>1. r \in Ctls /\ Rests(c, r) /\ r.running = c.running
  <2>1. r \in Ctls
    BY DEF Ctls
  <2> QED
    BY <2>1 DEF Rests, Eases, Kept, Asked, Ctls
<1>2. C!Tick(c, stale, leg, send) \in {c, C!Pause(c), C!Send(a, send)}
  BY DEF C!Tick
<1> HIDE DEF r
<1>3. Rests(r, a)
  <2>1. CASE leg = "gap"
    BY <1>1, <2>1, CancelRests DEF C!Advance
  <2>2. CASE leg = "settled"
    BY <1>1, <2>2, FinishLegEases DEF C!Advance
  <2>3. CASE leg = "timeout"
    <3> DEFINE f == C!FinishLeg(r, FALSE)
    <3>1. Rests(r, f) /\ f \in Ctls
      BY <1>1, <2>3, FinishLegEases DEF Rests, Eases
    <3>2. a = [f EXCEPT !.frozen = TRUE]
      BY <2>3 DEF C!Advance
    <3> HIDE DEF f
    <3>3. a \in Ctls
      BY <3>1, <3>2 DEF Ctls
    <3>4. Rests(f, a)
      BY <3>1, <3>2, <3>3 DEF Rests, Eases, Kept, Asked, Ctls
    <3> QED
      BY <1>1, <3>1, <3>4, RestsThen DEF Rests
  <2>4. CASE leg = "expired"
    <3>1. a = [r EXCEPT !.jog = FALSE]
      BY <2>4 DEF C!Advance
    <3>2. a \in Ctls
      BY <1>1, <3>1 DEF Ctls
    <3> QED
      BY <1>1, <3>1, <3>2 DEF Rests, Eases, Kept, Asked, Ctls
  <2>5. CASE leg \notin {"gap", "settled", "timeout", "expired"}
    <3>1. a = r
      BY <2>5 DEF C!Advance
    <3> QED
      BY <1>1, <3>1, Itself
  <2> QED
    BY <2>1, <2>2, <2>3, <2>4, <2>5
<1>4. Rests(c, a) /\ a \in Ctls
  BY <1>1, <1>3, RestsThen DEF Rests, Eases
<1> HIDE DEF a
<1>5. ASSUME NEW d \in Ctls PROVE Rests(d, C!Command(d))
  <2>1. C!Command(d) \in Ctls
    BY DEF C!Command, Ctls
  <2> QED
    BY <2>1 DEF C!Command, Rests, Eases, Kept, Asked, Ctls
<1>6. Rests(a, C!Command(C!Cancel(a)))
  <2>1. Rests(a, C!Cancel(a)) /\ C!Cancel(a) \in Ctls
    BY <1>4, CancelRests DEF Rests, Eases
  <2> QED
    BY <1>4, <1>5, <2>1, RestsThen DEF Rests
<1>7. C!Send(a, send) \in {C!Fault(a), C!Command(C!Cancel(a)), a, C!Command(a)}
  BY DEF C!Send
<1>8. Eases(a, C!Send(a, send))
  BY <1>4, <1>5, <1>6, <1>7, FaultEases, Itself DEF Rests
<1>9. Eases(c, C!Send(a, send))
  BY <1>4, <1>8, RestsThen
<1> QED
  BY <1>2, <1>9, PauseRests, Itself DEF Rests

(* The handlers of a change of law.                                        *)
LEMMA LawEases ==
  ASSUME NEW c \in Ctls
  PROVE  /\ Rests(c, C!SetGains(c))
         /\ \/ Rests(c, C!SetPoseHold(c))
            \/ /\ C!SetPoseHold(c) \in Ctls /\ ~C!SetPoseHold(c).jog
               /\ C!SetPoseHold(c).soft
               /\ C!SetPoseHold(c).plan = 0 /\ ~C!SetPoseHold(c).running /\ ~c.running
               /\ C!SetPoseHold(c).out = c.out /\ C!SetPoseHold(c).asks = c.asks
               /\ C!SetPoseHold(c).armed = c.armed /\ C!SetPoseHold(c).stopped = c.stopped
<1>1. Rests(c, C!SetGains(c))
  BY CancelRests, Itself DEF C!SetGains
<1>2. CASE C!SoftRefused(c)
  BY <1>1, <1>2, Itself DEF C!SetPoseHold
<1>3. CASE ~C!SoftRefused(c)
  <2> DEFINE d == C!Cancel(c)
  <2>1. C!SetPoseHold(c) = [d EXCEPT !.soft = TRUE]
    BY <1>3 DEF C!SetPoseHold
  <2>2. ~c.running
    BY <1>3 DEF C!SoftRefused
  <2>3. /\ d \in Ctls /\ Rests(c, d) /\ d.plan = 0 /\ ~d.jog /\ ~d.running
        /\ d.out = c.out /\ d.asks = c.asks /\ d.armed = c.armed /\ d.stopped = c.stopped
    BY <2>2, CancelRests DEF Rests, Eases, Kept, Dropped, Finished
  <2> HIDE DEF d
  <2> QED
    BY <1>1, <2>1, <2>2, <2>3 DEF Ctls
<1> QED
  BY <1>2, <1>3

(* The events of on_plan.                                                  *)
Staged(e, ok) == [kind |-> "plan_staged", plan |-> e, ok |-> ok]

\* What on_plan does with a plan: it is staged, or refused with one event or two.
Takes(c, e, d) ==
  /\ ~c.running /\ ~c.soft /\ d.plan = e /\ d.running = c.running /\ d.soft = c.soft
  /\ d.out = Append(c.out, Staged(e, TRUE))
Refuses(c, e, d) ==
  /\ d.plan = c.plan /\ d.running = c.running /\ d.soft = c.soft
  /\ \/ d.out = Append(c.out, Staged(e, FALSE))
     \/ d.out = Append(Append(c.out, Staged(e, FALSE)), Leg(e, FALSE))

(* on_plan stages a plan or refuses it, and does nothing else.             *)
LEMMA OnPlanShape ==
  ASSUME NEW c \in Ctls, NEW e \in 1..MaxExec, NEW fits \in BOOLEAN
  PROVE  LET d == C!OnPlan(c, e, fits)
         IN /\ d \in Ctls /\ d.jog = c.jog /\ d.asks = c.asks /\ d.armed = c.armed
            /\ d.stopped = c.stopped
            /\ Takes(c, e, d) \/ Refuses(c, e, d)
<1>1. /\ Staged(e, TRUE) \in Events /\ Staged(e, FALSE) \in Events /\ Leg(e, FALSE) \in Events
      /\ e \in 0..MaxExec
  BY Bounds DEF Staged, Leg, Events
<1> DEFINE r == [c EXCEPT !.out = Append(c.out, Staged(e, FALSE))]
           q == [r EXCEPT !.out = Append(r.out, Leg(e, FALSE))]
           p == [c EXCEPT !.plan = e]
           s == [p EXCEPT !.out = Append(p.out, Staged(e, TRUE))]
<1>2. \/ C!OnPlan(c, e, fits) \in {r, q}
      \/ C!OnPlan(c, e, fits) = s /\ ~c.running /\ ~c.soft
  BY DEF C!OnPlan, C!Emit, Staged, Leg
<1>3. /\ r \in Ctls /\ r.out = Append(c.out, Staged(e, FALSE)) /\ r.plan = c.plan
      /\ r.running = c.running /\ r.soft = c.soft /\ r.jog = c.jog /\ r.asks = c.asks
      /\ r.armed = c.armed /\ r.stopped = c.stopped
  <2>1. Append(c.out, Staged(e, FALSE)) \in Seq(Events)
    BY <1>1, Emitted
  <2> QED
    BY <2>1 DEF Ctls
<1>4. /\ p \in Ctls /\ p.plan = e /\ p.out = c.out
      /\ p.running = c.running /\ p.soft = c.soft /\ p.jog = c.jog /\ p.asks = c.asks
      /\ p.armed = c.armed /\ p.stopped = c.stopped
  BY <1>1 DEF Ctls
<1> HIDE DEF r, p
<1>5. /\ q \in Ctls /\ q.out = Append(r.out, Leg(e, FALSE)) /\ q.plan = c.plan
      /\ q.running = c.running /\ q.soft = c.soft /\ q.jog = c.jog /\ q.asks = c.asks
      /\ q.armed = c.armed /\ q.stopped = c.stopped
  <2>1. Append(r.out, Leg(e, FALSE)) \in Seq(Events)
    BY <1>1, <1>3, Emitted
  <2> QED
    BY <1>3, <2>1 DEF Ctls
<1>6. /\ s \in Ctls /\ s.plan = e /\ s.out = Append(c.out, Staged(e, TRUE))
      /\ s.running = c.running /\ s.soft = c.soft /\ s.jog = c.jog /\ s.asks = c.asks
      /\ s.armed = c.armed /\ s.stopped = c.stopped
  <2>1. Append(c.out, Staged(e, TRUE)) \in Seq(Events)
    BY <1>1, Emitted
  <2> QED
    BY <1>4, <2>1 DEF Ctls
<1> HIDE DEF q, s
<1> QED
  BY <1>2, <1>3, <1>5, <1>6 DEF Takes, Refuses

\* What a release of the staged plan e does: its leg fails, or it runs.
Starts(c, e, d) ==
  /\ d \in Ctls /\ d.asks = c.asks /\ d.armed = c.armed /\ d.soft = c.soft
  /\ d.stopped = c.stopped
  /\ d.jog => c.jog
  /\ \/ d.plan = 0 /\ ~d.running /\ d.out = Append(c.out, Leg(e, FALSE))
     \/ d.plan = e /\ d.running /\ d.armed /\ d.out = c.out /\ ~d.jog

(* on_control(execute) of the staged plan: it runs, or its leg has failed. *)
LEMMA ReleaseShape ==
  ASSUME NEW c \in Ctls, NEW e \in 1..MaxExec, NEW fits \in BOOLEAN, c.plan = e, ~c.running
  PROVE  Starts(c, e, C!Release(c, e, fits))
<1>1. Leg(e, FALSE) \in Events
  BY Bounds DEF Leg, Events
<1> DEFINE p == [c EXCEPT !.running = FALSE, !.plan = 0]
           f == [p EXCEPT !.out = Append(p.out, Leg(e, FALSE))]
           s == [c EXCEPT !.jog = FALSE, !.running = TRUE]
<1>2. C!Release(c, e, fits) = f \/ (C!Release(c, e, fits) = s /\ c.armed)
  <2>1. C!FinishLeg(c, FALSE) = f
    BY DEF C!FinishLeg, C!Emit, C!NoPlan, Leg
  <2> HIDE DEF f, s
  <2>2. c.armed => C!Release(c, e, fits) \in {C!FinishLeg(c, FALSE), s}
    BY DEF C!Release, s
  <2>3. ~c.armed => C!Release(c, e, fits) = C!FinishLeg(c, FALSE)
    BY DEF C!Release
  <2> QED
    BY <2>1, <2>2, <2>3
<1>3. /\ s \in Ctls /\ s.asks = c.asks /\ s.armed = c.armed /\ s.soft = c.soft
      /\ s.stopped = c.stopped
      /\ ~s.jog /\ s.plan = e /\ s.running /\ s.out = c.out
  BY DEF Ctls
<1>4. /\ p \in Ctls /\ p.asks = c.asks /\ p.armed = c.armed /\ p.soft = c.soft
      /\ p.stopped = c.stopped
      /\ p.jog = c.jog /\ p.plan = 0 /\ ~p.running /\ p.out = c.out
  BY Bounds DEF Ctls
<1> HIDE DEF p, s
<1>5. /\ f \in Ctls /\ f.asks = c.asks /\ f.armed = c.armed /\ f.soft = c.soft
      /\ f.stopped = c.stopped
      /\ f.jog = c.jog /\ f.plan = 0 /\ ~f.running /\ f.out = Append(c.out, Leg(e, FALSE))
  <2>1. Append(p.out, Leg(e, FALSE)) \in Seq(Events)
    BY <1>1, <1>4, Emitted
  <2> QED
    BY <1>4, <2>1 DEF Ctls
<1> HIDE DEF f
<1> QED
  BY <1>2, <1>3, <1>5 DEF Starts

-----------------------------------------------------------------------------
(* The loop thread's record.                                               *)

Pends == [arm : BOOLEAN, st : Answered \cup {"queued", "sent", "acked"}]
Trks == [epoch : Int, last : Int, candidate : Int, confirmed : Int,
         closed : BOOLEAN, faulted : BOOLEAN]
Cmds == [epoch : Nat, mark : 0..MaxExec]
Entries == [phase : Phase \cup {"NONE", "RAISED"}, gated : BOOLEAN, names : 0..MaxExec,
            cancel : BOOLEAN, done : {"no", "waiting", "overdue"}, epoch : {None} \cup Nat]
Worlds == [led : [Exec -> Entries], ctl : Ctls, pend : Seq(Pends), authFault : BOOLEAN,
           trk : Trks, mark : 0..MaxExec, cmd : Cmds]

Nothing(base, seq, k, w) == TRUE
FA == INSTANCE FoldProofs WITH Op <- RequestAuthority, Keep <- Nothing
FE == INSTANCE FoldProofs WITH Op <- OnEvent, Keep <- Nothing

(* _request_authority touches the requests and the tracker.                *)
LEMMA RequestShape ==
  ASSUME NEW w \in Worlds, NEW arm \in BOOLEAN
  PROVE  LET v == RequestAuthority(w, arm)
         IN /\ v \in Worlds /\ v.led = w.led /\ v.ctl = w.ctl /\ v.authFault = w.authFault
            /\ v.mark = w.mark /\ v.cmd = w.cmd
            /\ v.trk = IF arm THEN w.trk ELSE DisarmSent(w.trk)
<1> DEFINE dropped == [i \in DOMAIN w.pend |->
                         IF w.pend[i].arm /\ w.pend[i].st = "queued"
                         THEN [w.pend[i] EXCEPT !.st = "cancelled"] ELSE w.pend[i]]
           covered == \E i \in DOMAIN w.pend : ~w.pend[i].arm /\ w.pend[i].st \notin Answered
           ask == [arm |-> arm, st |-> "queued"]
<1>1. w.pend \in Seq(Pends) /\ w.trk \in Trks
  BY DEF Worlds
<1>2. ask \in Pends
  BY DEF Pends
<1>3. dropped \in Seq(Pends)
  <2>1. DOMAIN w.pend = 1..Len(w.pend) /\ Len(w.pend) \in Nat
    BY <1>1
  <2>2. ASSUME NEW i \in DOMAIN w.pend PROVE dropped[i] \in Pends
    <3>1. w.pend[i] \in Pends
      BY <1>1
    <3> QED
      BY <3>1 DEF Pends, Answered
  <2>3. dropped \in [1..Len(w.pend) -> Pends]
    BY <2>1, <2>2
  <2> QED
    BY <2>1, <2>3, SeqDef
<1>4. DisarmSent(w.trk) \in Trks
  BY <1>1, Bounds DEF DisarmSent, Trks
<1> HIDE DEF dropped
<1>5. Append(w.pend, ask) \in Seq(Pends) /\ Append(dropped, ask) \in Seq(Pends)
  BY <1>1, <1>2, <1>3
<1>6. CASE arm
  <2>1. RequestAuthority(w, arm) = [w EXCEPT !.pend = Append(w.pend, ask)]
    BY <1>6 DEF RequestAuthority
  <2> HIDE DEF ask
  <2> QED
    BY <1>5, <1>6, <2>1 DEF Worlds
<1>7. CASE ~arm
  <2> DEFINE p == IF covered THEN w.pend ELSE Append(dropped, ask)
             t == DisarmSent(w.trk)
  <2>1. RequestAuthority(w, arm) = [w EXCEPT !.trk = t, !.pend = p]
    BY <1>7 DEF RequestAuthority, dropped
  <2>2. p \in Seq(Pends) /\ t \in Trks
    BY <1>1, <1>4, <1>5
  <2> HIDE DEF p, t
  <2>3. [w EXCEPT !.trk = t, !.pend = p] \in Worlds
    BY <2>2 DEF Worlds
  <2>4. LET v == [w EXCEPT !.trk = t, !.pend = p]
        IN /\ v.led = w.led /\ v.ctl = w.ctl /\ v.authFault = w.authFault
           /\ v.mark = w.mark /\ v.cmd = w.cmd /\ v.trk = t
    BY DEF Worlds
  <2> QED
    BY <1>7, <2>1, <2>3, <2>4 DEF t
<1> QED
  BY <1>6, <1>7

(* A controller call that asks for at most one change of authority.        *)
LEMMA ControlShape ==
  ASSUME NEW w \in Worlds, NEW c \in Ctls,
         c.asks = <<>> \/ \E b \in BOOLEAN : c.asks = <<b>>
  PROVE  LET v == Control(w, c)
         IN /\ v \in Worlds /\ v.led = w.led /\ v.ctl = [c EXCEPT !.asks = <<>>]
            /\ v.authFault = w.authFault /\ v.mark = w.mark /\ v.cmd = w.cmd
            /\ c.asks = <<>> => v.pend = w.pend /\ v.trk = w.trk
            /\ v.trk \in {w.trk, DisarmSent(w.trk)}
            /\ \A b \in BOOLEAN : c.asks = <<b>> =>
                 v = RequestAuthority([w EXCEPT !.ctl = [c EXCEPT !.asks = <<>>]], b)
<1> DEFINE d == [c EXCEPT !.asks = <<>>]
           u == [w EXCEPT !.ctl = d]
<1>1. d \in Ctls
  <2>1. <<>> \in Seq(BOOLEAN)
    OBVIOUS
  <2> QED
    BY <2>1 DEF Ctls
<1> HIDE DEF d
<1>2. /\ u \in Worlds /\ u.led = w.led /\ u.ctl = d /\ u.authFault = w.authFault
      /\ u.mark = w.mark /\ u.cmd = w.cmd /\ u.pend = w.pend /\ u.trk = w.trk
  BY <1>1 DEF Worlds
<1>3. Control(w, c) = FA!FoldLeft(RequestAuthority, u, c.asks)
  BY Zenon DEF Control, d, u, FA!FoldLeft, S!FoldLeft, FA!MapThenFoldSet, S!MapThenFoldSet,
               FA!Max, S!Max
<1> HIDE DEF u
<1>4. CASE c.asks = <<>>
  <2>1. DOMAIN c.asks = 1..0
    BY <1>4
  <2>2. Control(w, c) = u
    BY <1>3, <2>1, FA!FoldShort
  <2>3. \A b \in BOOLEAN : c.asks # <<b>>
    BY <1>4
  <2> QED
    BY <1>2, <2>2, <2>3 DEF d
<1>5. ASSUME NEW b \in BOOLEAN, c.asks = <<b>> PROVE Control(w, c) = RequestAuthority(u, b)
  <2>1. DOMAIN c.asks = 1..1 /\ c.asks[1] = b
    BY <1>5
  <2> QED
    BY <1>3, <2>1, FA!FoldShort
<1>6. ASSUME NEW b \in BOOLEAN, c.asks = <<b>>
      PROVE  LET v == Control(w, c)
             IN /\ v \in Worlds /\ v.led = w.led /\ v.ctl = d
                /\ v.authFault = w.authFault /\ v.mark = w.mark /\ v.cmd = w.cmd
                /\ c.asks # <<>>
                /\ v.trk \in {w.trk, DisarmSent(w.trk)}
  <2>1. c.asks # <<>>
    BY <1>6
  <2> QED
    BY <1>2, <1>5, <1>6, <2>1, RequestShape
<1>7. CASE c.asks # <<>>
  <2>1. PICK b \in BOOLEAN : c.asks = <<b>>
    BY <1>7
  <2> QED
    BY <1>5, <1>6, <1>7, <2>1 DEF d, u
<1> QED
  BY <1>4, <1>7

-----------------------------------------------------------------------------
(* The ledger's entries.                                                   *)

Moving == {"SELECTED", "SENT", "APPLIED"}
EndedAs(q) == [NoExec EXCEPT !.phase = q]

\* An entry between two receipts: no receipt was refused, a finished leg is one
\* that ran, and an execution has a generation once its first command is sent.
Sound(x) ==
  /\ x \in Entries
  /\ x.phase \in {"NONE", "ADMITTED"} \cup Moving \cup Terminal
  /\ x.done # "no" => x.phase \in Moving
  /\ x.epoch # None => x.phase \in {"SENT", "APPLIED"}

(* The phases that end an execution, and those on the way.                 *)
LEMMA PhaseSets ==
  /\ Terminal = {"REJECTED", "SUPERSEDED", "EXPIRED", "CANCELLED", "FAULTED", "COMPLETED"}
  /\ Chain = {"REQUESTED", "ADMITTED", "SELECTED", "SENT", "APPLIED"}
BY DEF Terminal, Ends, Chain, Rank

(* The phases in which an execution is live.                               *)
LEMMA LiveIs ==
  ASSUME NEW x, Sound(x)
  PROVE  /\ Live(x) <=> x.phase \in {"ADMITTED"} \cup Moving
         /\ ~Live(x) => x.done = "no" /\ x.epoch = None
BY PhaseSets DEF Sound, Live, Moving, Entries

(* An ended entry is sound, and not live.                                  *)
LEMMA EndedSound ==
  ASSUME NEW q \in Terminal
  PROVE  /\ Sound(EndedAs(q)) /\ ~Live(EndedAs(q)) /\ EndedAs(q).phase = q
         /\ EndedAs(q).done = "no" /\ EndedAs(q).epoch = None
<1>1. NoExec \in Entries /\ NoExec.done = "no" /\ NoExec.epoch = None
  BY Bounds DEF NoExec, Entries
<1>2. EndedAs(q) \in Entries
  BY <1>1 DEF EndedAs, Entries, Phase
<1>3. EndedAs(q).phase = q /\ EndedAs(q).done = "no" /\ EndedAs(q).epoch = None
  BY <1>1 DEF EndedAs, Entries
<1> QED
  BY <1>2, <1>3 DEF Sound, Live

(* The receipts that end an execution.                                     *)
LEMMA ReceiptEnds ==
  ASSUME NEW x \in Entries
  PROVE  /\ x.phase \in {"REQUESTED", "ADMITTED"} => Receipt(x, "REJECTED") = EndedAs("REJECTED")
         /\ x.phase = "ADMITTED" => /\ Receipt(x, "SUPERSEDED") = EndedAs("SUPERSEDED")
                                    /\ Receipt(x, "EXPIRED") = EndedAs("EXPIRED")
         /\ x.phase \in {"ADMITTED"} \cup Moving =>
              Receipt(x, "CANCELLED") = EndedAs("CANCELLED")
         /\ x.phase \in Moving => Receipt(x, "FAULTED") = EndedAs("FAULTED")
         /\ x.phase = "APPLIED" => Receipt(x, "COMPLETED") = EndedAs("COMPLETED")
<1>1. ASSUME NEW q \in Terminal, x.phase \in Ends[q], x.phase \in Chain
      PROVE  Receipt(x, q) = EndedAs(q)
  <2>1. x.phase \notin Terminal /\ x.phase # "NONE"
    BY <1>1, PhaseSets
  <2>2. Follows(x.phase, q)
    BY <1>1, <2>1 DEF Follows
  <2> QED
    BY <1>1, <2>1, <2>2 DEF Receipt, EndedAs, Phase
<1> QED
  BY <1>1, PhaseSets DEF Ends, Moving

(* The receipts that take it on.                                           *)
LEMMA ReceiptGoes ==
  ASSUME NEW x \in Entries
  PROVE  /\ x.phase = "NONE" => Receipt(x, "REQUESTED") = [x EXCEPT !.phase = "REQUESTED"]
         /\ x.phase = "REQUESTED" => Receipt(x, "ADMITTED") = [x EXCEPT !.phase = "ADMITTED"]
         /\ x.phase = "ADMITTED" => Receipt(x, "SELECTED") = [x EXCEPT !.phase = "SELECTED"]
         /\ x.phase = "SELECTED" => Receipt(x, "SENT") = [x EXCEPT !.phase = "SENT"]
         /\ x.phase = "SENT" => Receipt(x, "APPLIED") = [x EXCEPT !.phase = "APPLIED"]
<1>1. ASSUME NEW p \in Chain, NEW q \in Chain, Rank[q] > Rank[p], x.phase = p
      PROVE  Receipt(x, q) = [x EXCEPT !.phase = q]
  <2>1. p \notin Terminal /\ q \notin Terminal /\ p # "NONE"
    BY PhaseSets
  <2>2. Follows(x.phase, q)
    BY <1>1, <2>1 DEF Follows
  <2> QED
    BY <1>1, <2>1, <2>2 DEF Receipt, Phase
<1>2. x.phase = "NONE" => Receipt(x, "REQUESTED") = [x EXCEPT !.phase = "REQUESTED"]
  BY PhaseSets DEF Receipt, Begins
<1>3. /\ Rank["REQUESTED"] = 1 /\ Rank["ADMITTED"] = 2 /\ Rank["SELECTED"] = 3
      /\ Rank["SENT"] = 4 /\ Rank["APPLIED"] = 5
  BY DEF Rank
<1> QED
  BY <1>1, <1>2, <1>3, PhaseSets

(* The event that ends a leg.                                              *)
LEMMA LegResultSound ==
  ASSUME NEW x, Sound(x), NEW ok \in BOOLEAN,
         x.phase \in Moving \/ (x.phase = "ADMITTED" /\ ~ok)
  PROVE  /\ Sound(LegResult(x, ok))
         /\ Live(LegResult(x, ok)) => LegResult(x, ok).done # "no"
         /\ LegResult(x, ok).phase \in Terminal \/ (ok /\ LegResult(x, ok).phase = x.phase)
         /\ LegResult(x, ok).phase # "COMPLETED"
<1>1. x \in Entries /\ Terminal # {}
  BY PhaseSets DEF Sound
<1>2. CASE ok
  <2>1. LegResult(x, ok) = [x EXCEPT !.done = "waiting"]
    BY <1>2 DEF LegResult
  <2> QED
    BY <1>1, <1>2, <2>1, PhaseSets DEF Sound, Entries, Moving
<1>3. CASE ~ok
  <2>1. \E q \in {"CANCELLED", "REJECTED", "FAULTED"} : LegResult(x, ok) = EndedAs(q)
    BY <1>1, <1>3, ReceiptEnds DEF LegResult
  <2>2. PICK q \in Terminal : LegResult(x, ok) = EndedAs(q) /\ q # "COMPLETED"
    BY <2>1, PhaseSets
  <2> QED
    BY <2>2, EndedSound
<1> QED
  BY <1>2, <1>3

(* _reconcile: what stays live is held, or has finished its leg.           *)
LEMMA ReconciledSound ==
  ASSUME NEW x, Sound(x), NEW held \in BOOLEAN
  PROVE  LET r == Reconciled(x, held)
         IN /\ Sound(r)
            /\ ~Live(x) => r = x
            /\ Live(r) => r = x /\ (x.done = "no" => held)
            /\ held /\ x.done = "no" => r = x
            /\ r.phase = "APPLIED" => x.phase = "APPLIED"
            /\ r.phase = "COMPLETED" => x.phase \in {"APPLIED", "COMPLETED"}
<1>1. x \in Entries
  BY DEF Sound
<1>2. {"CANCELLED", "FAULTED", "COMPLETED"} \subseteq Terminal
  BY PhaseSets
<1>3. CASE ~Live(x)
  BY <1>3 DEF Reconciled
<1>4. CASE Live(x)
  <2>1. x.phase \in {"ADMITTED"} \cup Moving /\ x.phase # "REQUESTED"
    BY <1>4, LiveIs DEF Moving
  <2>2. CASE x.done # "no"
    <3>1. x.phase \in Moving
      BY <2>2 DEF Sound
    <3>2. \/ Reconciled(x, held) = EndedAs("COMPLETED") /\ x.phase = "APPLIED"
          \/ Reconciled(x, held) = EndedAs("FAULTED")
          \/ Reconciled(x, held) = x
      BY <1>1, <1>4, <2>2, <3>1, ReceiptEnds DEF Reconciled
    <3> QED
      BY <1>2, <1>4, <2>2, <3>2, EndedSound
  <2>3. CASE x.done = "no"
    <3>1. \/ Reconciled(x, held) = x /\ held
          \/ Reconciled(x, held) = EndedAs("CANCELLED") /\ ~held
          \/ Reconciled(x, held) = EndedAs("FAULTED") /\ ~held
      BY <1>1, <1>4, <2>1, <2>3, ReceiptEnds DEF Reconciled
    <3> QED
      BY <1>2, <1>4, <2>3, <3>1, EndedSound
  <2> QED
    BY <2>2, <2>3
<1> QED
  BY <1>3, <1>4

(* The RT evidence: APPLIED is said of a SENT execution, and a fault of    *)
(* one that has a generation.                                              *)
LEMMA EvidenceSound ==
  ASSUME NEW x, Sound(x), NEW e, NEW t
  PROVE  LET r == Evidence(x, e, t)
         IN /\ Sound(r)
            /\ \/ r = x
               \/ /\ r = EndedAs("FAULTED") /\ x.phase \in Moving
                  /\ x.epoch # None /\ FaultSeen(t, x.epoch)
               \/ /\ r = [x EXCEPT !.phase = "APPLIED"] /\ x.phase = "SENT"
                  /\ Confirmed(t, x.epoch) # None /\ Confirmed(t, x.epoch) >= e
<1>1. x \in Entries
  BY DEF Sound
<1>2. "FAULTED" \in Terminal
  BY PhaseSets
<1>3. CASE x.epoch # None /\ Live(x) /\ FaultSeen(t, x.epoch)
  <2>1. x.phase \in Moving
    BY <1>3 DEF Sound, Moving
  <2> QED
    BY <1>1, <1>2, <1>3, <2>1, ReceiptEnds, EndedSound DEF Evidence
<1>4. CASE /\ ~(x.epoch # None /\ Live(x) /\ FaultSeen(t, x.epoch))
           /\ x.phase = "SENT" /\ Confirmed(t, x.epoch) # None /\ Confirmed(t, x.epoch) >= e
  <2>1. Evidence(x, e, t) = [x EXCEPT !.phase = "APPLIED"]
    BY <1>1, <1>4, ReceiptGoes DEF Evidence
  <2>2. Sound([x EXCEPT !.phase = "APPLIED"])
    BY <1>1, <1>4, PhaseSets DEF Sound, Entries, Moving, Phase
  <2> QED
    BY <1>4, <2>1, <2>2
<1>5. CASE /\ ~(x.epoch # None /\ Live(x) /\ FaultSeen(t, x.epoch))
           /\ ~(x.phase = "SENT" /\ Confirmed(t, x.epoch) # None /\ Confirmed(t, x.epoch) >= e)
  BY <1>5 DEF Evidence
<1> QED
  BY <1>3, <1>4, <1>5

-----------------------------------------------------------------------------
(* The ledger and the controller.                                          *)

Ledger(l) ==
  /\ l \in [Exec -> Entries]
  /\ \A e \in Exec : Sound(l[e])
  /\ \A d, e \in Exec : Live(l[d]) /\ Live(l[e]) => d = e

\* An execution that has not finished its leg, and one the servo answered for.
Unf(x) == Live(x) /\ x.done = "no"
Prov(x) == x.phase \in {"APPLIED", "COMPLETED"}

\* A generation that the server is armed with; with no time-outs, the one that
\* a command is sent with.
Dated(epoch) ==
  "slow" \notin ops.scene.trouble /\ epoch # 0 => rt.armed /\ rt.epoch = epoch

\* What every operation but a submission does to the ledger.
Ages(l, m) ==
  \A e \in Exec : /\ Unf(m[e]) => Unf(l[e])
                  /\ Prov(m[e]) => Prov(l[e])
                  /\ Unf(m[e]) /\ m[e].epoch # None =>
                       l[e].epoch = m[e].epoch \/ Dated(m[e].epoch)

\* The control session may be slow, or the arm may fault, but not both: a DISARM
\* that timed out would clear the fault late.
OneFault == ~({"slow", "fault"} \subseteq ops.scene.trouble)

\* The fault that the tracker has seen is still on.
Excuse(t) == OneFault => rt.faulted /\ t.faulted /\ t.epoch = rt.epoch

\* The entry of the plan that the controller holds, running or staged.
Runs(x, t) == (x.phase = "FAULTED" /\ Excuse(t)) \/ (x.phase \in Moving /\ x.done = "no")
Carries(x, running, t) == IF running THEN Runs(x, t) ELSE x.phase = "ADMITTED"

\* Nothing waits in the outbox, and the plan is one the ledger knows of.
Steady(w) ==
  /\ w.ctl.out = <<>>
  /\ w.ctl.plan # 0 => Carries(w.led[w.ctl.plan], w.ctl.running, w.trk)

\* The leg of p has ended, and the outbox says so.
Ending(w, p, ok) ==
  /\ w.ctl.out = <<Leg(p, ok)>>
  /\ w.ctl.plan = 0 /\ ~w.ctl.running
  /\ Live(w.led[p]) => \/ w.led[p].phase \in Moving
                       \/ w.led[p].phase = "ADMITTED" /\ ~ok

\* Between two calls inside an operation, and between two operations.
Mid(w) ==
  /\ w \in Worlds /\ Ledger(w.led) /\ OneSource(w.ctl) /\ w.ctl.asks = <<>>
  /\ Steady(w) \/ \E p \in Exec, ok \in BOOLEAN : Ending(w, p, ok)

Held(w) == \A e \in Exec : Unf(w.led[e]) => w.ctl.plan = e
Quiet(w) == Mid(w) /\ Steady(w) /\ ~w.ctl.commands
Rest(w) == Quiet(w) /\ Held(w)

\* What the pump leaves alone.
SameButOut(w, v) ==
  /\ v.pend = w.pend /\ v.authFault = w.authFault /\ v.trk = w.trk
  /\ v.ctl.armed = w.ctl.armed /\ v.ctl.stopped = w.ctl.stopped
  /\ v.ctl.plan = w.ctl.plan /\ v.ctl.running = w.ctl.running /\ v.ctl.jog = w.ctl.jog
  /\ v.ctl.soft = w.ctl.soft /\ v.ctl.asks = w.ctl.asks

(* The ledger of the record is replaced.                                   *)
LEMMA WithLed ==
  ASSUME NEW w \in Worlds, NEW l \in [Exec -> Entries]
  PROVE  LET v == [w EXCEPT !.led = l]
         IN /\ v \in Worlds /\ v.led = l /\ v.ctl = w.ctl /\ v.pend = w.pend
            /\ v.authFault = w.authFault /\ v.trk = w.trk /\ v.mark = w.mark /\ v.cmd = w.cmd
BY DEF Worlds

(* A second event in the outbox.                                           *)
LEMMA SecondEvent ==
  ASSUME NEW s \in Seq(Events), NEW b \in Events
  PROVE  LET o == Append(s, b)
         IN /\ o \in Seq(Events) /\ Len(o) = Len(s) + 1
            /\ \A i \in 1..Len(s) : o[i] = s[i]
            /\ o[Len(s) + 1] = b
<1>1. Append(s, b) \in Seq(Events) /\ Len(Append(s, b)) = Len(s) + 1
  OBVIOUS
<1>2. \A i \in 1..Len(s) : Append(s, b)[i] = s[i]
  OBVIOUS
<1>3. Append(s, b)[Len(s) + 1] = b
  OBVIOUS
<1> QED
  BY <1>1, <1>2, <1>3

(* The outbox's events, at most two.                                       *)
LEMMA ToldIs ==
  ASSUME NEW w \in Worlds
  PROVE  /\ w.ctl.out = <<>> => Told(w) = [w EXCEPT !.led = w.led]
         /\ \A a : w.ctl.out = <<a>> => Told(w) = [w EXCEPT !.led = OnEvent(w.led, a)]
         /\ \A a, b \in Events : w.ctl.out = Append(<<a>>, b) =>
              Told(w) = [w EXCEPT !.led = OnEvent(OnEvent(w.led, a), b)]
<1> DEFINE o == w.ctl.out
           f == FE!FoldLeft(OnEvent, w.led, o)
<1>1. S!FoldLeft(OnEvent, w.led, o) = f
  BY Zenon DEF FE!FoldLeft, S!FoldLeft, FE!MapThenFoldSet, S!MapThenFoldSet, FE!Max, S!Max
<1>2. Told(w) = [w EXCEPT !.led = f]
  BY <1>1 DEF Told
<1>3. /\ DOMAIN o = 1..0 => f = w.led
      /\ DOMAIN o = 1..1 => f = OnEvent(w.led, o[1])
      /\ DOMAIN o = 1..2 => f = OnEvent(OnEvent(w.led, o[1]), o[2])
  BY FE!FoldShort
<1> HIDE DEF f, o
<1>4. o = <<>> => Told(w) = [w EXCEPT !.led = w.led]
  BY <1>2, <1>3
<1>5. ASSUME NEW a, o = <<a>> PROVE Told(w) = [w EXCEPT !.led = OnEvent(w.led, a)]
  <2>1. DOMAIN o = 1..1 /\ o[1] = a
    BY <1>5
  <2> QED
    BY <1>2, <1>3, <2>1
<1>6. ASSUME NEW a \in Events, NEW b \in Events, o = Append(<<a>>, b)
      PROVE  Told(w) = [w EXCEPT !.led = OnEvent(OnEvent(w.led, a), b)]
  <2>1. DOMAIN o = 1..2 /\ o[1] = a /\ o[2] = b
    <3>1. <<a>> \in Seq(Events) /\ Len(<<a>>) = 1 /\ <<a>>[1] = a
      OBVIOUS
    <3> DEFINE s == <<a>>
    <3> HIDE DEF s
    <3>2. s \in Seq(Events) /\ Len(s) = 1 /\ s[1] = a /\ o = Append(s, b)
      BY <1>6, <3>1 DEF s
    <3>3. o \in Seq(Events) /\ Len(o) = 2 /\ o[1] = a /\ o[2] = b
      <4>1. /\ o \in Seq(Events) /\ Len(o) = Len(s) + 1
            /\ \A i \in 1..Len(s) : o[i] = s[i]
            /\ o[Len(s) + 1] = b
        BY <3>2, SecondEvent, Zenon
      <4> QED
        BY <3>2, <4>1
    <3> QED
      BY <3>3
  <2> QED
    BY <1>2, <1>3, <2>1
<1> QED
  BY <1>4, <1>5, <1>6 DEF o

(* The outbox is emptied; nothing else of the controller changes.          *)
LEMMA EmptiedIs ==
  ASSUME NEW w \in Worlds, link.epoch \in Nat
  PROVE  LET v == Emptied(w)
         IN /\ v \in Worlds /\ v.led = w.led /\ v.mark = w.mark /\ SameButOut(w, v)
            /\ v.ctl.out = <<>> /\ ~v.ctl.commands
<1> DEFINE c == [w.ctl EXCEPT !.out = <<>>, !.commands = FALSE]
           m == IF w.ctl.commands THEN [epoch |-> link.epoch, mark |-> w.mark] ELSE w.cmd
<1>1. Emptied(w) = [w EXCEPT !.ctl = c, !.cmd = m]
  BY DEF Emptied, Worlds
<1>2. m \in Cmds
  BY DEF Worlds, Cmds
<1>3. w.ctl \in Ctls
  BY DEF Worlds
<1>4. /\ c \in Ctls /\ c.out = <<>> /\ ~c.commands /\ c.armed = w.ctl.armed
      /\ c.stopped = w.ctl.stopped /\ c.plan = w.ctl.plan /\ c.running = w.ctl.running
      /\ c.jog = w.ctl.jog /\ c.soft = w.ctl.soft /\ c.asks = w.ctl.asks
  <2>1. <<>> \in Seq(Events)
    OBVIOUS
  <2> QED
    BY <1>3, <2>1 DEF Ctls
<1> HIDE DEF c, m
<1>5. LET v == [w EXCEPT !.ctl = c, !.cmd = m]
      IN /\ v \in Worlds /\ v.led = w.led /\ v.mark = w.mark /\ v.pend = w.pend
         /\ v.authFault = w.authFault /\ v.trk = w.trk /\ v.ctl = c
  BY <1>2, <1>4 DEF Worlds
<1> QED
  BY <1>1, <1>4, <1>5 DEF SameButOut

(* One entry is replaced.                                                  *)
LEMMA LedgerPut ==
  ASSUME NEW l, Ledger(l), NEW e \in Exec, NEW x, Sound(x),
         Live(x) => \A d \in Exec : Live(l[d]) => d = e
  PROVE  /\ Ledger([l EXCEPT ![e] = x]) /\ [l EXCEPT ![e] = x] \in [Exec -> Entries]
         /\ [l EXCEPT ![e] = x][e] = x
         /\ \A d \in Exec : d # e => [l EXCEPT ![e] = x][d] = l[d]
<1>1. l \in [Exec -> Entries] /\ x \in Entries
  BY DEF Ledger, Sound
<1>2. [l EXCEPT ![e] = x] \in [Exec -> Entries]
  BY <1>1
<1>3. \A d \in Exec : [l EXCEPT ![e] = x][d] = IF d = e THEN x ELSE l[d]
  BY <1>1
<1> QED
  BY <1>2, <1>3 DEF Ledger

(* The pump's last step: nothing waits any more.                           *)
LEMMA EmptiedQuiet ==
  ASSUME NEW w \in Worlds, link.epoch \in Nat, Ledger(w.led), OneSource(w.ctl),
         w.ctl.asks = <<>>, w.ctl.plan # 0 => Carries(w.led[w.ctl.plan], w.ctl.running, w.trk)
  PROVE  LET v == Emptied(w) IN Quiet(v) /\ SameButOut(w, v) /\ v.led = w.led
<1> DEFINE v == Emptied(w)
<1>1. /\ v \in Worlds /\ v.led = w.led /\ SameButOut(w, v)
      /\ v.ctl.out = <<>> /\ ~v.ctl.commands
  BY EmptiedIs
<1> HIDE DEF v
<1>2. OneSource(v.ctl) /\ v.ctl.asks = <<>>
  BY <1>1 DEF SameButOut, OneSource
<1>3. Steady(v)
  BY <1>1 DEF Steady, SameButOut
<1> QED
  BY <1>1, <1>2, <1>3 DEF Quiet, Mid, v

(* The first command of a selected leg may go out.                         *)
LEMMA FirstSentIs ==
  ASSUME NEW w \in Worlds, Ledger(w.led), link.epoch \in Nat, NEW for \in 0..MaxExec
  PROVE  LET v == FirstSent(w, for)
         IN /\ v \in Worlds /\ Ledger(v.led) /\ v.ctl = w.ctl /\ v.pend = w.pend
            /\ v.authFault = w.authFault /\ v.trk = w.trk
            /\ for = 0 => v = w
            /\ \A e \in Exec :
                 \/ v.led[e] = w.led[e]
                 \/ /\ e = for /\ v.led[e].phase = "SENT" /\ w.led[e].phase = "SELECTED"
                    /\ v.led[e].done = w.led[e].done /\ v.led[e].epoch = link.epoch
<1> DEFINE v == FirstSent(w, for)
<1>1. CASE ~(/\ for # 0 /\ w.ctl.commands /\ w.led[for].phase = "SELECTED"
             /\ w.led[for].epoch = None)
  <2>1. v = w
    BY <1>1 DEF FirstSent
  <2> QED
    BY <2>1
<1>2. CASE /\ for # 0 /\ w.ctl.commands /\ w.led[for].phase = "SELECTED"
           /\ w.led[for].epoch = None
  <2> DEFINE x == w.led[for]
             y == [x EXCEPT !.phase = "SENT"]
             z == [y EXCEPT !.epoch = link.epoch]
             l == [w.led EXCEPT ![for] = z]
  <2>1. for \in Exec
    BY <1>2, Bounds DEF Exec
  <2>2. Sound(x) /\ x \in Entries /\ x.phase = "SELECTED" /\ x.epoch = None
    BY <1>2, <2>1 DEF Ledger, Sound
  <2>3. Receipt(x, "SENT") = y
    BY <2>2, ReceiptGoes
  <2>4. v = [w EXCEPT !.led = l, !.mark = for]
    <3>1. v = [w EXCEPT !.led[for] = [Receipt(w.led[for], "SENT") EXCEPT !.epoch = link.epoch],
                        !.mark = for]
      BY <1>2 DEF FirstSent
    <3> QED
      BY <3>1, <2>3
  <2> HIDE DEF x
  <2>5. y \in Entries /\ y.phase = "SENT" /\ y.done = x.done
    BY <2>2, PhaseSets DEF Entries, Phase
  <2> HIDE DEF y
  <2>6. z \in Entries /\ z.phase = "SENT" /\ z.done = x.done /\ z.epoch = link.epoch
    BY <2>5 DEF Entries
  <2> HIDE DEF z
  <2>7. Sound(z) /\ Live(x)
    BY <2>2, <2>6, LiveIs DEF Sound, Moving
  <2>8. Ledger(l) /\ l \in [Exec -> Entries] /\ l[for] = z
        /\ \A d \in Exec : d # for => l[d] = w.led[d]
    BY <2>1, <2>7, LedgerPut DEF Ledger, x
  <2> HIDE DEF l, v
  <2>9. /\ v \in Worlds /\ v.led = l /\ v.ctl = w.ctl /\ v.pend = w.pend
        /\ v.authFault = w.authFault /\ v.trk = w.trk
    BY <2>4, <2>8 DEF Worlds
  <2>10. ASSUME NEW e \in Exec
         PROVE  \/ v.led[e] = w.led[e]
                \/ /\ e = for /\ v.led[e].phase = "SENT" /\ w.led[e].phase = "SELECTED"
                   /\ v.led[e].done = w.led[e].done /\ v.led[e].epoch = link.epoch
    BY <2>2, <2>6, <2>8, <2>9 DEF x
  <2> QED
    BY <1>2, <2>8, <2>9, <2>10 DEF v
<1> QED
  BY <1>1, <1>2

(* The pump with nothing in the outbox.                                    *)
LEMMA PumpSteady ==
  ASSUME NEW w, Mid(w), Steady(w), link.epoch \in Nat, NEW for \in 0..MaxExec,
         for # 0 => Dated(link.epoch)
  PROVE  LET v == Pumped(w, for)
         IN /\ Quiet(v) /\ SameButOut(w, v) /\ Ages(w.led, v.led)
            /\ for = 0 => v.led = w.led
<1> DEFINE t == Told(w)
           f == FirstSent(t, for)
           v == Emptied(f)
<1>1. w \in Worlds /\ Ledger(w.led) /\ w.led \in [Exec -> Entries] /\ w.ctl \in Ctls
  BY DEF Mid, Ledger, Worlds
<1>2. /\ t \in Worlds /\ t.led = w.led /\ t.ctl = w.ctl /\ t.pend = w.pend
      /\ t.authFault = w.authFault /\ t.trk = w.trk /\ t.mark = w.mark /\ t.cmd = w.cmd
  <2>1. t = [w EXCEPT !.led = w.led]
    BY <1>1, ToldIs DEF Steady
  <2> HIDE DEF t
  <2> QED
    BY <1>1, <2>1, WithLed
<1>3. Chosen(t) = t
  BY <1>2 DEF Chosen, Mid, OneSource, Steady, Carries, Runs, Moving
<1>4. Pumped(w, for) = v
  BY <1>3 DEF Pumped
<1> HIDE DEF t
<1>5. /\ f \in Worlds /\ Ledger(f.led) /\ f.ctl = w.ctl /\ f.pend = w.pend
      /\ f.authFault = w.authFault /\ f.trk = w.trk
      /\ for = 0 => f.led = w.led
      /\ \A e \in Exec :
           \/ f.led[e] = w.led[e]
           \/ /\ e = for /\ f.led[e].phase = "SENT" /\ w.led[e].phase = "SELECTED"
              /\ f.led[e].done = w.led[e].done /\ f.led[e].epoch = link.epoch
  BY <1>1, <1>2, FirstSentIs
<1> HIDE DEF f
<1>6. \A e \in Exec : /\ Unf(f.led[e]) => Unf(w.led[e])
                      /\ Prov(f.led[e]) => Prov(w.led[e])
                      /\ Runs(w.led[e], w.trk) => Runs(f.led[e], w.trk)
                      /\ w.led[e].phase = "ADMITTED" => f.led[e].phase = "ADMITTED"
  BY <1>5, PhaseSets DEF Unf, Prov, Runs, Moving, Live
<1>11. \A e \in Exec : f.led[e].epoch = w.led[e].epoch \/ Dated(f.led[e].epoch)
  <2> SUFFICES ASSUME NEW e \in Exec, f.led[e] # w.led[e] PROVE Dated(f.led[e].epoch)
    OBVIOUS
  <2>1. for # 0 /\ f.led[e].epoch = link.epoch
    BY <1>5
  <2> QED
    BY <2>1
<1>7. ASSUME w.ctl.plan # 0 PROVE Carries(f.led[w.ctl.plan], w.ctl.running, w.trk)
  <2>1. w.ctl.plan \in Exec
    BY <1>1, <1>7, Bounds DEF Ctls, Exec
  <2>2. Carries(w.led[w.ctl.plan], w.ctl.running, w.trk)
    BY <1>7 DEF Steady
  <2> QED
    BY <1>6, <2>1, <2>2 DEF Carries
<1>8. OneSource(w.ctl) /\ w.ctl.asks = <<>>
  BY DEF Mid
<1>9. Quiet(v) /\ SameButOut(f, v) /\ v.led = f.led
  BY <1>5, <1>7, <1>8, EmptiedQuiet
<1> HIDE DEF v
<1>10. SameButOut(w, v)
  BY <1>5, <1>9 DEF SameButOut
<1> QED
  BY <1>4, <1>5, <1>6, <1>9, <1>10, <1>11 DEF Ages

(* The event that ends a leg, in the ledger: an execution that has ended   *)
(* already is passed over.                                                 *)
LEMMA OnLeg ==
  ASSUME NEW l, Ledger(l), NEW p \in Exec, NEW ok \in BOOLEAN,
         Live(l[p]) => l[p].phase \in Moving \/ (l[p].phase = "ADMITTED" /\ ~ok)
  PROVE  LET m == OnEvent(l, Leg(p, ok))
         IN Ledger(m) /\ m \in [Exec -> Entries] /\ Ages(l, m) /\ ~Unf(m[p])
<1> DEFINE m == OnEvent(l, Leg(p, ok))
           x == LegResult(l[p], ok)
<1>1. p # 0 /\ l \in [Exec -> Entries] /\ Sound(l[p])
  BY Bounds DEF Exec, Ledger
<1>2. CASE ~Live(l[p])
  <2>1. m = l
    BY <1>1, <1>2 DEF OnEvent, Leg
  <2> QED
    BY <1>1, <1>2, <2>1 DEF Ages, Unf
<1>3. CASE Live(l[p])
  <2>1. m = [l EXCEPT ![p] = x]
    BY <1>1, <1>3 DEF OnEvent, Leg
  <2>2. /\ Sound(x)
        /\ Live(x) => x.done # "no"
        /\ Prov(x) => Prov(l[p])
    BY <1>1, <1>3, LegResultSound, PhaseSets DEF Prov
  <2> HIDE DEF x, m
  <2>3. /\ Ledger(m) /\ m \in [Exec -> Entries] /\ m[p] = x
        /\ \A d \in Exec : d # p => m[d] = l[d]
    BY <1>3, <2>1, <2>2, LedgerPut DEF Ledger
  <2> QED
    BY <2>2, <2>3 DEF Ages, Unf, m
<1> QED
  BY <1>2, <1>3

(* The pump with the end of a leg in the outbox.                           *)
LEMMA PumpLeg ==
  ASSUME NEW w, Mid(w), NEW p \in Exec, NEW ok \in BOOLEAN, Ending(w, p, ok),
         link.epoch \in Nat
  PROVE  LET v == Pumped(w, 0)
         IN Quiet(v) /\ SameButOut(w, v) /\ Ages(w.led, v.led) /\ ~Unf(v.led[p])
<1> DEFINE m == OnEvent(w.led, Leg(p, ok))
           t == [w EXCEPT !.led = m]
           v == Emptied(t)
<1>1. /\ w \in Worlds /\ Ledger(w.led) /\ OneSource(w.ctl) /\ w.ctl.asks = <<>>
      /\ w.ctl.plan = 0 /\ ~w.ctl.running
  BY DEF Mid, Ending
<1>2. Ledger(m) /\ m \in [Exec -> Entries] /\ Ages(w.led, m) /\ ~Unf(m[p])
  BY <1>1, OnLeg DEF Ending
<1>3. Told(w) = t
  BY <1>1, ToldIs DEF Ending
<1> HIDE DEF m
<1>4. /\ t \in Worlds /\ t.led = m /\ t.ctl = w.ctl /\ t.pend = w.pend
      /\ t.authFault = w.authFault /\ t.trk = w.trk
  BY <1>1, <1>2, WithLed
<1> HIDE DEF t
<1>5. Pumped(w, 0) = v
  <2>1. Chosen(t) = t
    BY <1>1, <1>4 DEF Chosen
  <2>2. FirstSent(t, 0) = t
    BY DEF FirstSent
  <2> QED
    BY <1>3, <2>1, <2>2 DEF Pumped
<1>6. Quiet(v) /\ SameButOut(t, v) /\ v.led = m
  BY <1>1, <1>2, <1>4, EmptiedQuiet
<1> HIDE DEF v
<1>7. SameButOut(w, v)
  BY <1>4, <1>6 DEF SameButOut
<1> QED
  BY <1>2, <1>5, <1>6, <1>7

(* The pump, whatever the controller did before.                           *)
LEMMA PumpMid ==
  ASSUME NEW w, Mid(w), link.epoch \in Nat, NEW for \in 0..MaxExec,
         for # 0 => w.ctl.running /\ Dated(link.epoch)
  PROVE  LET v == Pumped(w, for)
         IN Quiet(v) /\ SameButOut(w, v) /\ Ages(w.led, v.led)
<1>1. CASE Steady(w)
  BY <1>1, PumpSteady
<1>2. ASSUME NEW p \in Exec, NEW ok \in BOOLEAN, Ending(w, p, ok)
      PROVE  LET v == Pumped(w, for)
             IN Quiet(v) /\ SameButOut(w, v) /\ Ages(w.led, v.led)
  <2>1. for = 0
    BY <1>2 DEF Ending
  <2> QED
    BY <1>2, <2>1, PumpLeg
<1> QED
  BY <1>1, <1>2 DEF Mid

(* _reconcile: what is unfinished is held by the controller.               *)
LEMMA ReconcileLedger ==
  ASSUME NEW l, Ledger(l), NEW plan
  PROVE  LET m == Reconcile(l, plan)
         IN /\ Ledger(m) /\ m \in [Exec -> Entries] /\ Ages(l, m)
            /\ \A e \in Exec : /\ Unf(m[e]) => plan = e
                               /\ l[e].phase = "FAULTED" => m[e] = l[e]
                               /\ e = plan /\ l[e].done = "no" => m[e] = l[e]
<1> DEFINE m == Reconcile(l, plan)
<1>1. \A e \in Exec : Sound(l[e])
  BY DEF Ledger
<1>2. m = [e \in Exec |-> Reconciled(l[e], e = plan)]
  BY DEF Reconcile
<1>3. \A e \in Exec : m[e] = Reconciled(l[e], e = plan)
  BY <1>2
<1> HIDE DEF m
<1>4. ASSUME NEW e \in Exec
      PROVE  /\ Sound(m[e]) /\ m[e] \in Entries
             /\ Live(m[e]) => m[e] = l[e]
             /\ Unf(m[e]) => plan = e
             /\ Prov(m[e]) => Prov(l[e])
             /\ l[e].phase = "FAULTED" => m[e] = l[e]
             /\ e = plan /\ l[e].done = "no" => m[e] = l[e]
  <2> DEFINE h == (e = plan)
  <2>1. h \in BOOLEAN /\ m[e] = Reconciled(l[e], h)
    BY <1>3
  <2>2. h <=> e = plan
    OBVIOUS
  <2> HIDE DEF h
  <2>3. /\ Sound(m[e])
        /\ ~Live(l[e]) => m[e] = l[e]
        /\ Live(m[e]) => m[e] = l[e] /\ (l[e].done = "no" => h)
        /\ h /\ l[e].done = "no" => m[e] = l[e]
        /\ m[e].phase = "APPLIED" => l[e].phase = "APPLIED"
        /\ m[e].phase = "COMPLETED" => l[e].phase \in {"APPLIED", "COMPLETED"}
    BY <1>1, <2>1, ReconciledSound
  <2>4. l[e].phase = "FAULTED" => ~Live(l[e])
    BY PhaseSets DEF Live
  <2> QED
    BY <2>2, <2>3, <2>4 DEF Unf, Prov, Sound
<1>5. m \in [Exec -> Entries]
  BY <1>2, <1>4
<1> QED
  BY <1>4, <1>5 DEF Ledger, Ages, Unf, m

(* The end of the pump: the operation is over.                             *)
LEMMA SettledRest ==
  ASSUME NEW w, Quiet(w)
  PROVE  LET v == Settled(w) IN Rest(v) /\ SameButOut(w, v) /\ Ages(w.led, v.led)
<1> DEFINE m == Reconcile(w.led, w.ctl.plan)
           v == [w EXCEPT !.led = m]
<1>1. /\ w \in Worlds /\ Ledger(w.led) /\ OneSource(w.ctl) /\ w.ctl.asks = <<>> /\ Steady(w)
      /\ ~w.ctl.commands /\ w.ctl \in Ctls
  BY DEF Quiet, Mid, Worlds
<1>2. /\ Ledger(m) /\ m \in [Exec -> Entries] /\ Ages(w.led, m)
      /\ \A e \in Exec : /\ Unf(m[e]) => w.ctl.plan = e
                         /\ w.led[e].phase = "FAULTED" => m[e] = w.led[e]
                         /\ e = w.ctl.plan /\ w.led[e].done = "no" => m[e] = w.led[e]
  BY <1>1, ReconcileLedger
<1>3. Settled(w) = v
  BY DEF Settled
<1> HIDE DEF m
<1>4. /\ v \in Worlds /\ v.led = m /\ v.ctl = w.ctl /\ v.pend = w.pend
      /\ v.authFault = w.authFault /\ v.trk = w.trk
  BY <1>1, <1>2, WithLed
<1> HIDE DEF v
<1>5. ASSUME w.ctl.plan # 0 PROVE Carries(m[w.ctl.plan], w.ctl.running, w.trk)
  <2>1. w.ctl.plan \in Exec
    BY <1>1, <1>5, Bounds DEF Ctls, Exec
  <2>2. Carries(w.led[w.ctl.plan], w.ctl.running, w.trk)
    BY <1>1, <1>5 DEF Steady
  <2>3. Sound(w.led[w.ctl.plan])
    BY <1>1, <2>1 DEF Ledger
  <2>4. w.led[w.ctl.plan].phase = "FAULTED" \/ w.led[w.ctl.plan].done = "no"
    BY <2>2, <2>3 DEF Carries, Runs, Sound, Moving
  <2> QED
    BY <1>2, <2>1, <2>2, <2>4
<1>6. Steady(v) /\ Held(v)
  BY <1>1, <1>2, <1>4, <1>5 DEF Steady, Held
<1>7. SameButOut(w, v)
  BY <1>4 DEF SameButOut
<1> QED
  BY <1>1, <1>2, <1>3, <1>4, <1>6, <1>7 DEF Rest, Quiet, Mid

(* An operation's pump and its reconciliation.                             *)
LEMMA PumpOpsRest ==
  ASSUME NEW w, Mid(w), link.epoch \in Nat
  PROVE  LET v == PumpOps(w) IN Rest(v) /\ SameButOut(w, v) /\ Ages(w.led, v.led)
<1> DEFINE u == Pumped(w, 0)
           v == Settled(u)
<1>1. Quiet(u) /\ SameButOut(w, u) /\ Ages(w.led, u.led)
  BY PumpMid, Bounds
<1>2. Rest(v) /\ SameButOut(u, v) /\ Ages(u.led, v.led)
  BY <1>1, SettledRest
<1> HIDE DEF u
<1>3. SameButOut(w, v)
  BY <1>1, <1>2 DEF SameButOut
<1>4. Ages(w.led, v.led)
  BY <1>1, <1>2 DEF Ages
<1> QED
  BY <1>2, <1>3, <1>4 DEF PumpOps, u

(* A DISARM takes nothing from the faults that the tracker has seen.       *)
LEMMA DisarmEvidence ==
  ASSUME NEW t \in Trks
  PROVE  DisarmSent(t).epoch = t.epoch /\ DisarmSent(t).faulted = t.faulted
BY DEF DisarmSent, Trks

(* A controller call that starts nothing.                                  *)
LEMMA ControlMid ==
  ASSUME NEW w, Mid(w), NEW d, Eases(w.ctl, d)
  PROVE  LET v == Control(w, d)
         IN /\ Mid(v) /\ v.led = w.led /\ v.authFault = w.authFault
            /\ (v.ctl.jog => w.ctl.jog) /\ v.ctl = [d EXCEPT !.asks = <<>>]
            /\ v.ctl.plan \in {0, w.ctl.plan} /\ (v.ctl.running => w.ctl.running)
            /\ \/ v.pend = w.pend /\ v.trk = w.trk /\ v.ctl.armed = w.ctl.armed
               \/ /\ v.pend = RequestAuthority(w, FALSE).pend /\ v.trk = DisarmSent(w.trk)
                  /\ ~v.ctl.armed
            /\ v.ctl.stopped => w.ctl.stopped \/ ~v.ctl.armed
<1> DEFINE v == Control(w, d)
<1>1. /\ w \in Worlds /\ Ledger(w.led) /\ OneSource(w.ctl) /\ w.ctl.asks = <<>>
      /\ w.ctl \in Ctls
  BY DEF Mid, Worlds
<1>2. /\ d \in Ctls /\ (d.jog => w.ctl.jog) /\ (d.soft => w.ctl.soft)
      /\ Kept(w.ctl, d) \/ Dropped(w.ctl, d) \/ Finished(w.ctl, d)
      /\ Asked(w.ctl, d) /\ (d.stopped => w.ctl.stopped \/ ~d.armed)
      /\ (d.running /\ w.ctl.armed => d.armed)
  BY DEF Eases
<1>3. \/ d.asks = <<>> /\ d.armed = w.ctl.armed
      \/ d.asks = <<FALSE>> /\ ~d.armed
  <2>1. Append(<<>>, FALSE) = <<FALSE>>
    OBVIOUS
  <2>2. \/ d.asks = w.ctl.asks /\ d.armed = w.ctl.armed
        \/ d.asks = Append(w.ctl.asks, FALSE) /\ ~d.armed
    BY <1>2, Zenon DEF Asked
  <2> QED
    BY <1>1, <2>1, <2>2, Zenon
<1>4. d.asks = <<>> \/ \E b \in BOOLEAN : d.asks = <<b>>
  BY <1>3
<1>5. /\ v \in Worlds /\ v.led = w.led /\ v.ctl = [d EXCEPT !.asks = <<>>]
      /\ v.authFault = w.authFault
      /\ d.asks = <<>> => v.pend = w.pend /\ v.trk = w.trk
      /\ d.asks = <<FALSE>> =>
           v = RequestAuthority([w EXCEPT !.ctl = [d EXCEPT !.asks = <<>>]], FALSE)
  BY <1>1, <1>2, <1>4, ControlShape
<1> HIDE DEF v
<1>6. /\ v.ctl.plan = d.plan /\ v.ctl.running = d.running /\ v.ctl.jog = d.jog
      /\ v.ctl.soft = d.soft /\ v.ctl.out = d.out /\ v.ctl.asks = <<>>
      /\ v.ctl.armed = d.armed /\ v.ctl.stopped = d.stopped
  BY <1>2, <1>5 DEF Ctls
<1>7. \/ v.pend = w.pend /\ v.trk = w.trk /\ v.ctl.armed = w.ctl.armed
      \/ /\ v.pend = RequestAuthority(w, FALSE).pend /\ v.trk = DisarmSent(w.trk)
         /\ ~v.ctl.armed
  <2>1. CASE d.asks = <<>> /\ d.armed = w.ctl.armed
    BY <1>5, <1>6, <2>1
  <2>2. CASE d.asks = <<FALSE>> /\ ~d.armed
    <3> DEFINE c == [d EXCEPT !.asks = <<>>]
               u == [w EXCEPT !.ctl = c]
    <3>1. u.pend = w.pend /\ u.trk = w.trk /\ u \in [DOMAIN w -> {u[k] : k \in DOMAIN w}]
      BY <1>1 DEF Worlds
    <3>2. /\ RequestAuthority(u, FALSE).pend = RequestAuthority(w, FALSE).pend
          /\ RequestAuthority(u, FALSE).trk = DisarmSent(w.trk)
      BY <1>1, <3>1 DEF RequestAuthority, Worlds
    <3> QED
      BY <1>5, <1>6, <2>2, <3>2
  <2> QED
    BY <1>3, <2>1, <2>2
<1>8. OneSource(v.ctl)
  BY <1>1, <1>2, <1>6 DEF OneSource, Kept, Dropped, Finished, Ctls
<1>9. Steady(v) \/ \E p \in Exec, ok \in BOOLEAN : Ending(v, p, ok)
  <2>1. CASE Kept(w.ctl, d)
    <3>1. v.trk.epoch = w.trk.epoch /\ v.trk.faulted = w.trk.faulted
      BY <1>1, <1>7, DisarmEvidence DEF Worlds
    <3>2. \A x, running : Carries(x, running, w.trk) => Carries(x, running, v.trk)
      BY <3>1 DEF Carries, Runs, Excuse
    <3>3. Steady(w) => Steady(v)
      BY <1>5, <1>6, <2>1, <3>2 DEF Kept, Steady
    <3>4. \A p \in Exec, ok \in BOOLEAN : Ending(w, p, ok) => Ending(v, p, ok)
      BY <1>5, <1>6, <2>1 DEF Kept, Ending
    <3> QED
      BY <3>3, <3>4 DEF Mid
  <2>2. CASE Dropped(w.ctl, d)
    BY <1>5, <1>6, <2>2 DEF Mid, Dropped, Steady, Ending
  <2>3. CASE Finished(w.ctl, d)
    <3>1. Steady(w)
      BY <2>3 DEF Mid, Ending, Finished
    <3>2. w.ctl.plan \in Exec /\ Runs(w.led[w.ctl.plan], w.trk)
      BY <1>1, <2>3, <3>1, Bounds DEF Finished, OneSource, Steady, Carries, Ctls, Exec
    <3>3. PICK ok \in BOOLEAN : d.out = Append(w.ctl.out, Leg(w.ctl.plan, ok))
      BY <2>3 DEF Finished
    <3>4. v.ctl.out = <<Leg(w.ctl.plan, ok)>>
      BY <1>6, <3>1, <3>3 DEF Steady
    <3>5. Ending(v, w.ctl.plan, ok)
      BY <1>5, <1>6, <2>3, <3>2, <3>4, PhaseSets DEF Ending, Finished, Runs, Live
    <3> QED
      BY <3>2, <3>5
  <2> QED
    BY <1>2, <2>1, <2>2, <2>3
<1>10. v.ctl.plan \in {0, w.ctl.plan} /\ (v.ctl.running => w.ctl.running)
  BY <1>2, <1>6 DEF Kept, Dropped, Finished
<1> QED
  BY <1>1, <1>2, <1>5, <1>6, <1>7, <1>8, <1>9, <1>10 DEF Mid, v

-----------------------------------------------------------------------------
(* The authority's requests on their way to the server.                    *)

\* What the server will be once it has handled all that is on its way.
Hot == IF wire.reqs = <<>> THEN rt.armed ELSE wire.reqs[Len(wire.reqs)]

\* The requests are answered in order; no ARM comes after a DISARM, and none
\* waits once the controller is disarmed.
Queue(p, armed) ==
  /\ \A i, j \in DOMAIN p : i < j /\ p[i].st \notin Answered => p[j].st \in {"queued", "cancelled"}
  /\ \A i, j \in DOMAIN p : i < j /\ ~p[i].arm => ~p[j].arm
  /\ \A i \in DOMAIN p : p[i].st = "cancelled" => p[i].arm
  /\ \A i \in DOMAIN p : p[i].arm /\ p[i].st = "queued" =>
       armed /\ \A j \in DOMAIN p : p[j].arm
  /\ \A i \in DOMAIN p : p[i].arm /\ ~armed => \E j \in DOMAIN p : i < j /\ ~p[j].arm

\* A DISARM that was sent has the last word, unless it was lost with the link:
\* then no ack will come for it.
Word(p) ==
  \A i \in DOMAIN p : ~p[i].arm =>
    /\ p[i].st = "sent" => ~Hot \/ (~wire.up /\ wire.acks = <<>>)
    /\ p[i].st \in {"acked", "ok"} => ~Hot

\* With no time-outs one request at a time is on its way.
Single(p) ==
  "slow" \notin ops.scene.trouble /\ wire.up =>
    /\ \A i \in DOMAIN p : p[i].st = "sent" =>
         \/ wire.reqs = <<p[i].arm>> /\ wire.acks = <<>>
         \/ wire.reqs = <<>> /\ Len(wire.acks) = 1
    /\ (\A i \in DOMAIN p : p[i].st # "sent") => wire.reqs = <<>> /\ wire.acks = <<>>
    /\ \A i \in DOMAIN p : ~p[i].arm /\ p[i].st \in {"acked", "ok"} => ~rt.armed

\* A server that is, or will be, armed is wanted so, or known to be at fault,
\* or a DISARM is not yet done with.
Wanted(p, armed, fault) ==
  Hot => \/ armed \/ fault
         \/ \E i \in DOMAIN p : ~p[i].arm /\ p[i].st \in {"queued", "sent", "failed"}

\* With no time-outs the link knows the generation that the server is armed with,
\* or none, unless the session is lost and that is known; and a controller that is
\* armed waits for no DISARM.
Matched == rt.armed /\ link.epoch = rt.epoch
Agreed(p, armed, fault) ==
  "slow" \notin ops.scene.trouble =>
    /\ armed => \A i \in DOMAIN p : p[i].arm
    /\ armed /\ link.epoch # 0 => Matched \/ (~wire.up /\ fault)
    /\ ~armed /\ p = <<>> => link.epoch = 0 \/ (~wire.up /\ fault)
    /\ \A i \in DOMAIN p : p[i].arm =>
         /\ p[i].st # "acked" /\ (p[i].st = "ok" /\ armed => Matched)
         /\ p[i].st = "sent" => \A j \in DOMAIN wire.acks :
              wire.acks[j].armed /\ ~wire.acks[j].faulted =>
                rt.armed /\ wire.acks[j].num = rt.epoch
    /\ \A i \in DOMAIN p : ~p[i].arm =>
         /\ p[i].st \in {"acked", "ok"} => link.epoch = 0
         /\ p[i].st = "failed" => link.epoch = 0 \/ ~wire.up

\* The control session may be slow or may be lost, but not both: the late answer
\* to one DISARM could pass for that of another, lost with the session.
OneTrouble == ~({"slow", "down"} \subseteq ops.scene.trouble)

Guarded(w) ==
  OneTrouble =>
    /\ w.ctl.stopped => ~w.ctl.armed
    /\ Queue(w.pend, w.ctl.armed) /\ Word(w.pend) /\ Single(w.pend)
    /\ Wanted(w.pend, w.ctl.armed, w.authFault) /\ Agreed(w.pend, w.ctl.armed, w.authFault)

\* A generation that has met a fault: it ended, or the fault is on.
Spent(epoch) == 1 <= epoch /\ epoch <= rt.epoch /\ (rt.epoch = epoch /\ rt.armed => rt.faulted)

\* A packet, or the tracker, tells of no fault but one of its generation.
Warned(t) == t.faulted => Spent(t.epoch) /\ "fault" \in ops.scene.trouble

\* Nothing is taken for applied that the servo has not taken, nor for faulted that
\* was not; the leg under way is of the server's generation.
Evid(w) ==
  /\ w.trk.candidate <= rt.last /\ w.trk.confirmed <= rt.last /\ Warned(w.trk)
  /\ \A e \in Exec : Prov(w.led[e]) => rt.last >= e
  /\ \A e \in Exec : Unf(w.led[e]) /\ w.led[e].epoch # None => Dated(w.led[e].epoch)

Whole(w) == Guarded(w) /\ Evid(w)

\* What an operation that asks nothing of the authority leaves as it was.
Calmer(w, v) ==
  /\ v.pend = w.pend /\ v.trk = w.trk /\ v.authFault = w.authFault
  /\ v.ctl.armed = w.ctl.armed /\ v.ctl.stopped = w.ctl.stopped
  /\ v.ctl.jog => w.ctl.jog
  /\ Ages(w.led, v.led)

(* It keeps the requests and the evidence in order.                        *)
LEMMA CalmerWhole ==
  ASSUME NEW w, NEW v, Whole(w), Calmer(w, v)
  PROVE  Whole(v)
<1>1. Guarded(v)
  BY DEF Whole, Guarded, Calmer
<1>2. Evid(v)
  <2>1. \A e \in Exec : Unf(v.led[e]) /\ v.led[e].epoch # None => Dated(v.led[e].epoch)
    BY DEF Whole, Evid, Calmer, Ages
  <2> QED
    BY <2>1 DEF Whole, Evid, Calmer, Ages
<1> QED
  BY <1>1, <1>2 DEF Whole

(* One such operation after another.                                       *)
LEMMA CalmerThen ==
  ASSUME NEW u, NEW v, NEW w, Calmer(u, v), Calmer(v, w)
  PROVE  Calmer(u, w)
<1>1. Ages(u.led, w.led)
  BY DEF Calmer, Ages
<1> QED
  BY <1>1 DEF Calmer

(* The pump is one.                                                        *)
LEMMA CalmerPump ==
  ASSUME NEW w, NEW v, SameButOut(w, v), Ages(w.led, v.led)
  PROVE  Calmer(w, v)
BY DEF SameButOut, Calmer

(* A DISARM request: an ARM that waits is dropped, and the DISARM that is  *)
(* on its way, or the new one, answers for it.                             *)
LEMMA DisarmGuards ==
  ASSUME NEW w \in Worlds, NEW armed, NEW fault, Queue(w.pend, armed), Word(w.pend),
         Single(w.pend), Wanted(w.pend, armed, fault), Agreed(w.pend, armed, fault)
  PROVE  LET q == RequestAuthority(w, FALSE).pend
         IN /\ Queue(q, FALSE) /\ Word(q) /\ Single(q) /\ Wanted(q, FALSE, fault)
            /\ Agreed(q, FALSE, fault)
<1> DEFINE p == w.pend
           n == Len(p)
           ask == [arm |-> FALSE, st |-> "queued"]
           dropped == [i \in DOMAIN p |->
                         IF p[i].arm /\ p[i].st = "queued"
                         THEN [p[i] EXCEPT !.st = "cancelled"] ELSE p[i]]
           covered == \E i \in DOMAIN p : ~p[i].arm /\ p[i].st \notin Answered
           q == RequestAuthority(w, FALSE).pend
<1>1. p \in Seq(Pends) /\ n \in Nat /\ DOMAIN p = 1..n
  BY DEF Worlds
<1>2. q = IF covered THEN p ELSE Append(dropped, ask)
  BY DEF RequestAuthority, Worlds
<1>3. \A i \in 1..n : p[i] \in Pends
  BY <1>1
<1>4. CASE covered
  <2>1. q = p
    BY <1>2, <1>4
  <2>2. PICK k \in 1..n : ~p[k].arm /\ p[k].st \notin Answered
    BY <1>1, <1>4
  <2> HIDE DEF p, q, n
  <2>3. Queue(p, FALSE)
    BY <1>1, <2>2 DEF Queue, p
  <2>4. p[k].st \in {"queued", "sent", "acked"}
    BY <1>3, <2>2 DEF Pends
  <2>5. Wanted(p, FALSE, fault)
    BY <1>1, <2>2, <2>4 DEF Wanted, Word, p
  <2>6. Agreed(p, FALSE, fault)
    BY <1>1, <2>2 DEF Agreed, p
  <2> QED
    BY <2>1, <2>3, <2>5, <2>6 DEF p, q
<1>5. CASE ~covered
  <2>1. \A i \in 1..n : /\ dropped[i].arm = p[i].arm
                        /\ \/ dropped[i].st = p[i].st /\ ~(p[i].arm /\ p[i].st = "queued")
                           \/ /\ p[i].arm /\ p[i].st = "queued" /\ dropped[i].st = "cancelled"
    BY <1>1, <1>3 DEF Pends
  <2>2. dropped \in Seq(Pends) /\ Len(dropped) = n
    <3>1. \A i \in 1..n : dropped[i] \in Pends
      BY <1>1, <1>3 DEF Pends, Answered
    <3>2. dropped \in [1..n -> Pends]
      BY <1>1, <3>1
    <3> QED
      BY <1>1, <3>2, SeqDef
  <2>3. q = Append(dropped, ask)
    BY <1>2, <1>5
  <2> HIDE DEF dropped, p, q, n
  <2>4. /\ DOMAIN q = 1..(n + 1) /\ q[n + 1] = ask
        /\ \A i \in 1..n : q[i] = dropped[i]
    BY <1>1, <2>2, <2>3
  <2>5. q[n + 1].arm = FALSE /\ q[n + 1].st = "queued"
    BY <2>4
  <2>6. \A i \in 1..n : /\ q[i].arm = p[i].arm
                        /\ \/ q[i].st = p[i].st /\ ~(p[i].arm /\ p[i].st = "queued")
                           \/ p[i].arm /\ p[i].st = "queued" /\ q[i].st = "cancelled"
    BY <2>1, <2>4
  <2>7. "cancelled" \in Answered /\ "queued" \notin Answered
    BY DEF Answered
  <2>8. Queue(q, FALSE)
    <3>1. ASSUME NEW i \in DOMAIN q, NEW j \in DOMAIN q, i < j, q[i].st \notin Answered
          PROVE  q[j].st \in {"queued", "cancelled"}
      <4>1. CASE j = n + 1
        BY <2>5, <4>1
      <4>2. CASE j # n + 1
        <5>1. i \in 1..n /\ j \in 1..n
          BY <1>1, <2>4, <3>1, <4>2
        <5>2. p[i].st \notin Answered
          BY <2>6, <2>7, <3>1, <5>1
        <5>3. p[j].st \in {"queued", "cancelled"}
          BY <1>1, <3>1, <5>1, <5>2 DEF Queue, p
        <5> QED
          BY <2>6, <5>1, <5>3
      <4> QED
        BY <4>1, <4>2
    <3>2. ASSUME NEW i \in DOMAIN q, NEW j \in DOMAIN q, i < j, ~q[i].arm
          PROVE  ~q[j].arm
      <4>1. CASE j = n + 1
        BY <2>5, <4>1
      <4>2. CASE j # n + 1
        <5>1. i \in 1..n /\ j \in 1..n
          BY <1>1, <2>4, <3>2, <4>2
        <5> QED
          BY <1>1, <2>6, <3>2, <5>1 DEF Queue, p
      <4> QED
        BY <4>1, <4>2
    <3>3. ASSUME NEW i \in DOMAIN q, q[i].arm PROVE i \in 1..n /\ q[i].st # "queued"
      BY <1>1, <2>4, <2>5, <2>6, <3>3
    <3>4. ASSUME NEW i \in DOMAIN q, q[i].arm
          PROVE  \E j \in DOMAIN q : i < j /\ ~q[j].arm
      <4>1. i < n + 1 /\ n + 1 \in DOMAIN q
        BY <1>1, <2>4, <3>3, <3>4
      <4> QED
        BY <2>5, <4>1
    <3>5. ASSUME NEW i \in DOMAIN q, q[i].st = "cancelled" PROVE q[i].arm
      BY <1>1, <2>4, <2>5, <2>6, <3>5 DEF Queue, p
    <3> QED
      BY <3>1, <3>2, <3>3, <3>4, <3>5 DEF Queue
  <2>9. ASSUME NEW i \in DOMAIN q, q[i].st \notin {"queued", "cancelled"}
        PROVE  i \in DOMAIN p /\ q[i].arm = p[i].arm /\ q[i].st = p[i].st
    BY <1>1, <2>4, <2>5, <2>6, <2>9
  <2>10. ASSUME NEW i \in DOMAIN p, p[i].st # "queued"
         PROVE  i \in DOMAIN q /\ q[i].arm = p[i].arm /\ q[i].st = p[i].st
    BY <1>1, <2>4, <2>6, <2>10
  <2>11. Word(q)
    BY <2>9 DEF Word, p
  <2>12. Single(q)
    BY <2>9, <2>10 DEF Single, p
  <2>13. Wanted(q, FALSE, fault)
    <3>1. n + 1 \in DOMAIN q
      BY <1>1, <2>4
    <3> QED
      BY <2>5, <3>1 DEF Wanted
  <2>14. Agreed(q, FALSE, fault)
    <3>1. q # <<>>
      BY <1>1, <2>4
    <3>2. \A i \in DOMAIN q : q[i].st \notin {"queued", "cancelled"} =>
            i \in DOMAIN p /\ q[i].arm = p[i].arm /\ q[i].st = p[i].st
      BY <2>9
    <3> QED
      BY <3>1, <3>2 DEF Agreed, p
  <2> QED
    BY <2>8, <2>11, <2>12, <2>13, <2>14 DEF q
<1> QED
  BY <1>4, <1>5

(* A controller call that starts nothing keeps them.                       *)
LEMMA ControlWhole ==
  ASSUME NEW w, Mid(w), Whole(w), rt.last \in Nat, NEW d, Eases(w.ctl, d)
  PROVE  Whole(Control(w, d))
<1> DEFINE v == Control(w, d)
<1>1. /\ v.led = w.led /\ v.authFault = w.authFault
      /\ \/ v.pend = w.pend /\ v.trk = w.trk /\ v.ctl.armed = w.ctl.armed
         \/ /\ v.pend = RequestAuthority(w, FALSE).pend /\ v.trk = DisarmSent(w.trk)
            /\ ~v.ctl.armed
      /\ v.ctl.stopped => w.ctl.stopped \/ ~v.ctl.armed
  BY ControlMid
<1>2. w \in Worlds /\ Guarded(w) /\ Evid(w) /\ w.trk \in Trks
  BY DEF Mid, Worlds, Whole
<1> HIDE DEF v
<1>3. Evid(v)
  <2>1. DisarmSent(w.trk).candidate = None /\ DisarmSent(w.trk).confirmed = w.trk.confirmed
    BY <1>2 DEF DisarmSent, Trks
  <2>2. None <= rt.last
    BY DEF None
  <2>3. v.trk.candidate <= rt.last /\ v.trk.confirmed <= rt.last
    BY <1>1, <1>2, <2>1, <2>2 DEF Evid
  <2>4. Warned(v.trk)
    BY <1>1, <1>2, DisarmEvidence DEF Evid, Warned
  <2> QED
    BY <1>1, <1>2, <2>3, <2>4 DEF Evid
<1>4. CASE v.pend = w.pend /\ v.ctl.armed = w.ctl.armed
  BY <1>1, <1>2, <1>3, <1>4 DEF Whole, Guarded, v
<1>5. CASE v.pend = RequestAuthority(w, FALSE).pend /\ ~v.ctl.armed
  <2> DEFINE q == v.pend
  <2>1. OneTrouble =>
          /\ Queue(q, FALSE) /\ Word(q) /\ Single(q) /\ Wanted(q, FALSE, w.authFault)
          /\ Agreed(q, FALSE, w.authFault)
    BY <1>2, <1>5, DisarmGuards DEF Guarded
  <2>2. OneTrouble => /\ Queue(q, v.ctl.armed) /\ Wanted(q, v.ctl.armed, v.authFault)
                      /\ Agreed(q, v.ctl.armed, v.authFault)
    BY <1>1, <1>5, <2>1 DEF Queue, Wanted, Agreed
  <2> QED
    BY <1>3, <1>5, <2>1, <2>2 DEF Whole, Guarded, v
<1> QED
  BY <1>1, <1>4, <1>5

-----------------------------------------------------------------------------
(* The operations.                                                         *)

(* One entry is marked or ended; the controller has not heard of it.       *)
LEMMA PutMid ==
  ASSUME NEW w, Mid(w), NEW e \in Exec, NEW x, Sound(x), Live(w.led[e]),
         Live(x) => x.phase = w.led[e].phase,
         w.ctl.plan = e => Live(x) /\ x.done = "no" /\ Steady(w)
  PROVE  LET v == [w EXCEPT !.led = [w.led EXCEPT ![e] = x]]
         IN /\ Mid(v) /\ v.ctl = w.ctl /\ v.pend = w.pend /\ v.authFault = w.authFault
            /\ v.trk = w.trk /\ v.led = [w.led EXCEPT ![e] = x] /\ v.led[e] = x
            /\ (Steady(w) => Steady(v))
            /\ \A d \in Exec : d # e => v.led[d] = w.led[d]
<1> DEFINE l == [w.led EXCEPT ![e] = x]
           v == [w EXCEPT !.led = l]
<1>1. w \in Worlds /\ Ledger(w.led) /\ OneSource(w.ctl) /\ w.ctl.asks = <<>> /\ w.ctl \in Ctls
  BY DEF Mid, Worlds
<1>2. /\ Ledger(l) /\ l \in [Exec -> Entries] /\ l[e] = x
      /\ \A d \in Exec : d # e => l[d] = w.led[d]
  BY <1>1, LedgerPut DEF Ledger
<1> HIDE DEF l
<1>3. /\ v \in Worlds /\ v.led = l /\ v.ctl = w.ctl /\ v.pend = w.pend
      /\ v.authFault = w.authFault /\ v.trk = w.trk
  BY <1>1, <1>2, WithLed
<1> HIDE DEF v
<1>4. ASSUME Steady(w) PROVE Steady(v)
  <2>1. ASSUME w.ctl.plan # 0 PROVE Carries(l[w.ctl.plan], w.ctl.running, w.trk)
    <3>1. w.ctl.plan \in Exec
      BY <1>1, <2>1, Bounds DEF Ctls, Exec
    <3>2. Carries(w.led[w.ctl.plan], w.ctl.running, w.trk)
      BY <1>4, <2>1 DEF Steady
    <3>3. CASE w.ctl.plan = e
      <4>1. w.led[e].phase # "FAULTED"
        BY PhaseSets DEF Live
      <4> QED
        BY <1>2, <3>2, <3>3, <4>1 DEF Carries, Runs
    <3>4. CASE w.ctl.plan # e
      BY <1>2, <3>1, <3>2, <3>4
    <3> QED
      BY <3>3, <3>4
  <2> QED
    BY <1>3, <1>4, <2>1 DEF Steady
<1>5. ASSUME NEW p \in Exec, NEW ok \in BOOLEAN, Ending(w, p, ok) PROVE Ending(v, p, ok)
  <2>1. Live(l[p]) => l[p].phase = w.led[p].phase /\ Live(w.led[p])
    BY <1>2
  <2> QED
    BY <1>3, <1>5, <2>1 DEF Ending
<1>6. Mid(v)
  BY <1>1, <1>2, <1>3, <1>4, <1>5 DEF Mid
<1> QED
  BY <1>2, <1>3, <1>4, <1>6 DEF l, v

(* _cancel_execution: the execution is no longer one to finish.            *)
LEMMA CancelRest ==
  ASSUME NEW w, Rest(w), NEW e \in Exec, Live(w.led[e]), link.epoch \in Nat
  PROVE  LET v == CancelExecution(w, e) IN Rest(v) /\ Calmer(w, v) /\ ~Unf(v.led[e])
<1> DEFINE y == w.led[e]
           x == [y EXCEPT !.cancel = TRUE, !.done = "no"]
           n == [w EXCEPT !.led = [w.led EXCEPT ![e] = x]]
           k == C!Cancel(w.ctl)
           u == IF w.ctl.plan = e THEN Control(n, k) ELSE n
           v == PumpOps(u)
<1>1. /\ w \in Worlds /\ Ledger(w.led) /\ Mid(w) /\ Steady(w) /\ Held(w) /\ w.ctl \in Ctls
      /\ w.led \in [Exec -> Entries] /\ Sound(y)
  BY DEF Rest, Quiet, Mid, Worlds, Ledger
<1>2. CancelExecution(w, e) = v
  <2>1. [w EXCEPT !.led[e].cancel = TRUE, !.led[e].done = "no"] = n
    BY <1>1 DEF Worlds
  <2> QED
    BY <2>1 DEF CancelExecution
<1>3. Sound(x) /\ Live(x) /\ x.phase = y.phase /\ x.done = "no"
  <2>1. y \in Entries
    BY <1>1 DEF Sound
  <2>2. x \in Entries /\ x.phase = y.phase /\ x.done = "no" /\ x.epoch = y.epoch
    BY <2>1 DEF Entries
  <2> HIDE DEF x
  <2> QED
    BY <1>1, <2>2 DEF Sound, Live
<1> HIDE DEF x
<1>4. /\ Mid(n) /\ n.ctl = w.ctl /\ n.pend = w.pend /\ n.authFault = w.authFault
      /\ n.trk = w.trk /\ n.led[e] = x /\ Steady(n)
      /\ \A d \in Exec : d # e => n.led[d] = w.led[d]
  BY <1>1, <1>3, PutMid
<1> HIDE DEF n
<1>5. /\ Mid(u) /\ u.led = n.led /\ u.ctl.plan # e /\ u.pend = w.pend
      /\ u.authFault = w.authFault /\ u.trk = w.trk /\ u.ctl.armed = w.ctl.armed
      /\ (u.ctl.jog => w.ctl.jog) /\ u.ctl.stopped = w.ctl.stopped
  <2>1. CASE w.ctl.plan # e
    BY <1>4, <2>1
  <2>2. CASE w.ctl.plan = e
    <3>1. /\ Rests(n.ctl, k) /\ k \in Ctls /\ k.plan = 0 /\ k.asks = w.ctl.asks
          /\ k.armed = w.ctl.armed /\ k.stopped = w.ctl.stopped
      BY <1>1, <1>4, CancelRests DEF Rests, Eases
    <3>2. w.ctl.asks = <<>> /\ e # 0
      BY <1>1, Bounds DEF Mid, Exec
    <3> HIDE DEF k
    <3>3. Eases(n.ctl, k)
      BY <3>1 DEF Rests
    <3>4. /\ Control(n, k).pend = n.pend /\ Control(n, k).trk = n.trk
      BY <1>4, <3>1, <3>2, ControlShape DEF Mid
    <3>5. LET c == Control(n, k)
          IN /\ Mid(c) /\ c.led = n.led /\ c.authFault = n.authFault
             /\ (c.ctl.jog => n.ctl.jog) /\ c.ctl = [k EXCEPT !.asks = <<>>]
      BY <1>4, <3>3, ControlMid
    <3> DEFINE g == [k EXCEPT !.asks = <<>>]
    <3>6. g.plan = 0 /\ g.armed = w.ctl.armed /\ g.stopped = w.ctl.stopped
      BY <3>1 DEF Ctls
    <3>7. u = Control(n, k)
      BY <2>2
    <3> HIDE DEF u, g
    <3>8. u.ctl = g
      BY <3>5, <3>7 DEF g
    <3> QED
      BY <1>4, <3>2, <3>4, <3>5, <3>6, <3>7, <3>8
  <2> QED
    BY <2>1, <2>2
<1> HIDE DEF u
<1>6. Rest(v) /\ SameButOut(u, v) /\ Ages(u.led, v.led)
  BY <1>5, PumpOpsRest
<1> HIDE DEF v
<1>7. ~Unf(v.led[e])
  BY <1>5, <1>6 DEF Rest, Held, SameButOut
<1>8. Ages(w.led, v.led)
  BY <1>3, <1>4, <1>5, <1>6, <1>7 DEF Ages, Prov
<1>9. Calmer(w, v)
  BY <1>5, <1>6, <1>8 DEF Calmer, SameButOut
<1> QED
  BY <1>2, <1>6, <1>7, <1>9

\* The loops over the executions: those looked at are not to be finished.
CancelKeep(base, seq, k, w) ==
  Rest(w) /\ Calmer(base, w) /\ \A j \in Exec : j <= k => ~Unf(w.led[j])
FC == INSTANCE FoldProofs WITH Op <- CancelUnfinished, Keep <- CancelKeep
FL == INSTANCE FoldProofs WITH Op <- CancelLive, Keep <- CancelKeep

(* A record that rests is calmer than itself.                              *)
LEMMA CalmerItself ==
  ASSUME NEW w
  PROVE  Calmer(w, w)
BY DEF Calmer, Ages

(* _abandon, hold, disarm: after the loop nothing is left to finish.       *)
LEMMA CancelAllRest ==
  ASSUME NEW w, Rest(w), link.epoch \in Nat
  PROVE  LET v == CancelAll(w)
         IN Rest(v) /\ Calmer(w, v) /\ \A e \in Exec : ~Unf(v.led[e])
<1> DEFINE seq == [e \in Exec |-> e]
<1>1. DOMAIN seq = 1..MaxExec /\ MaxExec \in Nat
  BY Bounds DEF Exec
<1>2. CancelKeep(w, seq, 0, w)
  BY CalmerItself DEF CancelKeep, Exec
<1>3. ASSUME NEW k \in Nat, NEW u, k + 1 <= MaxExec, CancelKeep(w, seq, k, u)
      PROVE  CancelKeep(w, seq, k + 1, CancelUnfinished(u, seq[k + 1]))
  <2> DEFINE e == k + 1
             v == CancelUnfinished(u, e)
  <2>1. e \in Exec /\ seq[k + 1] = e
    BY <1>3, Bounds DEF Exec
  <2>2. Rest(u) /\ Calmer(w, u) /\ \A j \in Exec : j <= k => ~Unf(u.led[j])
    BY <1>3 DEF CancelKeep
  <2>3. u.led \in [Exec -> Entries]
    BY <2>2 DEF Rest, Quiet, Mid, Ledger
  <2>4. e \in Unfinished(u.led) <=> Unf(u.led[e])
    BY <2>1, <2>3 DEF Unfinished, LiveExecs, Unf
  <2>5. Rest(v) /\ Calmer(u, v) /\ ~Unf(v.led[e])
    <3>1. CASE Unf(u.led[e])
      BY <2>1, <2>2, <2>4, <3>1, CancelRest DEF CancelUnfinished, Unf
    <3>2. CASE ~Unf(u.led[e])
      BY <2>2, <2>4, <3>2, CalmerItself DEF CancelUnfinished
    <3> QED
      BY <3>1, <3>2
  <2> HIDE DEF v
  <2>6. Calmer(w, v)
    BY <2>2, <2>5, CalmerThen
  <2>7. \A j \in Exec : j <= e => ~Unf(v.led[j])
    <3>1. \A j \in Exec : j <= e => j = e \/ j <= k
      BY Bounds DEF Exec
    <3> QED
      BY <2>2, <2>5, <3>1 DEF Calmer, Ages
  <2> QED
    BY <2>1, <2>5, <2>6, <2>7 DEF CancelKeep, v
<1> HIDE DEF seq
<1>4. CancelKeep(w, seq, MaxExec, FC!FoldLeft(CancelUnfinished, w, seq))
  BY <1>1, <1>2, <1>3, FC!FoldKeeps
<1>5. CancelAll(w) = FC!FoldLeft(CancelUnfinished, w, seq)
  BY Zenon DEF CancelAll, seq, FC!FoldLeft, S!FoldLeft, FC!MapThenFoldSet, S!MapThenFoldSet,
               FC!Max, S!Max
<1>6. \A j \in Exec : j <= MaxExec
  BY Bounds DEF Exec
<1> QED
  BY <1>4, <1>5, <1>6 DEF CancelKeep

(* _select_control_preset: the same, with the finished one.                *)
LEMMA CancelEveryRest ==
  ASSUME NEW w, Rest(w), link.epoch \in Nat
  PROVE  LET v == CancelEvery(w) IN Rest(v) /\ Calmer(w, v)
<1> DEFINE seq == [e \in Exec |-> e]
<1>1. DOMAIN seq = 1..MaxExec /\ MaxExec \in Nat
  BY Bounds DEF Exec
<1>2. CancelKeep(w, seq, 0, w)
  BY CalmerItself DEF CancelKeep, Exec
<1>3. ASSUME NEW k \in Nat, NEW u, k + 1 <= MaxExec, CancelKeep(w, seq, k, u)
      PROVE  CancelKeep(w, seq, k + 1, CancelLive(u, seq[k + 1]))
  <2> DEFINE e == k + 1
             v == CancelLive(u, e)
  <2>1. e \in Exec /\ seq[k + 1] = e
    BY <1>3, Bounds DEF Exec
  <2>2. Rest(u) /\ Calmer(w, u) /\ \A j \in Exec : j <= k => ~Unf(u.led[j])
    BY <1>3 DEF CancelKeep
  <2>3. u.led \in [Exec -> Entries]
    BY <2>2 DEF Rest, Quiet, Mid, Ledger
  <2>4. e \in LiveExecs(u.led) <=> Live(u.led[e])
    BY <2>1, <2>3 DEF LiveExecs
  <2>5. Rest(v) /\ Calmer(u, v) /\ ~Unf(v.led[e])
    <3>1. CASE Live(u.led[e])
      BY <2>1, <2>2, <2>4, <3>1, CancelRest DEF CancelLive
    <3>2. CASE ~Live(u.led[e])
      BY <2>2, <2>4, <3>2, CalmerItself DEF CancelLive, Unf
    <3> QED
      BY <3>1, <3>2
  <2> HIDE DEF v
  <2>6. Calmer(w, v)
    BY <2>2, <2>5, CalmerThen
  <2>7. \A j \in Exec : j <= e => ~Unf(v.led[j])
    <3>1. \A j \in Exec : j <= e => j = e \/ j <= k
      BY Bounds DEF Exec
    <3> QED
      BY <2>2, <2>5, <3>1 DEF Calmer, Ages
  <2> QED
    BY <2>1, <2>5, <2>6, <2>7 DEF CancelKeep, v
<1> HIDE DEF seq
<1>4. CancelKeep(w, seq, MaxExec, FL!FoldLeft(CancelLive, w, seq))
  BY <1>1, <1>2, <1>3, FL!FoldKeeps
<1>5. CancelEvery(w) = FL!FoldLeft(CancelLive, w, seq)
  BY Zenon DEF CancelEvery, seq, FL!FoldLeft, S!FoldLeft, FL!MapThenFoldSet, S!MapThenFoldSet,
               FL!Max, S!Max
<1> QED
  BY <1>4, <1>5 DEF CancelKeep

(* The current execution is the live one.                                  *)
LEMMA CurrentIs ==
  ASSUME NEW l, Ledger(l)
  PROVE  \/ Current(l) = 0 /\ \A e \in Exec : ~Live(l[e])
         \/ Current(l) \in Exec /\ Live(l[Current(l)])
<1>1. l \in [Exec -> Entries] /\ LiveExecs(l) = {e \in Exec : Live(l[e])}
  BY DEF Ledger, LiveExecs
<1>2. CASE LiveExecs(l) = {}
  BY <1>1, <1>2 DEF Current
<1>3. ASSUME NEW c \in LiveExecs(l) PROVE Current(l) \in Exec /\ Live(l[Current(l)])
  <2>1. LiveExecs(l) = {c}
    BY <1>1, <1>3 DEF Ledger
  <2>2. c \in Int
    BY <1>1, Bounds DEF Exec
  <2>3. Max({c}) = c
    <3>1. c \in {c} /\ \A y \in {c} : c >= y
      BY <2>2
    <3> QED
      BY <3>1 DEF Max
  <2>4. Current(l) = c
    BY <2>1, <2>3 DEF Current
  <2> QED
    BY <1>1, <2>4
<1> QED
  BY <1>2, <1>3

(* What an operation may only take away: the setpoint, what is unfinished. *)
Onward(w, v) ==
  /\ v.ctl.jog => w.ctl.jog
  /\ \A e \in Exec : Unf(v.led[e]) => Unf(w.led[e])

(* A calm operation does.                                                  *)
LEMMA CalmerOnward ==
  ASSUME NEW w, NEW v, Calmer(w, v)
  PROVE  Onward(w, v)
BY DEF Calmer, Ages, Onward

(* One after another.                                                      *)
LEMMA OnwardThen ==
  ASSUME NEW u, NEW v, NEW w, Onward(u, v), Onward(v, w)
  PROVE  Onward(u, w)
BY DEF Onward

(* A staged execution is ended, and its plan dropped if it is there.       *)
LEMMA EndStagedMid ==
  ASSUME NEW w, Mid(w), NEW e \in Exec, w.led[e].phase = "ADMITTED",
         NEW q \in {"EXPIRED", "REJECTED"}, link.epoch \in Nat
  PROVE  LET v == EndStaged(w, e, q)
         IN /\ Mid(v) /\ Calmer(w, v) /\ ~Live(v.led[e])
            /\ w.ctl.running => v.ctl.running
            /\ v.ctl.plan \in {0, w.ctl.plan}
            /\ Steady(w) /\ ~w.ctl.commands => Quiet(v)
<1> DEFINE x == EndedAs(q)
           l == [w.led EXCEPT ![e] = x]
           n == [w EXCEPT !.led = l]
           k == C!Cancel(w.ctl)
           u == Control(n, k)
           v == EndStaged(w, e, q)
<1>1. w \in Worlds /\ Ledger(w.led) /\ OneSource(w.ctl) /\ w.ctl.asks = <<>> /\ w.ctl \in Ctls
      /\ w.led \in [Exec -> Entries] /\ Sound(w.led[e]) /\ w.led[e] \in Entries
  BY DEF Mid, Worlds, Ledger, Sound
<1>2. Sound(x) /\ ~Live(x) /\ x.phase = q
  BY EndedSound, PhaseSets
<1>3. Receipt(w.led[e], q) = x
  BY <1>1, ReceiptEnds
<1>4. v = IF w.ctl.plan = e THEN Pumped(u, 0) ELSE n
  BY <1>3 DEF EndStaged
<1>5. ~Unf(x) /\ ~Prov(x) /\ Live(w.led[e])
  BY <1>1, <1>2, LiveIs DEF Unf, Prov
<1> HIDE DEF x
<1>6. CASE w.ctl.plan # e
  <2>1. /\ Mid(n) /\ n.ctl = w.ctl /\ n.pend = w.pend /\ n.authFault = w.authFault
        /\ n.trk = w.trk /\ n.led[e] = x /\ (Steady(w) => Steady(n))
        /\ \A d \in Exec : d # e => n.led[d] = w.led[d]
    BY <1>2, <1>5, <1>6, PutMid
  <2> HIDE DEF n
  <2>2. Ages(w.led, n.led)
    BY <1>5, <2>1 DEF Ages
  <2>3. Calmer(w, n)
    BY <2>1, <2>2 DEF Calmer
  <2> QED
    BY <1>2, <1>4, <1>6, <2>1, <2>3 DEF Quiet
<1>7. CASE w.ctl.plan = e
  <2>1. Steady(w) /\ ~w.ctl.running
    <3>1. e # 0
      BY Bounds DEF Exec
    <3>2. Steady(w)
      BY <1>7, <3>1 DEF Mid, Ending
    <3> QED
      BY <1>7, <3>1, <3>2 DEF Steady, Carries, Runs, Moving
  <2>2. /\ Ledger(l) /\ l \in [Exec -> Entries] /\ l[e] = x
        /\ \A d \in Exec : d # e => l[d] = w.led[d]
    BY <1>1, <1>2, LedgerPut
  <2> HIDE DEF l
  <2>3. /\ n \in Worlds /\ n.led = l /\ n.ctl = w.ctl /\ n.pend = w.pend
        /\ n.authFault = w.authFault /\ n.trk = w.trk
    BY <1>1, <2>2, WithLed
  <2>4. /\ k \in Ctls /\ k.plan = 0 /\ ~k.jog /\ ~k.soft /\ ~k.running /\ k.out = <<>>
        /\ k.asks = <<>> /\ k.armed = w.ctl.armed /\ k.stopped = w.ctl.stopped
    <3>1. Rests(w.ctl, k) /\ k.plan = 0 /\ ~k.jog /\ ~k.soft /\ ~k.running
      BY <1>1, CancelRests
    <3> HIDE DEF k
    <3> QED
      BY <1>1, <2>1, <3>1 DEF Rests, Eases, Kept, Dropped, Finished, Steady
  <2> HIDE DEF n, k
  <2>5. /\ u \in Worlds /\ u.led = l /\ u.ctl = [k EXCEPT !.asks = <<>>]
        /\ u.authFault = w.authFault /\ u.pend = w.pend /\ u.trk = w.trk
    BY <2>3, <2>4, ControlShape
  <2> HIDE DEF u
  <2>6. /\ u.ctl.plan = 0 /\ ~u.ctl.jog /\ ~u.ctl.soft /\ ~u.ctl.running /\ u.ctl.out = <<>>
        /\ u.ctl.asks = <<>> /\ u.ctl.armed = w.ctl.armed
        /\ u.ctl.stopped = w.ctl.stopped
    BY <2>4, <2>5 DEF Ctls
  <2>7. Mid(u) /\ Steady(u)
    BY <2>2, <2>5, <2>6 DEF Mid, Steady, OneSource
  <2>8. Quiet(v) /\ SameButOut(u, v) /\ v.led = l
    BY <1>4, <1>7, <2>5, <2>7, PumpSteady, Bounds
  <2> HIDE DEF v
  <2>9. Ages(w.led, v.led)
    BY <1>5, <2>2, <2>8 DEF Ages
  <2>10. Calmer(w, v)
    BY <2>5, <2>6, <2>8, <2>9 DEF Calmer, SameButOut
  <2> QED
    BY <1>2, <2>1, <2>2, <2>6, <2>8, <2>10 DEF Quiet, SameButOut, v
<1> QED
  BY <1>6, <1>7

(* In an operation it is the last thing done.                              *)
LEMMA EndStagedRest ==
  ASSUME NEW w, Rest(w), NEW e \in Exec, w.led[e].phase = "ADMITTED",
         NEW q \in {"EXPIRED", "REJECTED"}, link.epoch \in Nat
  PROVE  LET v == EndStaged(w, e, q) IN Rest(v) /\ Calmer(w, v)
<1> DEFINE v == EndStaged(w, e, q)
<1>1. Mid(w) /\ Steady(w) /\ ~w.ctl.commands /\ Ledger(w.led)
  BY DEF Rest, Quiet, Mid
<1>2. Quiet(v) /\ Calmer(w, v) /\ ~Live(v.led[e])
  BY <1>1, EndStagedMid
<1>3. Live(w.led[e])
  BY <1>1, PhaseSets DEF Live
<1> HIDE DEF v
<1>4. Held(v)
  BY <1>1, <1>2, <1>3 DEF Held, Calmer, Ages, Unf, Ledger
<1> QED
  BY <1>2, <1>4 DEF Rest, v

(* The expiry at the head of a step's second half.                         *)
LEMMA DueMid ==
  ASSUME NEW w, Mid(w), NEW expired \in BOOLEAN, link.epoch \in Nat
  PROVE  LET v == Due(w, expired)
         IN /\ Mid(v) /\ Calmer(w, v) /\ (w.ctl.running => v.ctl.running)
            /\ v.ctl.plan \in {0, w.ctl.plan}
<1>1. Ledger(w.led)
  BY DEF Mid
<1>2. CASE expired /\ Current(w.led) # 0
  <2> DEFINE e == Current(w.led)
  <2>1. e \in Exec
    BY <1>1, <1>2, CurrentIs
  <2>2. Due(w, expired) = Expire(w, e)
    BY <1>2 DEF Due
  <2> HIDE DEF e
  <2> QED
    BY <2>1, <2>2, EndStagedMid, CalmerItself DEF Expire
<1>3. CASE ~(expired /\ Current(w.led) # 0)
  BY <1>3, CalmerItself DEF Due
<1> QED
  BY <1>2, <1>3

-----------------------------------------------------------------------------
(* One step of the loop.                                                   *)

\* The link's packets: they say nothing of the servo that is not so.
Packets == [armed : BOOLEAN, faulted : BOOLEAN, epoch : Nat, last : Nat, stop : Nat, seq : {1}]
Truthful(p) == p \in Packets /\ p.last <= rt.last /\ Warned(p)

(* The first request is taken off.                                         *)
LEMMA TailGuards ==
  ASSUME NEW p \in Seq(Pends), p # <<>>, NEW armed \in BOOLEAN, NEW fault \in BOOLEAN,
         Queue(p, armed), Word(p), Single(p), Wanted(p, armed, fault), Agreed(p, armed, fault),
         NEW noted \in BOOLEAN, p[1].st \in Answered,
         noted = IF p[1].st = "cancelled" THEN fault ELSE (p[1].st = "failed")
  PROVE  LET q == Tail(p)
         IN /\ Queue(q, armed) /\ Word(q) /\ Single(q) /\ Wanted(q, armed, noted)
            /\ Agreed(q, armed, noted)
<1> DEFINE q == Tail(p)
           n == Len(p)
<1>1. n \in Nat \ {0} /\ DOMAIN p = 1..n /\ DOMAIN q = 1..(n - 1)
      /\ \A i \in 1..(n - 1) : q[i] = p[i + 1]
  BY DEF Pends
<1>2. \A i \in DOMAIN q : i + 1 \in DOMAIN p /\ q[i] = p[i + 1] /\ i \in Int
  BY <1>1
<1>3. \A j \in DOMAIN p : j \in Int /\ (j = 1 \/ (1 < j /\ j - 1 \in DOMAIN q /\ q[j - 1] = p[j]))
  <2> SUFFICES ASSUME NEW j \in DOMAIN p, j # 1
               PROVE  j \in Int /\ 1 < j /\ j - 1 \in DOMAIN q /\ q[j - 1] = p[j]
    BY <1>1
  <2>1. j \in Int /\ 1 < j /\ j - 1 \in 1..(n - 1) /\ (j - 1) + 1 = j
    BY <1>1
  <2> QED
    BY <1>1, <2>1
<1>4. p[1].st # "sent" /\ p[1].st \in {"ok", "failed", "cancelled"} /\ 1 \in DOMAIN p
  BY <1>1 DEF Answered
<1> HIDE DEF q, n
<1>5. Queue(q, armed)
  <2>1. ASSUME NEW i \in DOMAIN q, NEW j \in DOMAIN q, i < j, q[i].st \notin Answered
        PROVE  q[j].st \in {"queued", "cancelled"}
    <3>1. i + 1 < j + 1
      BY <1>2, <2>1
    <3> QED
      BY <1>2, <2>1, <3>1 DEF Queue
  <2>2. ASSUME NEW i \in DOMAIN q, NEW j \in DOMAIN q, i < j, ~q[i].arm
        PROVE  ~q[j].arm
    <3>1. i + 1 < j + 1
      BY <1>2, <2>2
    <3> QED
      BY <1>2, <2>2, <3>1 DEF Queue
  <2>3. \A i \in DOMAIN q : /\ q[i].st = "cancelled" => q[i].arm
                            /\ q[i].arm /\ q[i].st = "queued" =>
                                 armed /\ \A j \in DOMAIN q : q[j].arm
    BY <1>2 DEF Queue
  <2>4. ASSUME NEW i \in DOMAIN q, q[i].arm, ~armed
        PROVE  \E j \in DOMAIN q : i < j /\ ~q[j].arm
    <3>1. PICK j \in DOMAIN p : i + 1 < j /\ ~p[j].arm
      BY <1>2, <2>4 DEF Queue
    <3>2. j # 1 /\ i < j - 1
      BY <1>1, <1>2, <1>3, <3>1
    <3> QED
      BY <1>3, <3>1, <3>2
  <2> QED
    BY <2>1, <2>2, <2>3, <2>4 DEF Queue
<1>6. Word(q)
  BY <1>2 DEF Word
<1>7. Single(q)
  <2>1. (\A i \in DOMAIN q : q[i].st # "sent") => \A i \in DOMAIN p : p[i].st # "sent"
    BY <1>3, <1>4
  <2>2. \A i \in DOMAIN q : \E j \in DOMAIN p : p[j] = q[i]
    BY <1>2
  <2> QED
    BY <2>1, <2>2 DEF Single
<1>8. Wanted(q, armed, noted)
  <2> SUFFICES ASSUME Hot, ~armed, ~noted
               PROVE  \E i \in DOMAIN q : ~q[i].arm /\ q[i].st \in {"queued", "sent", "failed"}
    BY DEF Wanted
  <2>1. p[1].st # "failed"
    BY <1>4
  <2>2. ASSUME NEW j \in DOMAIN p, ~p[j].arm, p[j].st \in {"queued", "sent", "failed"}
        PROVE  \E i \in DOMAIN q : ~q[i].arm /\ q[i].st \in {"queued", "sent", "failed"}
    <3>1. j # 1
      BY <1>4, <2>1, <2>2
    <3> QED
      BY <1>3, <2>2, <3>1
  <2>3. CASE p[1].st = "cancelled"
    BY <2>2, <2>3 DEF Wanted
  <2>4. CASE p[1].st = "ok"
    <3>1. p[1].arm
      BY <1>4, <2>4 DEF Word
    <3>2. PICK j \in DOMAIN p : 1 < j /\ ~p[j].arm
      BY <1>4, <3>1 DEF Queue
    <3>3. p[j].st \in {"queued", "sent", "failed", "acked", "ok", "cancelled"}
      <4>1. p[j] \in Pends
        OBVIOUS
      <4> QED
        BY <4>1 DEF Pends, Answered
    <3>4. p[j].st \notin {"acked", "ok", "cancelled"}
      BY <3>2 DEF Word, Queue
    <3> QED
      BY <2>2, <3>2, <3>3, <3>4
  <2> QED
    BY <1>4, <2>1, <2>3, <2>4
<1>9. Agreed(q, armed, noted)
  <2> SUFFICES ASSUME "slow" \notin ops.scene.trouble PROVE Agreed(q, armed, noted)
    BY DEF Agreed
  <2>1. armed /\ link.epoch # 0 => Matched \/ (~wire.up /\ noted)
    <3> SUFFICES ASSUME armed, link.epoch # 0, ~Matched PROVE ~wire.up /\ noted
      OBVIOUS
    <3>1. ~wire.up /\ fault /\ p[1].arm
      BY <1>4 DEF Agreed
    <3>2. p[1].st # "ok"
      BY <1>4, <3>1 DEF Agreed
    <3> QED
      BY <1>4, <3>1, <3>2
  <2>2. ~armed /\ q = <<>> => link.epoch = 0 \/ (~wire.up /\ noted)
    <3> SUFFICES ASSUME ~armed, q = <<>> PROVE link.epoch = 0 \/ (~wire.up /\ noted)
      OBVIOUS
    <3>1. DOMAIN q = {}
      OBVIOUS
    <3>2. ~p[1].arm
      BY <1>3, <1>4, <3>1 DEF Queue
    <3>3. p[1].st \in {"ok", "failed"}
      BY <1>4, <3>2 DEF Queue
    <3> QED
      BY <1>4, <3>2, <3>3 DEF Agreed
  <2>3. \A i \in DOMAIN q : \E j \in DOMAIN p : p[j] = q[i]
    BY <1>2
  <2> QED
    BY <2>1, <2>2, <2>3 DEF Agreed
<1> QED
  BY <1>5, <1>6, <1>7, <1>8, <1>9 DEF q

\* The faults that the tracker has seen stay as they are.
AsSeen(w, v) == v.trk.epoch = w.trk.epoch /\ v.trk.faulted = w.trk.faulted

\* The authority's answers are taken.
DrainKeep(base, seq, k, w) == Mid(w) /\ Whole(w) /\ Onward(base, w) /\ AsSeen(base, w)
FD == INSTANCE FoldProofs WITH Op <- DrainOne, Keep <- DrainKeep

(* One answered request, or none.                                          *)
LEMMA DrainOneMid ==
  ASSUME NEW w, Mid(w), Whole(w), rt.last \in Nat, NEW i
  PROVE  LET v == DrainOne(w, i) IN Mid(v) /\ Whole(v) /\ Onward(w, v) /\ AsSeen(w, v)
<1> DEFINE h == Head(w.pend)
           rest == [w EXCEPT !.pend = Tail(w.pend)]
           noted == [rest EXCEPT !.authFault = (h.st = "failed")]
           v == DrainOne(w, i)
<1>1. /\ w \in Worlds /\ w.pend \in Seq(Pends) /\ w.authFault \in BOOLEAN /\ w.ctl \in Ctls
      /\ w.ctl.armed \in BOOLEAN
  BY DEF Mid, Worlds, Ctls
<1>2. CASE w.pend = <<>> \/ h.st \notin Answered
  <2>1. v = w
    BY <1>2 DEF DrainOne
  <2> QED
    BY <2>1 DEF Onward, AsSeen
<1>3. CASE w.pend # <<>> /\ h.st \in Answered
  <2>1. h = w.pend[1] /\ Tail(w.pend) \in Seq(Pends)
    BY <1>1, <1>3
  <2> DEFINE t == Tail(w.pend)
             a == IF w.pend[1].st = "cancelled" THEN w.authFault ELSE (w.pend[1].st = "failed")
             u == [[w EXCEPT !.pend = t] EXCEPT !.authFault = a]
  <2>2. a \in BOOLEAN
    BY <1>1
  <2>3. OneTrouble =>
          /\ Queue(t, w.ctl.armed) /\ Word(t) /\ Single(t) /\ Wanted(t, w.ctl.armed, a)
          /\ Agreed(t, w.ctl.armed, a)
    BY <1>1, <1>3, <2>1, <2>2, TailGuards DEF Whole, Guarded
  <2>4. u = IF h.st = "cancelled" THEN rest ELSE noted
    <3>1. [rest EXCEPT !.authFault = w.authFault] = rest
      BY <1>1 DEF Worlds
    <3> QED
      BY <2>1, <3>1
  <2>5. v = IF h.st # "cancelled" /\ h.arm /\ h.st = "failed" /\ w.ctl.armed
            THEN Control(u, C!SetArm(w.ctl, FALSE)) ELSE u
    BY <1>3, <2>4 DEF DrainOne
  <2> HIDE DEF t, a
  <2>6. /\ u \in Worlds /\ u.led = w.led /\ u.ctl = w.ctl /\ u.pend = t /\ u.authFault = a
        /\ u.trk = w.trk
    BY <1>1, <2>1, <2>2 DEF Worlds, t
  <2> HIDE DEF u, v
  <2>7. Mid(u)
    BY <2>6 DEF Mid, Steady, Ending
  <2>8. Whole(u)
    BY <2>3, <2>6 DEF Whole, Guarded, Evid
  <2>9. Onward(w, u) /\ AsSeen(w, u)
    BY <2>6 DEF Onward, AsSeen
  <2>10. CASE v = u
    BY <2>7, <2>8, <2>9, <2>10 DEF v
  <2>11. CASE v = Control(u, C!SetArm(w.ctl, FALSE))
    <3> DEFINE d == C!SetArm(w.ctl, FALSE)
    <3>1. Eases(u.ctl, d)
      BY <1>1, <2>6, DisarmEases
    <3> HIDE DEF d
    <3>2. /\ Mid(v) /\ v.led = u.led /\ (v.ctl.jog => u.ctl.jog)
          /\ v.trk \in {u.trk, DisarmSent(u.trk)}
      BY <2>7, <2>11, <3>1, ControlMid DEF d
    <3>3. Whole(v)
      BY <2>7, <2>8, <2>11, <3>1, ControlWhole DEF d
    <3>4. Onward(w, v)
      BY <2>6, <3>2 DEF Onward
    <3>5. AsSeen(w, v)
      BY <2>6, <3>2, DisarmEvidence DEF AsSeen, Worlds
    <3> QED
      BY <3>2, <3>3, <3>4, <3>5 DEF v
  <2> QED
    BY <2>5, <2>10, <2>11
<1> QED
  BY <1>2, <1>3

(* _drain_authority.                                                       *)
LEMMA DrainMid ==
  ASSUME NEW w, Mid(w), Whole(w), rt.last \in Nat
  PROVE  LET v == Drain(w) IN Mid(v) /\ Whole(v) /\ Onward(w, v) /\ AsSeen(w, v)
<1> DEFINE n == Len(w.pend) + 1
           seq == [i \in 1..n |-> i]
<1>1. n \in Nat /\ DOMAIN seq = 1..n
  <2>1. w.pend \in Seq(Pends)
    BY DEF Mid, Worlds
  <2> QED
    BY <2>1
<1>2. DrainKeep(w, seq, 0, w)
  BY DEF DrainKeep, Onward, AsSeen
<1>3. ASSUME NEW k \in Nat, NEW u, k + 1 <= n, DrainKeep(w, seq, k, u)
      PROVE  DrainKeep(w, seq, k + 1, DrainOne(u, seq[k + 1]))
  <2> DEFINE v == DrainOne(u, seq[k + 1])
  <2>1. Mid(v) /\ Whole(v) /\ Onward(u, v) /\ AsSeen(u, v) /\ Onward(w, u) /\ AsSeen(w, u)
    BY <1>3, DrainOneMid DEF DrainKeep
  <2> HIDE DEF v
  <2>2. Onward(w, v) /\ AsSeen(w, v)
    BY <2>1, OnwardThen DEF AsSeen
  <2> QED
    BY <2>1, <2>2 DEF DrainKeep, v
<1>4. Drain(w) = FD!FoldLeft(DrainOne, w, seq)
  BY Zenon DEF Drain, seq, n, FD!FoldLeft, S!FoldLeft, FD!MapThenFoldSet, S!MapThenFoldSet,
               FD!Max, S!Max
<1> HIDE DEF seq, n
<1>5. DrainKeep(w, seq, n, FD!FoldLeft(DrainOne, w, seq))
  BY <1>1, <1>2, <1>3, FD!FoldKeeps
<1> QED
  BY <1>4, <1>5 DEF DrainKeep

\* A fault that x tells of and that is still on is one that the packet p shows.
Shows(x, p) ==
  OneFault /\ x.faulted /\ x.epoch = rt.epoch /\ rt.faulted => p.faulted

\* What the tracker holds is no more than the servo has taken, and its fault is one
\* it knew of or a packet's.
Modest(t) ==
  t \in Trks /\ t.candidate <= rt.last /\ t.confirmed <= rt.last /\ Warned(t)
FedKeep(base, seq, k, t) ==
  /\ Modest(t)
  /\ t.faulted => \/ base.faulted /\ base.epoch = t.epoch
                  \/ \E i \in DOMAIN seq : seq[i].faulted /\ seq[i].epoch = t.epoch
FF == INSTANCE FoldProofs WITH Op <- Fed, Keep <- FedKeep

(* One packet.                                                             *)
LEMMA FedModest ==
  ASSUME NEW t, Modest(t), NEW p, Truthful(p), rt.last \in Nat
  PROVE  LET f == Fed(t, p)
         IN /\ Modest(f)
            /\ f.faulted => \/ t.faulted /\ t.epoch = f.epoch
                            \/ p.faulted /\ p.epoch = f.epoch
<1> DEFINE e == Enter(t, p.epoch)
           f == Feed(t, p)
           seen == [e EXCEPT !.last = p.seq, !.faulted = e.faulted \/ p.faulted]
           shut == [seen EXCEPT !.closed = TRUE, !.candidate = None]
           good == [seen EXCEPT !.candidate = p.last,
                                !.confirmed = IF e.candidate # None THEN e.candidate
                                              ELSE e.confirmed]
           Mild(x) == x \in Trks /\ x.candidate <= rt.last /\ x.confirmed <= rt.last
           Known(x) == x.faulted => \/ t.faulted /\ t.epoch = x.epoch
                                    \/ p.faulted /\ p.epoch = x.epoch
<1>1. /\ t \in Trks /\ t.candidate <= rt.last /\ t.confirmed <= rt.last
      /\ p \in Packets /\ p.epoch \in Nat /\ p.seq \in Int /\ p.last \in Nat /\ p.last <= rt.last
      /\ p.faulted \in BOOLEAN
  BY DEF Modest, Truthful, Packets
<1>2. None <= rt.last /\ None \in Int
  BY DEF None
<1>3. e \in Trks /\ e.candidate <= rt.last /\ e.confirmed <= rt.last /\ Known(e)
  <2> DEFINE n == [NewTracker EXCEPT !.epoch = p.epoch]
  <2>1. n \in Trks /\ n.candidate = None /\ n.confirmed = None /\ ~n.faulted
    <3>1. /\ NewTracker \in Trks /\ NewTracker.candidate = None /\ NewTracker.confirmed = None
          /\ ~NewTracker.faulted
      BY <1>2 DEF NewTracker, Trks
    <3>2. p.epoch \in Int
      BY <1>1
    <3> QED
      BY <3>1, <3>2 DEF Trks
  <2>2. e \in {t, n}
    BY DEF Enter
  <2> HIDE DEF n
  <2> QED
    BY <1>1, <1>2, <2>1, <2>2
<1>4. f = e \/ (f \in {seen, shut, good} /\ p.epoch = e.epoch)
  <2>1. f = e \/ (f = Judge(e, p) /\ p.epoch = e.epoch)
    BY DEF Feed
  <2>2. Judge(e, p) \in {seen, shut, good}
    BY DEF Judge
  <2> QED
    BY <2>1, <2>2
<1> HIDE DEF e
<1>5. /\ seen \in Trks /\ seen.candidate = e.candidate /\ seen.confirmed = e.confirmed
      /\ seen.epoch = e.epoch
  BY <1>1, <1>3 DEF Trks
<1>10. seen.faulted <=> e.faulted \/ p.faulted
  BY <1>1, <1>3 DEF Trks
<1> HIDE DEF seen
<1>6. Mild(shut) /\ shut.epoch = e.epoch /\ (shut.faulted <=> seen.faulted)
  BY <1>2, <1>3, <1>5 DEF Trks
<1>7. Mild(good) /\ good.epoch = e.epoch /\ (good.faulted <=> seen.faulted)
  <2> DEFINE c == IF e.candidate # None THEN e.candidate ELSE e.confirmed
  <2>1. c \in Int /\ c <= rt.last
    BY <1>3 DEF Trks
  <2> HIDE DEF c
  <2>2. good = [seen EXCEPT !.candidate = p.last, !.confirmed = c]
    BY DEF c
  <2>3. p.last \in Int /\ p.last <= rt.last
    BY <1>1
  <2> HIDE DEF good
  <2>4. /\ good \in Trks /\ good.candidate = p.last /\ good.confirmed = c
        /\ good.epoch = e.epoch /\ (good.faulted <=> seen.faulted)
    BY <1>5, <2>1, <2>2, <2>3 DEF Trks
  <2> QED
    BY <2>1, <2>3, <2>4
<1> HIDE DEF shut, good
<1>8. Mild(f) /\ Known(f)
  <2>1. CASE f = e
    BY <1>3, <2>1
  <2>2. CASE f \in {seen, shut, good} /\ p.epoch = e.epoch
    <3>1. Mild(f) /\ f.epoch = e.epoch /\ (f.faulted => e.faulted \/ p.faulted)
      BY <1>3, <1>5, <1>6, <1>7, <1>10, <2>2
    <3> QED
      BY <1>3, <2>2, <3>1
  <2> QED
    BY <1>4, <2>1, <2>2
<1> HIDE DEF f
<1> DEFINE g == [f EXCEPT !.last = None]
<1>9. Fed(t, p) = g
  BY DEF Fed, f
<1>11. Mild(g) /\ g.epoch = f.epoch /\ (g.faulted <=> f.faulted)
  BY <1>2, <1>8 DEF Trks
<1> HIDE DEF g
<1>12. Known(g)
  BY <1>8, <1>11
<1>13. Warned(g)
  <2>1. (t.faulted => Spent(t.epoch) /\ "fault" \in ops.scene.trouble)
        /\ (p.faulted => Spent(p.epoch) /\ "fault" \in ops.scene.trouble)
    BY DEF Modest, Truthful, Warned
  <2>2. ASSUME g.faulted PROVE Spent(g.epoch) /\ "fault" \in ops.scene.trouble
    BY <1>12, <2>1, <2>2
  <2> QED
    BY <2>2 DEF Warned
<1> QED
  BY <1>9, <1>11, <1>12, <1>13 DEF Modest

(* The packets of a step.                                                  *)
LEMMA PacketsMid ==
  ASSUME NEW w, Mid(w), Whole(w), rt.last \in Nat, NEW mid, NEW latest,
         w.ctl.plan # 0 => w.led[w.ctl.plan].phase # "FAULTED" \/ ~OneFault,
         Arrived(mid).inbox \in Seq(Packets),
         \A i \in DOMAIN Arrived(mid).inbox : /\ Truthful(Arrived(mid).inbox[i])
                                              /\ Shows(Arrived(mid).inbox[i], latest),
         Shows(w.trk, latest)
  PROVE  LET v == PacketsFed(w, mid)
         IN Mid(v) /\ Whole(v) /\ Onward(w, v) /\ v.ctl = w.ctl /\ v.authFault = w.authFault
            /\ Shows(v.trk, latest)
<1> DEFINE s == Arrived(mid).inbox
           n == Len(s)
           t == FF!FoldLeft(Fed, w.trk, s)
           v == [w EXCEPT !.trk = t]
<1>1. n \in Nat /\ DOMAIN s = 1..n
  OBVIOUS
<1>2. Modest(w.trk) /\ w \in Worlds
  BY DEF Mid, Worlds, Whole, Evid, Modest
<1>3. FedKeep(w.trk, s, 0, w.trk)
  BY <1>2 DEF FedKeep
<1>4. ASSUME NEW k \in Nat, NEW u, k + 1 <= n, FedKeep(w.trk, s, k, u)
      PROVE  FedKeep(w.trk, s, k + 1, Fed(u, s[k + 1]))
  <2> DEFINE p == s[k + 1]
             f == Fed(u, p)
  <2>1. k + 1 \in DOMAIN s
    BY <1>1, <1>4
  <2>2. Truthful(p) /\ Modest(u)
    BY <1>4, <2>1 DEF FedKeep
  <2>3. /\ Modest(f)
        /\ f.faulted => \/ u.faulted /\ u.epoch = f.epoch
                        \/ p.faulted /\ p.epoch = f.epoch
    BY <2>2, FedModest
  <2> HIDE DEF f, s
  <2> QED
    BY <1>4, <2>1, <2>3 DEF FedKeep, f
<1>5. PacketsFed(w, mid) = v
  BY Zenon DEF PacketsFed, FF!FoldLeft, S!FoldLeft, FF!MapThenFoldSet, S!MapThenFoldSet,
               FF!Max, S!Max
<1> HIDE DEF s, n
<1>6. FedKeep(w.trk, s, n, t)
  BY <1>1, <1>3, <1>4, FF!FoldKeeps
<1> HIDE DEF t
<1>7. /\ v \in Worlds /\ v.led = w.led /\ v.ctl = w.ctl /\ v.pend = w.pend
      /\ v.authFault = w.authFault /\ v.trk = t
  BY <1>2, <1>6 DEF Worlds, Modest, FedKeep
<1> HIDE DEF v
<1>8. Mid(v)
  <2>1. Steady(w) => Steady(v)
    BY <1>7 DEF Steady, Carries, Runs, Excuse
  <2>2. \A p \in Exec, ok \in BOOLEAN : Ending(w, p, ok) => Ending(v, p, ok)
    BY <1>7 DEF Ending
  <2> QED
    BY <1>7, <2>1, <2>2 DEF Mid
<1>9. Whole(v)
  BY <1>6, <1>7 DEF Whole, Guarded, Evid, Modest, FedKeep
<1>10. Shows(t, latest)
  <2> SUFFICES ASSUME OneFault, t.faulted, t.epoch = rt.epoch, rt.faulted PROVE latest.faulted
    BY DEF Shows
  <2>1. CASE w.trk.faulted /\ w.trk.epoch = t.epoch
    BY <2>1 DEF Shows
  <2>2. ASSUME NEW i \in DOMAIN s, s[i].faulted, s[i].epoch = t.epoch PROVE latest.faulted
    BY <2>2 DEF Shows, s
  <2> QED
    BY <1>6, <2>1, <2>2 DEF FedKeep
<1> QED
  BY <1>5, <1>7, <1>8, <1>9, <1>10 DEF Onward

(* A controller call inside a step.                                        *)
LEMMA ControlOn ==
  ASSUME NEW w, Mid(w), Whole(w), rt.last \in Nat, NEW d, Eases(w.ctl, d)
  PROVE  LET v == Control(w, d)
         IN /\ Mid(v) /\ Whole(v) /\ Onward(w, v) /\ AsSeen(w, v) /\ v.led = w.led
            /\ v.authFault = w.authFault /\ v.ctl.plan \in {0, w.ctl.plan}
            /\ v.ctl.plan = d.plan
<1> DEFINE v == Control(w, d)
<1>1. /\ Mid(v) /\ v.led = w.led /\ (v.ctl.jog => w.ctl.jog) /\ v.authFault = w.authFault
      /\ v.ctl.plan \in {0, w.ctl.plan} /\ v.trk \in {w.trk, DisarmSent(w.trk)}
      /\ v.ctl = [d EXCEPT !.asks = <<>>]
  BY ControlMid
<1>2. Whole(v)
  BY ControlWhole
<1>5. d \in Ctls
  BY DEF Eases
<1> HIDE DEF v
<1>3. Onward(w, v)
  BY <1>1 DEF Onward
<1>4. AsSeen(w, v)
  BY <1>1, DisarmEvidence DEF AsSeen, Mid, Worlds
<1>6. v.ctl.plan = d.plan
  BY <1>1, <1>5 DEF Ctls
<1> QED
  BY <1>1, <1>2, <1>3, <1>4, <1>6 DEF v

\* What the link holds.
LinkOK ==
  /\ link.epoch \in Nat /\ link.fresh \in BOOLEAN /\ link.latched \in BOOLEAN
  /\ Truthful(link.latest)
  /\ link.inbox \in Seq(Packets) /\ \A i \in DOMAIN link.inbox : Truthful(link.inbox[i])

(* The first half of a step.                                               *)
LEMMA ObserveMid ==
  ASSUME NEW w, Mid(w), Whole(w), rt.last \in Nat, LinkOK, NEW mid, NEW obs,
         Arrived(mid).inbox \in Seq(Packets),
         \A i \in DOMAIN Arrived(mid).inbox :
           Truthful(Arrived(mid).inbox[i]) /\ Shows(Arrived(mid).inbox[i], Arrived(mid).latest),
         Shows(w.trk, link.latest), Shows(w.trk, Arrived(mid).latest)
  PROVE  LET v == Observe(w, mid, obs)
         IN /\ Mid(v) /\ Whole(v) /\ Onward(w, v) /\ Shows(v.trk, Arrived(mid).latest)
            /\ v.ctl.plan # 0 => ~v.authFault
<1> DEFINE a == Drain(w)
           b == HealthTold(a, obs)
           c == PacketsFed(b, mid)
           d == GapTold(c, obs)
<1>1. Observe(w, mid, obs) = d
  BY DEF Observe
<1>2. Mid(a) /\ Whole(a) /\ Onward(w, a) /\ AsSeen(w, a)
  BY DrainMid
<1> HIDE DEF a
<1>3. /\ Mid(b) /\ Whole(b) /\ Onward(a, b) /\ AsSeen(a, b)
      /\ b.ctl.plan # 0 => ~link.latest.faulted /\ ~b.authFault
  <2> DEFINE ok == Healthy(a)
             on == link.latest.armed
             edge == (obs = "edge")
             h == C!OnHealth(a.ctl, ok, on, edge)
  <2>1. a.ctl \in Ctls /\ a.authFault \in BOOLEAN
    BY <1>2 DEF Mid, Worlds
  <2>2. ok \in BOOLEAN /\ on \in BOOLEAN /\ edge \in BOOLEAN
    BY <2>1 DEF Healthy, LinkOK, Truthful, Packets
  <2>3. b = Control(a, h)
    BY DEF HealthTold
  <2>5. ok => ~link.latest.faulted /\ ~a.authFault
    BY DEF Healthy
  <2> HIDE DEF ok, on, edge
  <2>4. Eases(a.ctl, h) /\ (~ok => h.plan = 0)
    BY <2>1, <2>2, HealthEases
  <2> HIDE DEF h, b
  <2>6. /\ Mid(b) /\ Whole(b) /\ Onward(a, b) /\ AsSeen(a, b) /\ b.authFault = a.authFault
        /\ b.ctl.plan = h.plan
    BY <1>2, <2>3, <2>4, ControlOn
  <2> QED
    BY <2>4, <2>5, <2>6
<1> HIDE DEF b
<1>7. b.ctl.plan # 0 => b.led[b.ctl.plan].phase # "FAULTED" \/ ~OneFault
  <2> SUFFICES ASSUME b.ctl.plan # 0, b.led[b.ctl.plan].phase = "FAULTED", OneFault PROVE FALSE
    OBVIOUS
  <2>1. Steady(b)
    BY <1>3 DEF Mid, Ending
  <2>2. Excuse(b.trk)
    BY <2>1 DEF Steady, Carries, Runs, Moving
  <2> QED
    BY <1>2, <1>3, <2>2 DEF Excuse, AsSeen, Shows
<1>8. Shows(b.trk, Arrived(mid).latest)
  BY <1>2, <1>3 DEF AsSeen, Shows
<1>4. /\ Mid(c) /\ Whole(c) /\ Onward(b, c) /\ c.ctl = b.ctl /\ c.authFault = b.authFault
      /\ Shows(c.trk, Arrived(mid).latest)
  BY <1>3, <1>7, <1>8, PacketsMid
<1> HIDE DEF c
<1>5. /\ Mid(d) /\ Whole(d) /\ Onward(c, d) /\ AsSeen(c, d) /\ d.authFault = c.authFault
      /\ d.ctl.plan \in {0, c.ctl.plan}
  <2>1. CASE obs = "gap"
    <3> DEFINE g == C!OnStateGap(c.ctl)
    <3>1. d = Control(c, g)
      BY <2>1 DEF GapTold
    <3>2. Eases(c.ctl, g)
      BY <1>4, GapRests DEF Rests, Mid, Worlds
    <3> HIDE DEF g, d
    <3> QED
      BY <1>4, <3>1, <3>2, ControlOn
  <2>2. CASE obs # "gap"
    BY <1>4, <2>2 DEF GapTold, Onward, AsSeen
  <2> QED
    BY <2>1, <2>2
<1> HIDE DEF d
<1>6. Onward(w, d)
  BY <1>2, <1>3, <1>4, <1>5, OnwardThen
<1>9. Shows(d.trk, Arrived(mid).latest) /\ (d.ctl.plan # 0 => ~d.authFault)
  BY <1>3, <1>4, <1>5 DEF AsSeen, Shows
<1> QED
  BY <1>1, <1>5, <1>6, <1>9

(* The RT evidence.                                                        *)
LEMMA JudgedRest ==
  ASSUME NEW w, Rest(w), Whole(w), rt.last \in Nat
  PROVE  LET v == Judged(w) IN Rest(v) /\ Whole(v) /\ Onward(w, v) /\ SameButOut(w, v)
<1> DEFINE m == [e \in Exec |-> Evidence(w.led[e], e, w.trk)]
           v == [w EXCEPT !.led = m]
<1>1. /\ w \in Worlds /\ Ledger(w.led) /\ OneSource(w.ctl) /\ w.ctl.asks = <<>> /\ Steady(w)
      /\ ~w.ctl.commands /\ w.ctl \in Ctls /\ Held(w) /\ Evid(w) /\ w.trk \in Trks
  BY DEF Rest, Quiet, Mid, Worlds, Whole
<1>2. \A e \in Exec : m[e] = Evidence(w.led[e], e, w.trk)
  OBVIOUS
<1>3. Judged(w) = v
  BY DEF Judged
<1>4. ASSUME NEW e \in Exec
      PROVE  /\ Sound(m[e]) /\ m[e] \in Entries
             /\ (Live(m[e]) => Live(w.led[e])) /\ (Unf(m[e]) => Unf(w.led[e]))
             /\ (Runs(w.led[e], w.trk) => Runs(m[e], w.trk))
             /\ (Unf(m[e]) => m[e].epoch = w.led[e].epoch)
             /\ (w.led[e].phase = "ADMITTED" => m[e] = w.led[e])
             /\ (Prov(m[e]) => Prov(w.led[e]) \/ w.trk.confirmed >= e)
  <2> DEFINE x == w.led[e]
             r == Evidence(x, e, w.trk)
  <2>1. Sound(x) /\ x \in Entries
    BY <1>1 DEF Ledger, Sound
  <2> HIDE DEF x
  <2>2. /\ Sound(r)
        /\ \/ r = x
           \/ /\ r = EndedAs("FAULTED") /\ x.phase \in Moving
              /\ x.epoch # None /\ FaultSeen(w.trk, x.epoch)
           \/ /\ r = [x EXCEPT !.phase = "APPLIED"] /\ x.phase = "SENT"
              /\ Confirmed(w.trk, x.epoch) # None /\ Confirmed(w.trk, x.epoch) >= e
    BY <2>1, EvidenceSound
  <2>3. m[e] = r
    BY <1>2 DEF x
  <2> HIDE DEF m, r
  <2>4. CASE r = x
    BY <2>1, <2>2, <2>3, <2>4 DEF x
  <2>5. CASE /\ r = EndedAs("FAULTED") /\ x.phase \in Moving
             /\ x.epoch # None /\ FaultSeen(w.trk, x.epoch)
    <3>1. r.phase = "FAULTED" /\ ~Live(r) /\ r \in Entries
      BY <2>5, EndedSound, PhaseSets DEF Sound
    <3>2. x.phase # "ADMITTED"
      BY <2>5 DEF Moving
    <3>3. ASSUME x.done = "no" PROVE Excuse(w.trk)
      <4>1. Unf(x)
        BY <2>5, <3>3, PhaseSets DEF Unf, Live, Moving
      <4>2. Dated(x.epoch)
        BY <1>1, <2>5, <4>1 DEF Evid, x
      <4>3. /\ w.trk.faulted /\ w.trk.epoch = x.epoch /\ Spent(x.epoch)
            /\ "fault" \in ops.scene.trouble
        BY <1>1, <2>5 DEF Evid, Warned, FaultSeen
      <4>4. OneFault => "slow" \notin ops.scene.trouble
        BY <4>3 DEF OneFault
      <4>5. x.epoch # 0
        BY <4>3 DEF Spent
      <4> QED
        BY <4>2, <4>3, <4>4, <4>5 DEF Dated, Spent, Excuse
    <3>4. Runs(x, w.trk) => x.done = "no"
      BY <2>5 DEF Runs, Moving
    <3> QED
      BY <2>2, <2>3, <3>1, <3>2, <3>3, <3>4 DEF x, Unf, Runs, Prov
  <2>6. CASE /\ r = [x EXCEPT !.phase = "APPLIED"] /\ x.phase = "SENT"
             /\ Confirmed(w.trk, x.epoch) # None /\ Confirmed(w.trk, x.epoch) >= e
    <3>1. r.phase = "APPLIED" /\ r.done = x.done /\ r \in Entries /\ r.epoch = x.epoch
      BY <2>1, <2>2, <2>6 DEF Entries, Sound
    <3>2. w.trk.confirmed >= e
      BY <2>6 DEF Confirmed
    <3>3. Live(x)
      BY <2>6, PhaseSets DEF Live
    <3> QED
      BY <2>2, <2>3, <2>6, <3>1, <3>2, <3>3 DEF x, Unf, Runs, Moving, Prov
  <2> QED
    BY <2>2, <2>4, <2>5, <2>6
<1>5. m \in [Exec -> Entries]
  BY <1>4
<1> HIDE DEF m
<1>6. Ledger(m)
  BY <1>1, <1>4, <1>5 DEF Ledger
<1>7. /\ v \in Worlds /\ v.led = m /\ v.ctl = w.ctl /\ v.pend = w.pend
      /\ v.authFault = w.authFault /\ v.trk = w.trk
  BY <1>1, <1>5, WithLed
<1> HIDE DEF v
<1>8. ASSUME w.ctl.plan # 0 PROVE Carries(m[w.ctl.plan], w.ctl.running, w.trk)
  <2>1. w.ctl.plan \in Exec
    BY <1>1, <1>8, Bounds DEF Ctls, Exec
  <2>2. Carries(w.led[w.ctl.plan], w.ctl.running, w.trk)
    BY <1>1, <1>8 DEF Steady
  <2> QED
    BY <1>4, <2>1, <2>2 DEF Carries
<1>9. Steady(v) /\ Held(v)
  BY <1>1, <1>4, <1>7, <1>8 DEF Steady, Held
<1>10. Rest(v)
  BY <1>1, <1>6, <1>7, <1>9 DEF Rest, Quiet, Mid
<1>11. Evid(v)
  <2>1. ASSUME NEW e \in Exec, Prov(m[e]) PROVE rt.last >= e
    <3>1. CASE Prov(w.led[e])
      BY <1>1, <3>1 DEF Evid
    <3>2. CASE w.trk.confirmed >= e
      <4>1. e \in Int /\ w.trk.confirmed \in Int
        BY <1>1, Bounds DEF Exec, Trks
      <4> QED
        BY <1>1, <3>2, <4>1 DEF Evid
    <3> QED
      BY <1>4, <2>1, <3>1, <3>2
  <2>2. ASSUME NEW e \in Exec, Unf(m[e]), m[e].epoch # None PROVE Dated(m[e].epoch)
    BY <1>1, <1>4, <2>2 DEF Evid
  <2> QED
    BY <1>1, <1>7, <2>1, <2>2 DEF Evid
<1>12. Whole(v)
  BY <1>7, <1>11 DEF Whole, Guarded
<1>13. Onward(w, v) /\ SameButOut(w, v)
  BY <1>4, <1>7 DEF Onward, SameButOut
<1> QED
  BY <1>3, <1>10, <1>12, <1>13

(* A stopped controller is replaced.                                       *)
LEMMA RenewedRest ==
  ASSUME NEW w, Rest(w), Whole(w)
  PROVE  LET v == Renewed(w)
         IN Rest(v) /\ Whole(v) /\ Onward(w, v) /\ ~v.ctl.stopped /\ AsSeen(w, v)
<1> DEFINE m == Reconcile(w.led, 0)
           c == C!NewController
           v == [w EXCEPT !.led = m, !.ctl = c]
<1>1. w \in Worlds /\ Ledger(w.led) /\ w.ctl.armed \in BOOLEAN
  BY DEF Rest, Quiet, Mid, Worlds, Ctls
<1>2. CASE ~w.ctl.stopped
  BY <1>2 DEF Renewed, Onward, AsSeen
<1>3. CASE w.ctl.stopped
  <2>1. Renewed(w) = v
    BY <1>3 DEF Renewed
  <2>2. /\ Ledger(m) /\ m \in [Exec -> Entries] /\ Ages(w.led, m)
        /\ \A e \in Exec : Unf(m[e]) => 0 = e
    BY <1>1, ReconcileLedger
  <2>3. /\ c \in Ctls /\ c.plan = 0 /\ ~c.running /\ ~c.jog /\ ~c.soft /\ c.out = <<>>
        /\ c.asks = <<>> /\ ~c.commands /\ c.armed = FALSE /\ ~c.stopped
    BY Bounds DEF C!NewController, C!NoPlan, Ctls
  <2> HIDE DEF m, c
  <2>4. /\ v \in Worlds /\ v.led = m /\ v.ctl = c /\ v.pend = w.pend
        /\ v.authFault = w.authFault /\ v.trk = w.trk
    BY <1>1, <2>2, <2>3 DEF Worlds
  <2> HIDE DEF v
  <2>5. Rest(v)
    BY <2>2, <2>3, <2>4 DEF Rest, Quiet, Mid, Steady, Held, OneSource
  <2>6. OneTrouble => w.ctl.armed = FALSE
    BY <1>1, <1>3 DEF Whole, Guarded
  <2>7. Guarded(v)
    BY <2>3, <2>4, <2>6 DEF Whole, Guarded
  <2>8. Evid(v)
    <3>1. \A e \in Exec : ~Unf(m[e])
      BY <2>2, Bounds DEF Exec
    <3> QED
      BY <2>2, <2>4, <3>1 DEF Whole, Evid, Ages
  <2>9. Onward(w, v) /\ AsSeen(w, v)
    BY <2>2, <2>3, <2>4 DEF Onward, Ages, AsSeen
  <2> QED
    BY <2>1, <2>3, <2>4, <2>5, <2>7, <2>8, <2>9 DEF Whole
<1> QED
  BY <1>2, <1>3

(* The second half of a step.                                              *)
LEMMA ActRest ==
  ASSUME NEW w, Mid(w), Whole(w), rt.last \in Nat, link.epoch \in Nat,
         NEW expired \in BOOLEAN, NEW stale \in BOOLEAN, NEW leg, NEW send,
         leg \in {"settled", "timeout"} => w.ctl.running, w.ctl.plan # 0 => ~w.authFault
  PROVE  LET v == Act(w, expired, stale, leg, send)
         IN Rest(v) /\ Whole(v) /\ Onward(w, v) /\ ~v.ctl.stopped /\ AsSeen(w, v)
<1> DEFINE a == Due(w, expired)
           b == Ticked(a, stale, leg, send)
           c == PumpTick(b)
           d == Judged(c)
           f == Settled(d)
           g == Renewed(f)
<1>1. Act(w, expired, stale, leg, send) = g
  BY DEF Act
<1>2. /\ Mid(a) /\ Calmer(w, a) /\ (w.ctl.running => a.ctl.running)
      /\ a.ctl.plan \in {0, w.ctl.plan}
  BY DueMid
<1> HIDE DEF a
<1>3. Whole(a) /\ Onward(w, a)
  BY <1>2, CalmerWhole, CalmerOnward
<1>4. /\ Mid(b) /\ Whole(b) /\ Onward(a, b) /\ AsSeen(a, b) /\ b.authFault = a.authFault
      /\ b.ctl.plan \in {0, a.ctl.plan}
  <2> DEFINE t == C!Tick(a.ctl, stale, leg, send)
  <2>1. Eases(a.ctl, t)
    BY <1>2, TickEases DEF Mid, Worlds
  <2>2. b = Control(a, t)
    BY DEF Ticked
  <2> HIDE DEF t, b
  <2> QED
    BY <1>2, <1>3, <2>1, <2>2, ControlOn
<1> HIDE DEF b
<1>5. Rest(c) /\ Calmer(b, c)
  <2> DEFINE for == IF b.ctl.running THEN b.ctl.plan ELSE 0
             u == Pumped(b, for)
  <2>1. for \in 0..MaxExec /\ (for # 0 => b.ctl.running)
    BY <1>4, Bounds DEF Mid, Worlds, Ctls
  <2>5. ASSUME b.ctl.running PROVE Dated(link.epoch)
    <3>1. b.ctl.armed /\ b.ctl.plan # 0
      BY <1>4, <2>5 DEF Mid, OneSource
    <3>2. ~b.authFault
      BY <1>2, <1>4, <3>1 DEF Calmer
    <3>3. "slow" \notin ops.scene.trouble => Agreed(b.pend, b.ctl.armed, b.authFault)
      BY <1>4 DEF Whole, Guarded, OneTrouble
    <3> QED
      BY <3>1, <3>2, <3>3 DEF Agreed, Matched, Dated
  <2>2. c = Settled(u)
    BY DEF PumpTick
  <2> HIDE DEF for
  <2>3. Quiet(u) /\ SameButOut(b, u) /\ Ages(b.led, u.led)
    BY <1>4, <2>1, <2>5, PumpMid
  <2> HIDE DEF u, c
  <2>4. Rest(c) /\ SameButOut(u, c) /\ Ages(u.led, c.led)
    BY <2>2, <2>3, SettledRest
  <2> QED
    BY <2>3, <2>4, CalmerPump, CalmerThen
<1> HIDE DEF c
<1>6. Whole(c) /\ Onward(b, c)
  BY <1>4, <1>5, CalmerWhole, CalmerOnward
<1>7. Rest(d) /\ Whole(d) /\ Onward(c, d) /\ SameButOut(c, d)
  BY <1>5, <1>6, JudgedRest
<1> HIDE DEF d
<1>8. Rest(f) /\ Calmer(d, f)
  BY <1>7, SettledRest, CalmerPump DEF Rest
<1> HIDE DEF f
<1>9. Whole(f) /\ Onward(d, f)
  BY <1>7, <1>8, CalmerWhole, CalmerOnward
<1>10. Rest(g) /\ Whole(g) /\ Onward(f, g) /\ ~g.ctl.stopped /\ AsSeen(f, g)
  BY <1>8, <1>9, RenewedRest
<1> HIDE DEF g
<1>11. Onward(w, g)
  BY <1>3, <1>4, <1>6, <1>7, <1>9, <1>10, OnwardThen
<1>12. AsSeen(w, g)
  BY <1>2, <1>4, <1>5, <1>7, <1>8, <1>10 DEF AsSeen, Calmer, SameButOut
<1> QED
  BY <1>1, <1>10, <1>11, <1>12

-----------------------------------------------------------------------------
(* The operations that start something.                                    *)

(* The pump after a release: the staged execution is selected.             *)
LEMMA PumpStart ==
  ASSUME NEW u \in Worlds, Ledger(u.led), OneSource(u.ctl), u.ctl.asks = <<>>,
         u.ctl.out = <<>>, u.ctl.running, NEW e \in Exec, u.ctl.plan = e,
         u.led[e].phase = "ADMITTED", link.epoch \in Nat
  PROVE  LET v == PumpOps(u) IN Rest(v) /\ Calmer(u, v)
<1> DEFINE y == u.led[e]
           x == [y EXCEPT !.phase = "SELECTED"]
           m == [u.led EXCEPT ![e] = x]
           t == Told(u)
           c == [t EXCEPT !.led = m]
           f == Emptied(c)
           v == Settled(f)
<1>1. u.led \in [Exec -> Entries] /\ Sound(y) /\ y \in Entries /\ y.phase = "ADMITTED"
  BY DEF Ledger, Sound
<1>2. /\ t \in Worlds /\ t.led = u.led /\ t.ctl = u.ctl /\ t.pend = u.pend
      /\ t.authFault = u.authFault /\ t.trk = u.trk
  <2>1. t = [u EXCEPT !.led = u.led]
    BY ToldIs
  <2> HIDE DEF t
  <2> QED
    BY <1>1, <2>1, WithLed
<1>3. Receipt(y, "SELECTED") = x
  BY <1>1, ReceiptGoes
<1>4. Chosen(t) = c
  BY <1>2, <1>3 DEF Chosen
<1>5. PumpOps(u) = v
  <2>1. FirstSent(c, 0) = c
    BY DEF FirstSent
  <2> QED
    BY <1>4, <2>1 DEF PumpOps, Pumped
<1> HIDE DEF t, y
<1>6. x \in Entries /\ x.phase = "SELECTED" /\ x.done = y.done /\ x.epoch = y.epoch
  BY <1>1, PhaseSets DEF Entries, Phase
<1> HIDE DEF x
<1>7. y.done = "no" /\ y.epoch = None
  BY <1>1 DEF Sound, Moving
<1>8. Sound(x) /\ Unf(y) /\ ~Prov(x) /\ Runs(x, u.trk)
  BY <1>1, <1>6, <1>7, PhaseSets DEF Sound, Moving, Unf, Live, Prov, Runs
<1>9. /\ Ledger(m) /\ m \in [Exec -> Entries] /\ m[e] = x
      /\ \A d \in Exec : d # e => m[d] = u.led[d]
  BY <1>8, LedgerPut DEF Ledger, Unf, y
<1> HIDE DEF m
<1>10. Ages(u.led, m)
  BY <1>6, <1>7, <1>8, <1>9 DEF Ages, y
<1>11. /\ c \in Worlds /\ c.led = m /\ c.ctl = u.ctl /\ c.pend = u.pend
       /\ c.authFault = u.authFault /\ c.trk = u.trk
  BY <1>2, <1>9, WithLed
<1> HIDE DEF c
<1>12. Quiet(f) /\ SameButOut(c, f) /\ f.led = m
  BY <1>8, <1>9, <1>11, EmptiedQuiet DEF Carries
<1> HIDE DEF f
<1>13. Rest(v) /\ SameButOut(f, v) /\ Ages(f.led, v.led)
  BY <1>12, SettledRest
<1> HIDE DEF v
<1>14. Ages(u.led, v.led)
  BY <1>10, <1>12, <1>13 DEF Ages
<1>15. Calmer(u, v)
  BY <1>11, <1>12, <1>13, <1>14 DEF Calmer, SameButOut
<1> QED
  BY <1>5, <1>13, <1>15

(* _select: a staged execution starts, or is ended.                        *)
LEMMA SelectRest ==
  ASSUME NEW w, Rest(w), NEW e \in Exec, w.led[e].phase = "ADMITTED", NEW verdict,
         link.epoch \in Nat
  PROVE  LET v == Select(w, e, verdict) IN Rest(v) /\ Calmer(w, v)
<1>1. CASE verdict = "expired"
  BY <1>1, EndStagedRest DEF Select, Expire
<1>2. CASE verdict # "expired" /\ auth # "ARMED"
  BY <1>2, EndStagedRest DEF Select
<1>3. CASE verdict # "expired" /\ auth = "ARMED"
  <2> DEFINE fits == (verdict # "away")
             d == C!Release(w.ctl, e, fits)
             u == Control(w, d)
             v == PumpOps(u)
  <2>1. Select(w, e, verdict) = v
    BY <1>3 DEF Select
  <2>2. /\ w \in Worlds /\ Ledger(w.led) /\ Mid(w) /\ Steady(w) /\ Held(w) /\ w.ctl \in Ctls
        /\ Sound(w.led[e]) /\ OneSource(w.ctl) /\ w.ctl.asks = <<>> /\ w.ctl.out = <<>>
    BY DEF Rest, Quiet, Mid, Worlds, Ledger, Steady
  <2>3. Unf(w.led[e])
    BY <2>2, PhaseSets DEF Unf, Live, Sound, Moving
  <2>4. w.ctl.plan = e /\ e # 0 /\ e \in 1..MaxExec
    BY <2>2, <2>3, Bounds DEF Held, Exec
  <2>5. ~w.ctl.running
    BY <2>2, <2>4 DEF Steady, Carries, Runs, Moving
  <2>6. /\ d \in Ctls /\ d.asks = <<>> /\ d.armed = w.ctl.armed /\ d.soft = w.ctl.soft
        /\ d.stopped = w.ctl.stopped /\ (d.jog => w.ctl.jog)
        /\ \/ d.plan = 0 /\ ~d.running /\ d.out = <<Leg(e, FALSE)>>
           \/ d.plan = e /\ d.running /\ d.armed /\ d.out = <<>> /\ ~d.jog
    <3>1. fits \in BOOLEAN
      OBVIOUS
    <3>2. Append(<<>>, Leg(e, FALSE)) = <<Leg(e, FALSE)>>
      OBVIOUS
    <3> HIDE DEF fits
    <3>3. /\ d \in Ctls /\ d.asks = w.ctl.asks /\ d.armed = w.ctl.armed /\ d.soft = w.ctl.soft
          /\ d.stopped = w.ctl.stopped /\ (d.jog => w.ctl.jog)
          /\ \/ d.plan = 0 /\ ~d.running /\ d.out = Append(w.ctl.out, Leg(e, FALSE))
             \/ d.plan = e /\ d.running /\ d.armed /\ d.out = w.ctl.out /\ ~d.jog
      <4>1. Starts(w.ctl, e, d)
        BY <2>2, <2>4, <2>5, <3>1, ReleaseShape
      <4> HIDE DEF d
      <4> QED
        BY <4>1 DEF Starts
    <3> HIDE DEF d
    <3> QED
      BY <2>2, <3>2, <3>3
  <2> HIDE DEF d
  <2>7. /\ u \in Worlds /\ u.led = w.led /\ u.ctl = [d EXCEPT !.asks = <<>>]
        /\ u.authFault = w.authFault /\ u.pend = w.pend /\ u.trk = w.trk
    BY <2>2, <2>6, ControlShape
  <2> HIDE DEF u
  <2>8. /\ u.ctl.plan = d.plan /\ u.ctl.running = d.running /\ u.ctl.jog = d.jog
        /\ u.ctl.soft = d.soft /\ u.ctl.out = d.out /\ u.ctl.asks = <<>>
        /\ u.ctl.armed = d.armed /\ u.ctl.stopped = d.stopped
    BY <2>6, <2>7 DEF Ctls
  <2>9. OneSource(u.ctl)
    BY <2>2, <2>4, <2>6, <2>8 DEF OneSource
  <2>10. Calmer(w, u)
    BY <2>6, <2>7, <2>8 DEF Calmer, Ages
  <2>11. Rest(v) /\ Calmer(u, v)
    <3>1. CASE d.plan = 0 /\ ~d.running /\ d.out = <<Leg(e, FALSE)>>
      <4>1. Ending(u, e, FALSE)
        BY <2>7, <2>8, <3>1 DEF Ending
      <4>2. Mid(u)
        BY <2>2, <2>7, <2>8, <2>9, <4>1 DEF Mid
      <4> QED
        BY <4>2, PumpOpsRest, CalmerPump
    <3>2. CASE d.plan = e /\ d.running /\ d.out = <<>>
      BY <2>2, <2>7, <2>8, <2>9, <3>2, PumpStart
    <3> QED
      BY <2>6, <3>1, <3>2
  <2> HIDE DEF v
  <2> QED
    BY <2>1, <2>10, <2>11, CalmerThen
<1> QED
  BY <1>1, <1>2, <1>3

\* What a submission leaves as it was.
Grows(w, v) ==
  /\ v.pend = w.pend /\ v.trk = w.trk /\ v.authFault = w.authFault
  /\ v.ctl.armed = w.ctl.armed /\ v.ctl.stopped = w.ctl.stopped
  /\ \A e \in Exec : /\ Prov(v.led[e]) => Prov(w.led[e])
                     /\ Unf(v.led[e]) /\ v.led[e].epoch # None =>
                          \/ Unf(w.led[e]) /\ w.led[e].epoch = v.led[e].epoch
                          \/ Dated(v.led[e].epoch)

(* It keeps the requests and the evidence, as calmer operations do, and    *)
(* one may follow another.                                                 *)
LEMMA GrowsFacts ==
  ASSUME NEW u, NEW v, NEW w
  PROVE  /\ Calmer(u, v) => Grows(u, v)
         /\ Grows(u, v) /\ Grows(v, w) => Grows(u, w)
         /\ Grows(u, v) /\ Whole(u) => Whole(v)
<1>1. Calmer(u, v) => Grows(u, v)
  BY DEF Calmer, Grows, Ages
<1>2. Grows(u, v) /\ Grows(v, w) => Grows(u, w)
  BY DEF Grows
<1>3. ASSUME Grows(u, v), Whole(u) PROVE Whole(v)
  <2>1. Guarded(v)
    BY <1>3 DEF Whole, Guarded, Grows
  <2>2. Evid(v)
    <3>1. \A e \in Exec : Unf(v.led[e]) /\ v.led[e].epoch # None => Dated(v.led[e].epoch)
      BY <1>3 DEF Whole, Evid, Grows
    <3> QED
      BY <1>3, <3>1 DEF Whole, Evid, Grows
  <2> QED
    BY <2>1, <2>2 DEF Whole
<1> QED
  BY <1>1, <1>2, <1>3

\* The entry of a new request.
Asks(gated, names) == [[NoExec EXCEPT !.gated = gated, !.names = names] EXCEPT !.phase = "REQUESTED"]

(* The receipts of a new request.                                          *)
LEMMA NewEntry ==
  ASSUME NEW gated \in BOOLEAN, NEW names \in 0..MaxExec
  PROVE  LET x == Asks(gated, names)
         IN /\ Receipt([NoExec EXCEPT !.gated = gated, !.names = names], "REQUESTED") = x
            /\ x \in Entries /\ x.phase = "REQUESTED" /\ x.names = names /\ Live(x)
            /\ Receipt(x, "REJECTED") = EndedAs("REJECTED")
            /\ Sound(Receipt(x, "ADMITTED")) /\ Receipt(x, "ADMITTED").phase = "ADMITTED"
<1> DEFINE n == [NoExec EXCEPT !.gated = gated, !.names = names]
           x == [n EXCEPT !.phase = "REQUESTED"]
           y == [x EXCEPT !.phase = "ADMITTED"]
<1>1. Asks(gated, names) = x
  BY DEF Asks
<1>2. NoExec \in Entries /\ NoExec.phase = "NONE" /\ NoExec.done = "no" /\ NoExec.epoch = None
  BY Bounds DEF NoExec, Entries
<1>3. /\ n \in Entries /\ n.phase = "NONE" /\ n.done = "no" /\ n.epoch = None
      /\ n.names = names
  BY <1>2 DEF Entries
<1>4. Receipt(n, "REQUESTED") = x
  BY <1>3, ReceiptGoes
<1> HIDE DEF n
<1>5. /\ x \in Entries /\ x.phase = "REQUESTED" /\ x.done = "no" /\ x.epoch = None
      /\ x.names = names
  BY <1>3, PhaseSets DEF Entries, Phase
<1>6. Receipt(x, "REJECTED") = EndedAs("REJECTED") /\ Receipt(x, "ADMITTED") = y
  BY <1>5, ReceiptEnds, ReceiptGoes
<1> HIDE DEF x
<1>7. y \in Entries /\ y.phase = "ADMITTED" /\ y.done = "no" /\ y.epoch = None
  BY <1>5, PhaseSets DEF Entries, Phase
<1> HIDE DEF y
<1>8. Live(x) /\ Sound(y)
  BY <1>5, <1>7, PhaseSets DEF Live, Sound
<1> QED
  BY <1>1, <1>4, <1>5, <1>6, <1>7, <1>8 DEF n

\* The ledger k is l with the entry of a new request, e.
Requests(l, k, e, gated, names) ==
  /\ Ledger(l) /\ ~Live(l[e])
  /\ k \in [Exec -> Entries] /\ k[e] = Asks(gated, names)
  /\ \A d \in Exec : d # e => k[d] = l[d]

\* What a new request may find live: the staged execution that it names.
Names(l, e, names) ==
  names # e /\ \A d \in Exec : Live(l[d]) => d = names /\ l[d].phase = "ADMITTED"

\* What the ledger m makes of it.
Admits(l, e, m) ==
  /\ Ledger(m) /\ m \in [Exec -> Entries] /\ m[e].phase = "ADMITTED"
  /\ \A d \in Exec : (Prov(m[d]) => Prov(l[d])) /\ (Live(m[d]) => m[d].epoch = None)
Rejects(l, e, m) ==
  /\ Ledger(m) /\ m \in [Exec -> Entries] /\ OnEvent(m, Leg(e, FALSE)) = m
  /\ \A d \in Exec : /\ d # e => m[d] = l[d]
                     /\ Prov(m[d]) => Prov(l[d])
                     /\ Live(m[d]) => m[d] = l[d]

(* The event that a plan is staged: the named execution is superseded.     *)
LEMMA OnStaged ==
  ASSUME NEW l, NEW k, NEW e \in Exec, NEW gated \in BOOLEAN, NEW names \in 0..MaxExec,
         Requests(l, k, e, gated, names), Names(l, e, names)
  PROVE  Admits(l, e, OnEvent(k, Staged(e, TRUE)))
<1> DEFINE x == Asks(gated, names)
           y == Receipt(x, "ADMITTED")
           a == [k EXCEPT ![e] = y]
           m == OnEvent(k, Staged(e, TRUE))
<1>1. /\ x \in Entries /\ x.names = names /\ Live(x)
      /\ Sound(y) /\ y.phase = "ADMITTED"
  BY NewEntry
<1>2. Ledger(l) /\ ~Live(l[e]) /\ l \in [Exec -> Entries] /\ e # 0
  BY Bounds DEF Requests, Ledger, Exec
<1> HIDE DEF x, y
<1>3. k \in [Exec -> Entries] /\ k[e] = x /\ \A d \in Exec : d # e => k[d] = l[d]
  BY DEF Requests, x
<1>20. names # e /\ \A d \in Exec : Live(l[d]) => d = names /\ l[d].phase = "ADMITTED"
  BY DEF Names
<1>4. m = IF names # 0 /\ Live(k[names])
          THEN [a EXCEPT ![names] = Receipt(a[names], "SUPERSEDED")] ELSE a
  BY <1>1, <1>2, <1>3 DEF OnEvent, Staged, y
<1>5. /\ a \in [Exec -> Entries] /\ a[e] = y /\ \A d \in Exec : d # e => a[d] = l[d]
  BY <1>1, <1>3 DEF Sound
<1> HIDE DEF a, m
<1>6. /\ m \in [Exec -> Entries] /\ m[e] = y
      /\ \A d \in Exec : d # e => /\ m[d] = l[d] \/ m[d] = EndedAs("SUPERSEDED")
                                  /\ ~Live(m[d])
  <2>1. CASE names # 0 /\ Live(k[names])
    <3> DEFINE z == EndedAs("SUPERSEDED")
    <3>1. names \in Exec
      BY <2>1, Bounds DEF Exec
    <3>2. a[names] = l[names] /\ k[names] = l[names]
      BY <1>3, <1>20, <1>5, <3>1
    <3>3. l[names].phase = "ADMITTED" /\ l[names] \in Entries
      BY <1>2, <1>20, <2>1, <3>1, <3>2
    <3>4. Receipt(a[names], "SUPERSEDED") = z
      BY <3>2, <3>3, ReceiptEnds
    <3>5. z \in Entries /\ ~Live(z)
      BY EndedSound, PhaseSets DEF Sound
    <3> HIDE DEF z
    <3>6. m = [a EXCEPT ![names] = z]
      BY <1>4, <2>1, <3>4
    <3> QED
      BY <1>2, <1>5, <1>20, <3>1, <3>5, <3>6 DEF z
  <2>2. CASE ~(names # 0 /\ Live(k[names]))
    <3>1. m = a
      BY <1>4, <2>2
    <3>2. \A d \in Exec : d # e => ~Live(l[d])
      BY <1>3, <1>20, <2>2, Bounds DEF Exec
    <3> QED
      BY <1>5, <3>1, <3>2
  <2> QED
    BY <2>1, <2>2
<1>7. Sound(EndedAs("SUPERSEDED")) /\ ~Prov(EndedAs("SUPERSEDED"))
  BY EndedSound, PhaseSets DEF Prov
<1>8. Ledger(m)
  BY <1>1, <1>2, <1>6, <1>7 DEF Ledger
<1>9. \A d \in Exec : Prov(m[d]) => Prov(l[d])
  BY <1>1, <1>6, <1>7 DEF Prov
<1>10. \A d \in Exec : Live(m[d]) => m[d].epoch = None
  BY <1>1, <1>6 DEF Sound
<1> QED
  BY <1>1, <1>6, <1>8, <1>9, <1>10 DEF m, Admits

(* The events that it is refused.                                          *)
LEMMA OnRefused ==
  ASSUME NEW l, NEW k, NEW e \in Exec, NEW gated \in BOOLEAN, NEW names \in 0..MaxExec,
         Requests(l, k, e, gated, names)
  PROVE  Rejects(l, e, OnEvent(k, Staged(e, FALSE)))
<1> DEFINE x == Asks(gated, names)
           z == EndedAs("REJECTED")
           m == OnEvent(k, Staged(e, FALSE))
<1>1. x \in Entries /\ Live(x) /\ Receipt(x, "REJECTED") = z
  BY NewEntry
<1>2. Ledger(l) /\ ~Live(l[e]) /\ l \in [Exec -> Entries] /\ e # 0
  BY Bounds DEF Requests, Ledger, Exec
<1>3. Sound(z) /\ ~Live(z) /\ ~Prov(z) /\ z \in Entries
  BY EndedSound, PhaseSets DEF Prov, Sound
<1> HIDE DEF x, z
<1>4. k \in [Exec -> Entries] /\ k[e] = x /\ \A d \in Exec : d # e => k[d] = l[d]
  BY DEF Requests, x
<1>5. m = [k EXCEPT ![e] = z]
  BY <1>1, <1>2, <1>4 DEF OnEvent, Staged
<1>6. m = [l EXCEPT ![e] = z]
  BY <1>2, <1>4, <1>5
<1> HIDE DEF m
<1>7. /\ Ledger(m) /\ m \in [Exec -> Entries] /\ m[e] = z
      /\ \A d \in Exec : d # e => m[d] = l[d]
  BY <1>2, <1>3, <1>6, LedgerPut
<1>8. OnEvent(m, Leg(e, FALSE)) = m
  BY <1>3, <1>7 DEF OnEvent, Leg
<1>9. \A d \in Exec : Prov(m[d]) => Prov(l[d])
  BY <1>3, <1>7
<1> QED
  BY <1>3, <1>7, <1>8, <1>9 DEF m, Rejects

(* The entry of a new request is made: nothing else knows of it.           *)
LEMMA FreshPlan ==
  ASSUME NEW w, Rest(w), NEW e \in Exec, w.led[e].phase = "NONE"
  PROVE  ~Live(w.led[e]) /\ w.ctl.plan # e
<1>1. Sound(w.led[e]) /\ Steady(w) /\ e # 0
  BY Bounds DEF Rest, Quiet, Mid, Ledger, Exec
<1>2. ~Live(w.led[e])
  BY DEF Live
<1>3. w.ctl.plan # e
  BY <1>1 DEF Steady, Carries, Runs, Moving
<1> QED
  BY <1>2, <1>3

(* A request refused at the door.                                          *)
LEMMA RefusedRest ==
  ASSUME NEW w, Rest(w), NEW e \in Exec, w.led[e].phase = "NONE",
         NEW gated \in BOOLEAN, NEW names \in 0..MaxExec
  PROVE  LET made == [w EXCEPT !.led[e] =
                        Receipt([NoExec EXCEPT !.gated = gated, !.names = names], "REQUESTED")]
             v == [made EXCEPT !.led[e] = Receipt(@, "REJECTED")]
         IN Rest(v) /\ Grows(w, v)
<1> DEFINE x == Asks(gated, names)
           n == Receipt([NoExec EXCEPT !.gated = gated, !.names = names], "REQUESTED")
           made == [w EXCEPT !.led[e] = n]
           z == EndedAs("REJECTED")
           m == [w.led EXCEPT ![e] = z]
           v == [w EXCEPT !.led = m]
<1>1. /\ w \in Worlds /\ w.led \in [Exec -> Entries] /\ Ledger(w.led) /\ Mid(w) /\ Steady(w)
      /\ Held(w)
  BY DEF Rest, Quiet, Mid, Ledger
<1>2. n = x /\ Receipt(x, "REJECTED") = z /\ x \in Entries
  BY NewEntry
<1>3. /\ Sound(z) /\ ~Live(z) /\ ~Prov(z)
  BY EndedSound, PhaseSets DEF Prov
<1>4. ~Live(w.led[e]) /\ w.ctl.plan # e
  BY FreshPlan
<1> HIDE DEF x, z, n
<1>5. [made EXCEPT !.led[e] = Receipt(@, "REJECTED")] = v
  <2>1. made = [w EXCEPT !.led = [w.led EXCEPT ![e] = x]]
    BY <1>1, <1>2 DEF Worlds
  <2> DEFINE k == [w.led EXCEPT ![e] = x]
  <2>2. k \in [Exec -> Entries] /\ k[e] = x /\ [k EXCEPT ![e] = z] = m
    BY <1>1, <1>2
  <2> HIDE DEF k
  <2>3. made = [w EXCEPT !.led = k]
    BY <2>1 DEF k
  <2> HIDE DEF made
  <2>4. made.led = k /\ made \in Worlds
    BY <1>1, <2>2, <2>3, WithLed
  <2>5. [made EXCEPT !.led[e] = Receipt(@, "REJECTED")] = [made EXCEPT !.led = m]
    BY <1>2, <2>2, <2>4
  <2> HIDE DEF m
  <2>6. [made EXCEPT !.led = m] = [w EXCEPT !.led = m]
    BY <1>1, <2>3 DEF Worlds
  <2> QED
    BY <2>5, <2>6 DEF made
<1>6. /\ Ledger(m) /\ m \in [Exec -> Entries] /\ m[e] = z
      /\ \A d \in Exec : d # e => m[d] = w.led[d]
  BY <1>1, <1>3, LedgerPut
<1> HIDE DEF m
<1>7. /\ v \in Worlds /\ v.led = m /\ v.ctl = w.ctl /\ v.pend = w.pend
      /\ v.authFault = w.authFault /\ v.trk = w.trk
  BY <1>1, <1>6, WithLed
<1> HIDE DEF v
<1>8. Steady(v)
  <2>1. w.ctl.plan # 0 => w.ctl.plan \in Exec
    BY <1>1, Bounds DEF Worlds, Ctls, Exec
  <2> QED
    BY <1>1, <1>4, <1>6, <1>7, <2>1 DEF Steady
<1>9. Rest(v)
  <2>1. Mid(v)
    BY <1>1, <1>6, <1>7, <1>8 DEF Mid
  <2>2. Held(v)
    BY <1>1, <1>3, <1>6, <1>7 DEF Held, Unf
  <2> QED
    BY <1>7, <1>8, <2>1, <2>2 DEF Rest, Quiet
<1>10. Grows(w, v)
  BY <1>3, <1>6, <1>7 DEF Grows, Unf
<1> QED
  BY <1>5, <1>9, <1>10 DEF made, n

(* A request that the controller is asked about.                           *)
LEMMA StagedRest ==
  ASSUME NEW w, Rest(w), NEW e \in Exec, w.led[e].phase = "NONE", link.epoch \in Nat,
         NEW gated \in BOOLEAN, NEW names \in 0..MaxExec, NEW fits \in BOOLEAN,
         Names(w.led, e, names)
  PROVE  LET made == [w EXCEPT !.led[e] =
                        Receipt([NoExec EXCEPT !.gated = gated, !.names = names], "REQUESTED")]
             v == PumpOps(Control(made, C!OnPlan(w.ctl, e, fits)))
         IN Rest(v) /\ Grows(w, v)
<1> DEFINE x == Asks(gated, names)
           n == Receipt([NoExec EXCEPT !.gated = gated, !.names = names], "REQUESTED")
           made == [w EXCEPT !.led[e] = n]
           k == [w.led EXCEPT ![e] = x]
           d == C!OnPlan(w.ctl, e, fits)
           u == Control(made, d)
           t == Told(u)
           f == Emptied(t)
           v == Settled(f)
<1>1. /\ w \in Worlds /\ w.led \in [Exec -> Entries] /\ Ledger(w.led) /\ Steady(w)
      /\ w.ctl \in Ctls /\ OneSource(w.ctl) /\ w.ctl.asks = <<>> /\ w.ctl.out = <<>>
  BY DEF Rest, Quiet, Mid, Ledger, Worlds, Steady
<1>2. n = x /\ x \in Entries
  BY NewEntry
<1>3. ~Live(w.led[e]) /\ w.ctl.plan # e /\ e \in 1..MaxExec
  BY FreshPlan DEF Exec
<1> HIDE DEF x, n
<1>4. made = [w EXCEPT !.led = k] /\ k \in [Exec -> Entries]
  BY <1>1, <1>2 DEF Worlds
<1>20. k[e] = x /\ \A j \in Exec : j # e => k[j] = w.led[j]
  BY <1>1, <1>2
<1>21. Requests(w.led, k, e, gated, names)
  BY <1>1, <1>3, <1>4, <1>20 DEF Requests, x
<1> HIDE DEF k, made
<1>5. /\ made \in Worlds /\ made.led = k /\ made.ctl = w.ctl /\ made.pend = w.pend
      /\ made.authFault = w.authFault /\ made.trk = w.trk
  BY <1>1, <1>4, WithLed
<1>6. /\ d \in Ctls /\ d.jog = w.ctl.jog /\ d.asks = <<>> /\ d.armed = w.ctl.armed
      /\ d.stopped = w.ctl.stopped
      /\ Takes(w.ctl, e, d) \/ Refuses(w.ctl, e, d)
  BY <1>1, <1>3, OnPlanShape
<1> HIDE DEF d
<1>7. /\ u \in Worlds /\ u.led = k /\ u.ctl = [d EXCEPT !.asks = <<>>]
      /\ u.authFault = w.authFault /\ u.pend = w.pend /\ u.trk = w.trk
  BY <1>5, <1>6, ControlShape
<1> HIDE DEF u
<1>8. /\ u.ctl.plan = d.plan /\ u.ctl.running = d.running /\ u.ctl.jog = d.jog
      /\ u.ctl.soft = d.soft /\ u.ctl.out = d.out /\ u.ctl.asks = <<>>
      /\ u.ctl.armed = d.armed /\ u.ctl.stopped = d.stopped
  BY <1>6, <1>7 DEF Ctls
<1>9. PICK m : /\ Ledger(m) /\ m \in [Exec -> Entries] /\ t = [u EXCEPT !.led = m]
               /\ \A j \in Exec : Prov(m[j]) => Prov(w.led[j])
               /\ \A j \in Exec : Live(m[j]) => m[j].epoch = None \/ m[j] = w.led[j]
               /\ d.plan # 0 => Carries(m[d.plan], d.running, w.trk)
               /\ d.running => w.ctl.running /\ d.plan = w.ctl.plan
               /\ d.soft = w.ctl.soft
               /\ d.soft => d.plan = w.ctl.plan
  <2>1. CASE Takes(w.ctl, e, d)
    <3> DEFINE m == OnEvent(k, Staged(e, TRUE))
    <3>1. /\ Ledger(m) /\ m \in [Exec -> Entries] /\ m[e].phase = "ADMITTED"
          /\ \A j \in Exec : Prov(m[j]) => Prov(w.led[j])
          /\ \A j \in Exec : Live(m[j]) => m[j].epoch = None
      <4>1. Admits(w.led, e, m)
        BY <1>21, OnStaged
      <4> HIDE DEF m
      <4> QED
        BY <4>1 DEF Admits
    <3>2. Append(<<>>, Staged(e, TRUE)) = <<Staged(e, TRUE)>>
      OBVIOUS
    <3>3. u.ctl.out = <<Staged(e, TRUE)>>
      BY <1>1, <1>8, <2>1, <3>2 DEF Takes
    <3>4. t = [u EXCEPT !.led = m]
      BY <1>7, <3>3, ToldIs
    <3> HIDE DEF m, t
    <3> QED
      BY <2>1, <3>1, <3>4 DEF Takes, Carries
  <2>2. CASE Refuses(w.ctl, e, d)
    <3> DEFINE m == OnEvent(k, Staged(e, FALSE))
    <3>1. /\ OnEvent(m, Leg(e, FALSE)) = m
          /\ Ledger(m) /\ m \in [Exec -> Entries]
          /\ \A j \in Exec : /\ j # e => m[j] = w.led[j]
                             /\ Prov(m[j]) => Prov(w.led[j])
                             /\ Live(m[j]) => m[j] = w.led[j]
      <4>1. Rejects(w.led, e, m)
        BY <1>21, OnRefused
      <4> HIDE DEF m
      <4> QED
        BY <4>1 DEF Rejects
    <3>2. Append(<<>>, Staged(e, FALSE)) = <<Staged(e, FALSE)>>
      OBVIOUS
    <3>3. \/ u.ctl.out = <<Staged(e, FALSE)>>
          \/ u.ctl.out = Append(<<Staged(e, FALSE)>>, Leg(e, FALSE))
      BY <1>1, <1>8, <2>2, <3>2 DEF Refuses
    <3>4. t = [u EXCEPT !.led = m]
      <4>1. CASE u.ctl.out = <<Staged(e, FALSE)>>
        BY <1>7, <4>1, ToldIs
      <4>2. CASE u.ctl.out = Append(<<Staged(e, FALSE)>>, Leg(e, FALSE))
        <5>1. Staged(e, FALSE) \in Events /\ Leg(e, FALSE) \in Events
          BY <1>3 DEF Staged, Leg, Events
        <5>2. t = [u EXCEPT !.led = OnEvent(OnEvent(u.led, Staged(e, FALSE)), Leg(e, FALSE))]
          <6> DEFINE a == Staged(e, FALSE)
                     b == Leg(e, FALSE)
          <6> HIDE DEF a, b
          <6>1. \A i, j \in Events : u.ctl.out = Append(<<i>>, j) =>
                  t = [u EXCEPT !.led = OnEvent(OnEvent(u.led, i), j)]
            BY <1>7, ToldIs
          <6> HIDE DEF t
          <6>2. a \in Events /\ b \in Events /\ u.ctl.out = Append(<<a>>, b)
            BY <4>2, <5>1 DEF a, b
          <6>3. t = [u EXCEPT !.led = OnEvent(OnEvent(u.led, a), b)]
            BY <6>1, <6>2
          <6> QED
            BY <6>3 DEF a, b
        <5> QED
          BY <1>7, <3>1, <5>2
      <4> QED
        BY <3>3, <4>1, <4>2
    <3> HIDE DEF m, t
    <3>5. d.plan = w.ctl.plan /\ d.running = w.ctl.running /\ d.soft = w.ctl.soft
      BY <2>2 DEF Refuses
    <3>6. d.plan # 0 => d.plan \in Exec
      BY <1>6, Bounds DEF Ctls, Exec
    <3>7. d.plan # 0 => Carries(m[d.plan], d.running, w.trk)
      BY <1>1, <1>3, <3>1, <3>5, <3>6 DEF Steady
    <3> QED
      BY <3>1, <3>4, <3>5, <3>7
  <2> QED
    BY <1>6, <2>1, <2>2
<1>10. /\ t \in Worlds /\ t.led = m /\ t.ctl = u.ctl /\ t.pend = u.pend
       /\ t.authFault = u.authFault /\ t.trk = u.trk
  BY <1>7, <1>9, WithLed
<1>11. OneSource(t.ctl) /\ t.ctl.asks = <<>>
  BY <1>1, <1>6, <1>8, <1>9, <1>10 DEF OneSource
<1>12. Chosen(t) = t
  BY <1>8, <1>9, <1>10, <1>11 DEF Chosen, OneSource, Carries, Runs, Moving
<1>13. PumpOps(u) = v
  <2>1. FirstSent(t, 0) = t
    BY DEF FirstSent
  <2> QED
    BY <1>12, <2>1 DEF PumpOps, Pumped
<1> HIDE DEF t
<1>14. Quiet(f) /\ SameButOut(t, f) /\ f.led = m
  BY <1>7, <1>8, <1>9, <1>10, <1>11, EmptiedQuiet
<1> HIDE DEF f
<1>15. Rest(v) /\ SameButOut(f, v) /\ Ages(f.led, v.led)
  BY <1>14, SettledRest
<1> HIDE DEF v
<1>16. Grows(w, v)
  <2>1. \A j \in Exec : Prov(v.led[j]) => Prov(w.led[j])
    BY <1>9, <1>14, <1>15 DEF Ages
  <2>2. \A j \in Exec : Unf(v.led[j]) /\ v.led[j].epoch # None =>
          \/ Unf(w.led[j]) /\ w.led[j].epoch = v.led[j].epoch
          \/ Dated(v.led[j].epoch)
    BY <1>9, <1>14, <1>15 DEF Ages, Unf
  <2> QED
    BY <1>6, <1>7, <1>8, <1>10, <1>14, <1>15, <2>1, <2>2 DEF Grows, SameButOut
<1> QED
  BY <1>13, <1>15, <1>16 DEF u, d, made, n

(* What follows on_plan.                                                   *)
LEMMA BegunRest ==
  ASSUME NEW w, Rest(w), NEW e \in Exec, NEW gated, NEW verdict, link.epoch \in Nat
  PROVE  LET v == Begun(w, e, gated, verdict) IN Rest(v) /\ Grows(w, v)
<1>1. w.led[e].phase # "REQUESTED"
  BY PhaseSets DEF Rest, Quiet, Mid, Ledger, Sound, Moving
<1>2. CASE w.led[e].phase = "ADMITTED" /\ ~gated
  <2>1. Begun(w, e, gated, verdict) = Select(w, e, verdict)
    BY <1>1, <1>2 DEF Begun
  <2>2. Rest(Select(w, e, verdict)) /\ Calmer(w, Select(w, e, verdict))
    BY <1>2, SelectRest
  <2> QED
    BY <2>1, <2>2, GrowsFacts
<1>3. CASE ~(w.led[e].phase = "ADMITTED" /\ ~gated)
  <2>1. Begun(w, e, gated, verdict) = w
    BY <1>1, <1>3 DEF Begun
  <2> QED
    BY <2>1 DEF Grows
<1> QED
  BY <1>2, <1>3

(* A new request that is not refused at the door.                          *)
LEMMA TakenRest ==
  ASSUME NEW w, Rest(w), NEW e \in Exec, w.led[e].phase = "NONE", link.epoch \in Nat,
         NEW gated \in BOOLEAN, NEW names \in 0..MaxExec, NEW verdict, Names(w.led, e, names)
  PROVE  LET made == [w EXCEPT !.led[e] =
                        Receipt([NoExec EXCEPT !.gated = gated, !.names = names], "REQUESTED")]
             v == Begun(PumpOps(Control(made, C!OnPlan(w.ctl, e, verdict # "unfit"))),
                        e, gated, verdict)
         IN Rest(v) /\ Grows(w, v)
<1> DEFINE fits == (verdict # "unfit")
           made == [w EXCEPT !.led[e] =
                      Receipt([NoExec EXCEPT !.gated = gated, !.names = names], "REQUESTED")]
           u == PumpOps(Control(made, C!OnPlan(w.ctl, e, fits)))
           v == Begun(u, e, gated, verdict)
<1>1. fits \in BOOLEAN
  OBVIOUS
<1> HIDE DEF fits
<1>2. Rest(u) /\ Grows(w, u)
  BY <1>1, StagedRest
<1> HIDE DEF u
<1>3. Rest(v) /\ Grows(u, v)
  BY <1>2, BegunRest
<1> HIDE DEF v
<1>4. Grows(w, v)
  BY <1>2, <1>3, GrowsFacts
<1> QED
  BY <1>3, <1>4 DEF v, u, fits

(* supersession_refusal: what is live is what the request names.           *)
LEMMA NotRefused ==
  ASSUME NEW l, Ledger(l), NEW e \in Exec, NEW names \in 0..(e - 1),
         ~SupersessionRefused(names, Current(l),
                              IF Current(l) = 0 THEN "NONE" ELSE l[Current(l)].phase)
  PROVE  Names(l, e, names) /\ names \in 0..MaxExec
<1>1. e \in Nat /\ e <= MaxExec /\ names # e /\ names \in 0..MaxExec
  BY Bounds DEF Exec
<1>2. CASE Current(l) = 0 /\ \A d \in Exec : ~Live(l[d])
  BY <1>1, <1>2 DEF Names
<1>3. CASE Current(l) \in Exec /\ Live(l[Current(l)])
  <2>1. Current(l) # 0
    BY <1>3, Bounds DEF Exec
  <2>2. names = Current(l) /\ l[Current(l)].phase = "ADMITTED"
    BY <2>1 DEF SupersessionRefused
  <2>3. \A d \in Exec : Live(l[d]) => d = Current(l)
    BY <1>3 DEF Ledger
  <2> QED
    BY <1>1, <2>2, <2>3 DEF Names
<1> QED
  BY <1>2, <1>3, CurrentIs

-----------------------------------------------------------------------------
(* The operations on the authority and the laws.                           *)

(* A handler after another, the first of which may ask for a DISARM.       *)
LEMMA EasesThen ==
  ASSUME NEW c \in Ctls, NEW d, NEW e, Eases(c, d), Rests(d, e)
  PROVE  Eases(c, e)
<1>1. e \in Ctls /\ d \in Ctls
  BY DEF Eases, Rests
<1>2. Kept(c, e) \/ Dropped(c, e) \/ Finished(c, e)
  BY <1>1 DEF Eases, Rests, Kept, Dropped, Finished
<1>3. e.running /\ c.armed => e.armed
  BY <1>1 DEF Eases, Rests, Kept, Dropped, Finished
<1> QED
  BY <1>1, <1>2, <1>3 DEF Eases, Rests, Asked

(* A controller call that starts nothing, as an operation.                 *)
LEMMA EaseRest ==
  ASSUME NEW w, Rest(w), Whole(w), rt.last \in Nat, link.epoch \in Nat, NEW d, Eases(w.ctl, d)
  PROVE  LET v == PumpOps(Control(w, d))
         IN /\ Rest(v) /\ Whole(v) /\ Onward(w, v) /\ v.ctl.stopped = d.stopped
            /\ AsSeen(w, v)
<1> DEFINE u == Control(w, d)
           v == PumpOps(u)
<1>1. Mid(w)
  BY DEF Rest, Quiet
<1>2. Mid(u) /\ Whole(u) /\ Onward(w, u) /\ AsSeen(w, u)
  BY <1>1, ControlOn
<1>3. u.ctl.stopped = d.stopped
  <2>1. u.ctl = [d EXCEPT !.asks = <<>>] /\ d \in Ctls
    BY <1>1, ControlMid DEF Eases
  <2> HIDE DEF u
  <2> QED
    BY <2>1 DEF Ctls
<1> HIDE DEF u
<1>4. Rest(v) /\ SameButOut(u, v) /\ Ages(u.led, v.led)
  BY <1>2, PumpOpsRest
<1> HIDE DEF v
<1>5. Calmer(u, v) /\ v.ctl.stopped = u.ctl.stopped
  BY <1>4, CalmerPump DEF SameButOut
<1>6. Whole(v) /\ Onward(u, v)
  BY <1>2, <1>5, CalmerWhole, CalmerOnward
<1>7. Onward(w, v)
  BY <1>2, <1>6, OnwardThen
<1>8. AsSeen(w, v)
  BY <1>2, <1>5 DEF AsSeen, Calmer
<1> QED
  BY <1>3, <1>4, <1>5, <1>6, <1>7, <1>8 DEF v, u

(* The DISARM operation.                                                   *)
LEMMA DisarmRest ==
  ASSUME NEW w, Rest(w), Whole(w), rt.last \in Nat, link.epoch \in Nat, ~w.ctl.stopped
  PROVE  LET a == CancelAll(w)
             v == PumpOps(Control(a, C!Cancel(C!SetArm(a.ctl, FALSE))))
         IN Rest(v) /\ Whole(v) /\ ~v.ctl.stopped /\ AsSeen(w, v)
<1> DEFINE a == CancelAll(w)
           c == C!SetArm(a.ctl, FALSE)
           d == C!Cancel(c)
           v == PumpOps(Control(a, d))
<1>1. Rest(a) /\ Calmer(w, a)
  BY CancelAllRest
<1> HIDE DEF a
<1>2. Whole(a) /\ ~a.ctl.stopped /\ a.ctl \in Ctls
  BY <1>1, CalmerWhole DEF Calmer, Rest, Quiet, Mid, Worlds
<1>3. Eases(a.ctl, c) /\ ~c.stopped /\ c \in Ctls
  BY <1>2, DisarmEases DEF Eases
<1> HIDE DEF c
<1>4. Rests(c, d) /\ ~d.stopped
  BY <1>3, CancelRests DEF Rests
<1> HIDE DEF d
<1>5. Eases(a.ctl, d)
  BY <1>2, <1>3, <1>4, EasesThen
<1>6. Rest(v) /\ Whole(v) /\ v.ctl.stopped = d.stopped /\ AsSeen(a, v)
  BY <1>1, <1>2, <1>5, EaseRest
<1> HIDE DEF v
<1>7. AsSeen(w, v)
  BY <1>1, <1>6 DEF AsSeen, Calmer
<1> QED
  BY <1>4, <1>6, <1>7 DEF v, a, c, d

(* The HOLD operation.                                                     *)
LEMMA HoldRest ==
  ASSUME NEW w, Rest(w), Whole(w), rt.last \in Nat, link.epoch \in Nat, ~w.ctl.stopped
  PROVE  LET a == CancelAll(w)
             v == PumpOps(Control(a, C!Cancel(a.ctl)))
         IN Rest(v) /\ Whole(v) /\ ~v.ctl.stopped /\ AsSeen(w, v)
<1> DEFINE a == CancelAll(w)
           d == C!Cancel(a.ctl)
           v == PumpOps(Control(a, d))
<1>1. Rest(a) /\ Calmer(w, a)
  BY CancelAllRest
<1> HIDE DEF a
<1>2. Whole(a) /\ ~a.ctl.stopped /\ a.ctl \in Ctls
  BY <1>1, CalmerWhole DEF Calmer, Rest, Quiet, Mid, Worlds
<1>3. Eases(a.ctl, d) /\ ~d.stopped
  BY <1>2, CancelRests DEF Rests
<1> HIDE DEF d
<1>4. Rest(v) /\ Whole(v) /\ v.ctl.stopped = d.stopped /\ AsSeen(a, v)
  BY <1>1, <1>2, <1>3, EaseRest
<1> HIDE DEF v
<1>5. AsSeen(w, v)
  BY <1>1, <1>4 DEF AsSeen, Calmer
<1> QED
  BY <1>3, <1>4, <1>5 DEF v, a, d

(* A change of law.                                                        *)
LEMMA PresetRest ==
  ASSUME NEW w, Rest(w), Whole(w), rt.last \in Nat, link.epoch \in Nat, ~w.ctl.stopped,
         NEW soft \in BOOLEAN
  PROVE  LET a == CancelEvery(w)
             v == PumpOps(Control(a, IF soft THEN C!SetPoseHold(a.ctl) ELSE C!SetGains(a.ctl)))
         IN Rest(v) /\ Whole(v) /\ ~v.ctl.stopped /\ AsSeen(w, v)
<1> DEFINE a == CancelEvery(w)
           d == IF soft THEN C!SetPoseHold(a.ctl) ELSE C!SetGains(a.ctl)
           u == Control(a, d)
           v == PumpOps(u)
<1>1. Rest(a) /\ Calmer(w, a)
  BY CancelEveryRest
<1> HIDE DEF a
<1>2. /\ Whole(a) /\ ~a.ctl.stopped /\ a.ctl \in Ctls /\ Mid(a) /\ a \in Worlds
      /\ Ledger(a.led) /\ a.ctl.out = <<>> /\ a.ctl.asks = <<>>
  BY <1>1, CalmerWhole DEF Calmer, Rest, Quiet, Mid, Worlds, Steady
<1>3. \/ Rests(a.ctl, d)
      \/ /\ d \in Ctls /\ ~d.jog /\ d.soft /\ d.plan = 0 /\ ~d.running
         /\ d.out = a.ctl.out /\ d.asks = a.ctl.asks
         /\ d.armed = a.ctl.armed /\ d.stopped = a.ctl.stopped
  BY <1>2, LawEases
<1> HIDE DEF d
<1>4. CASE Rests(a.ctl, d)
  <2>1. Eases(a.ctl, d) /\ ~d.stopped
    BY <1>2, <1>4 DEF Rests
  <2>2. Rest(v) /\ Whole(v) /\ v.ctl.stopped = d.stopped /\ AsSeen(a, v)
    BY <1>1, <1>2, <2>1, EaseRest
  <2> HIDE DEF v
  <2>3. AsSeen(w, v)
    BY <1>1, <2>2 DEF AsSeen, Calmer
  <2> QED
    BY <2>1, <2>2, <2>3 DEF v, u, a, d
<1>5. CASE /\ d \in Ctls /\ ~d.jog /\ d.soft /\ d.plan = 0 /\ ~d.running
           /\ d.out = a.ctl.out /\ d.asks = a.ctl.asks
           /\ d.armed = a.ctl.armed /\ d.stopped = a.ctl.stopped
  <2>1. /\ u \in Worlds /\ u.led = a.led /\ u.ctl = [d EXCEPT !.asks = <<>>]
        /\ u.authFault = a.authFault /\ u.pend = a.pend /\ u.trk = a.trk
    <3>1. d \in Ctls /\ d.asks = <<>>
      BY <1>2, <1>5
    <3> QED
      BY <1>2, <3>1, ControlShape
  <2> HIDE DEF u
  <2>2. /\ u.ctl.plan = 0 /\ ~u.ctl.running /\ ~u.ctl.jog /\ u.ctl.soft /\ u.ctl.out = <<>>
        /\ u.ctl.asks = <<>> /\ u.ctl.armed = a.ctl.armed /\ u.ctl.stopped = a.ctl.stopped
    BY <1>2, <1>5, <2>1 DEF Ctls
  <2>3. Mid(u)
    BY <1>2, <2>1, <2>2 DEF Mid, Steady, OneSource
  <2>4. Calmer(a, u)
    BY <2>1, <2>2 DEF Calmer, Ages
  <2>5. Rest(v) /\ SameButOut(u, v) /\ Ages(u.led, v.led)
    BY <2>3, PumpOpsRest
  <2> HIDE DEF v
  <2>6. Calmer(u, v) /\ ~v.ctl.stopped
    BY <1>2, <2>2, <2>5, CalmerPump DEF SameButOut
  <2>7. Whole(v)
    BY <1>2, <2>4, <2>6, CalmerWhole
  <2>8. AsSeen(w, v)
    BY <1>1, <2>4, <2>6 DEF AsSeen, Calmer
  <2> QED
    BY <2>5, <2>6, <2>7, <2>8 DEF v, u, d, a
<1> QED
  BY <1>3, <1>4, <1>5

(* set_setpoint: nothing else moves the arm.                               *)
LEMMA SetpointRest ==
  ASSUME NEW w, Rest(w), Whole(w), ~C!JogRefused(w.ctl)
  PROVE  LET v == [w EXCEPT !.ctl.jog = TRUE]
         IN Rest(v) /\ Whole(v) /\ v.ctl.stopped = w.ctl.stopped /\ AsSeen(w, v)
<1> DEFINE c == [w.ctl EXCEPT !.jog = TRUE]
           v == [w EXCEPT !.ctl = c]
<1>1. /\ w \in Worlds /\ w.ctl \in Ctls /\ Ledger(w.led) /\ Steady(w) /\ Held(w)
      /\ OneSource(w.ctl) /\ w.ctl.asks = <<>> /\ ~w.ctl.commands
  BY DEF Rest, Quiet, Mid, Worlds
<1>2. [w EXCEPT !.ctl.jog = TRUE] = v
  BY <1>1 DEF Worlds
<1>3. ~w.ctl.running /\ ~w.ctl.soft
  BY DEF C!JogRefused
<1>4. /\ c \in Ctls /\ c.jog /\ c.running = w.ctl.running /\ c.soft = w.ctl.soft
      /\ c.plan = w.ctl.plan /\ c.out = w.ctl.out /\ c.asks = w.ctl.asks
      /\ c.commands = w.ctl.commands /\ c.armed = w.ctl.armed /\ c.stopped = w.ctl.stopped
  BY <1>1 DEF Ctls
<1> HIDE DEF c
<1>5. /\ v \in Worlds /\ v.ctl = c /\ v.led = w.led /\ v.pend = w.pend /\ v.trk = w.trk
      /\ v.authFault = w.authFault
  BY <1>1, <1>4 DEF Worlds
<1> HIDE DEF v
<1>6. Rest(v)
  <2>1. OneSource(v.ctl)
    BY <1>1, <1>3, <1>4, <1>5 DEF OneSource
  <2>2. Steady(v) /\ Held(v)
    BY <1>1, <1>4, <1>5 DEF Steady, Held
  <2> QED
    BY <1>1, <1>4, <1>5, <2>1, <2>2 DEF Rest, Quiet, Mid
<1>7. Grows(w, v)
  BY <1>4, <1>5 DEF Grows
<1>8. Whole(v)
  BY <1>7, GrowsFacts
<1>9. AsSeen(w, v)
  BY <1>5 DEF AsSeen
<1> QED
  BY <1>2, <1>4, <1>5, <1>6, <1>8, <1>9

(* _abandon: nothing is left to finish, and no setpoint.                   *)
LEMMA AbandonRest ==
  ASSUME NEW w, Rest(w), Whole(w), link.epoch \in Nat, ~w.ctl.stopped
  PROVE  LET a == CancelAll(w)
             v == [a EXCEPT !.ctl.jog = FALSE]
         IN /\ Rest(v) /\ Whole(v) /\ ~v.ctl.stopped /\ ~v.ctl.jog /\ AsSeen(w, v)
            /\ \A e \in Exec : ~Unf(v.led[e])
<1> DEFINE a == CancelAll(w)
           c == [a.ctl EXCEPT !.jog = FALSE]
           v == [a EXCEPT !.ctl = c]
<1>1. Rest(a) /\ Calmer(w, a) /\ \A e \in Exec : ~Unf(a.led[e])
  BY CancelAllRest
<1> HIDE DEF a
<1>2. /\ a \in Worlds /\ a.ctl \in Ctls /\ Ledger(a.led) /\ Steady(a) /\ Held(a)
      /\ OneSource(a.ctl) /\ a.ctl.asks = <<>> /\ ~a.ctl.commands /\ Whole(a)
      /\ ~a.ctl.stopped
  BY <1>1, CalmerWhole DEF Rest, Quiet, Mid, Worlds, Calmer
<1>3. [a EXCEPT !.ctl.jog = FALSE] = v
  BY <1>2 DEF Worlds
<1>4. /\ c \in Ctls /\ ~c.jog /\ c.running = a.ctl.running /\ c.soft = a.ctl.soft
      /\ c.plan = a.ctl.plan /\ c.out = a.ctl.out /\ c.asks = a.ctl.asks
      /\ c.commands = a.ctl.commands /\ c.armed = a.ctl.armed /\ c.stopped = a.ctl.stopped
  BY <1>2 DEF Ctls
<1> HIDE DEF c
<1>5. /\ v \in Worlds /\ v.ctl = c /\ v.led = a.led /\ v.pend = a.pend /\ v.trk = a.trk
      /\ v.authFault = a.authFault
  BY <1>2, <1>4 DEF Worlds
<1> HIDE DEF v
<1>6. Rest(v)
  <2>1. OneSource(v.ctl)
    BY <1>2, <1>4, <1>5 DEF OneSource
  <2>2. Steady(v) /\ Held(v)
    BY <1>2, <1>4, <1>5 DEF Steady, Held
  <2> QED
    BY <1>2, <1>4, <1>5, <2>1, <2>2 DEF Rest, Quiet, Mid
<1>7. Grows(a, v)
  BY <1>4, <1>5 DEF Grows
<1>8. Whole(v)
  BY <1>2, <1>7, GrowsFacts
<1>9. AsSeen(w, v)
  BY <1>1, <1>5 DEF AsSeen, Calmer
<1> QED
  BY <1>1, <1>2, <1>3, <1>4, <1>5, <1>6, <1>8, <1>9 DEF a

(* The ARM operation: nothing is on its way.                               *)
LEMMA ArmRest ==
  ASSUME NEW w, Rest(w), Whole(w), rt.last \in Nat, link.epoch \in Nat, ~w.ctl.stopped,
         ~w.ctl.armed, ~DisarmPending(w.pend)
  PROVE  LET v == PumpOps(Control(w, C!SetArm(w.ctl, TRUE)))
         IN Rest(v) /\ Whole(v) /\ ~v.ctl.stopped /\ AsSeen(w, v)
<1> DEFINE c == [w.ctl EXCEPT !.armed = TRUE]
           d == C!SetArm(w.ctl, TRUE)
           u == Control(w, d)
           v == PumpOps(u)
           ask == [arm |-> TRUE, st |-> "queued"]
<1>1. /\ w \in Worlds /\ w.ctl \in Ctls /\ Ledger(w.led) /\ Steady(w)
      /\ OneSource(w.ctl) /\ w.ctl.asks = <<>> /\ Guarded(w) /\ Evid(w) /\ w.pend \in Seq(Pends)
  BY DEF Rest, Quiet, Mid, Worlds, Whole
<1>2. /\ d \in Ctls /\ d.asks = <<TRUE>> /\ [d EXCEPT !.asks = <<>>] = c
  <2>1. Append(<<>>, TRUE) = <<TRUE>> /\ <<TRUE>> \in Seq(BOOLEAN)
    OBVIOUS
  <2>2. d = [w.ctl EXCEPT !.armed = TRUE, !.asks = <<TRUE>>]
    BY <1>1, <2>1 DEF C!SetArm, Ctls
  <2> QED
    BY <1>1, <2>1, <2>2 DEF Ctls
<1>3. /\ c \in Ctls /\ c.armed /\ c.running = w.ctl.running /\ c.soft = w.ctl.soft
      /\ c.plan = w.ctl.plan /\ c.out = w.ctl.out /\ c.asks = w.ctl.asks
      /\ c.jog = w.ctl.jog /\ c.stopped = w.ctl.stopped
  BY <1>1 DEF Ctls
<1> HIDE DEF c, d
<1>4. u = RequestAuthority([w EXCEPT !.ctl = c], TRUE) /\ u \in Worlds
  BY <1>1, <1>2, ControlShape
<1>5. /\ u.led = w.led /\ u.ctl = c /\ u.authFault = w.authFault /\ u.trk = w.trk
      /\ u.pend = Append(w.pend, ask)
  <2> DEFINE k == [w EXCEPT !.ctl = c]
  <2>1. /\ k \in Worlds /\ k.led = w.led /\ k.ctl = c /\ k.authFault = w.authFault
        /\ k.trk = w.trk /\ k.pend = w.pend
    BY <1>1, <1>3 DEF Worlds
  <2>2. RequestAuthority(k, TRUE) = [k EXCEPT !.pend = Append(k.pend, ask)]
    BY DEF RequestAuthority
  <2> HIDE DEF k, u
  <2>3. u = RequestAuthority(k, TRUE)
    BY <1>4 DEF k
  <2>4. [k EXCEPT !.pend = Append(k.pend, ask)].pend = Append(k.pend, ask)
    BY <2>1 DEF Worlds
  <2> QED
    BY <2>1, <2>2, <2>3, <2>4, RequestShape
<1> HIDE DEF u
<1>6. Mid(u)
  <2>1. Steady(u)
    BY <1>1, <1>3, <1>5 DEF Steady
  <2>2. OneSource(u.ctl)
    BY <1>1, <1>3, <1>5 DEF OneSource
  <2> QED
    BY <1>1, <1>3, <1>4, <1>5, <2>1, <2>2 DEF Mid
<1>7. ASSUME OneTrouble
      PROVE  /\ Queue(u.pend, TRUE) /\ Word(u.pend) /\ Single(u.pend)
             /\ Wanted(u.pend, TRUE, u.authFault) /\ Agreed(u.pend, TRUE, u.authFault)
  <2>1. Queue(w.pend, FALSE) /\ Single(w.pend) /\ Agreed(w.pend, w.ctl.armed, w.authFault)
    <3>1. /\ Queue(w.pend, w.ctl.armed) /\ Single(w.pend)
          /\ Agreed(w.pend, w.ctl.armed, w.authFault)
      BY <1>1, <1>7 DEF Guarded
    <3> QED
      BY <3>1 DEF Queue
  <2>2. w.pend = <<>>
    <3>1. ASSUME NEW i \in DOMAIN w.pend PROVE FALSE
      <4>1. w.pend[i].arm
        BY DEF DisarmPending
      <4>2. \E j \in DOMAIN w.pend : ~w.pend[j].arm
        BY <2>1, <4>1 DEF Queue
      <4> QED
        BY <4>2 DEF DisarmPending
    <3>2. Len(w.pend) \in Nat /\ DOMAIN w.pend = 1..Len(w.pend)
      BY <1>1
    <3>3. Len(w.pend) = 0
      <4>1. Len(w.pend) > 0 => 1 \in DOMAIN w.pend
        BY <3>2
      <4> QED
        BY <3>1, <3>2, <4>1
    <3> QED
      BY <1>1, <3>3
  <2>3. u.pend = <<ask>>
    <3>1. Append(<<>>, ask) = <<ask>>
      OBVIOUS
    <3> QED
      BY <1>5, <2>2, <3>1
  <2>4. DOMAIN u.pend = {1} /\ u.pend[1].arm = TRUE /\ u.pend[1].st = "queued"
    BY <2>3
  <2>5. Queue(u.pend, TRUE)
    BY <2>4 DEF Queue
  <2>6. Word(u.pend)
    BY <2>4 DEF Word
  <2>7. Single(u.pend)
    BY <2>1, <2>2, <2>4 DEF Single
  <2>8. Wanted(u.pend, TRUE, u.authFault)
    BY DEF Wanted
  <2>9. Agreed(u.pend, TRUE, u.authFault)
    <3>1. "slow" \notin ops.scene.trouble => link.epoch = 0 \/ (~wire.up /\ u.authFault)
      BY <1>5, <2>1, <2>2 DEF Agreed
    <3> QED
      BY <2>4, <3>1 DEF Agreed
  <2> QED
    BY <2>5, <2>6, <2>7, <2>8, <2>9
<1>8. Whole(u)
  <2>1. Evid(u)
    BY <1>1, <1>5 DEF Evid
  <2>2. u.ctl.armed = TRUE
    BY <1>3, <1>5 DEF Ctls
  <2>3. Guarded(u)
    BY <1>3, <1>5, <1>7, <2>2 DEF Guarded
  <2> QED
    BY <2>1, <2>3 DEF Whole
<1>9. Rest(v) /\ SameButOut(u, v) /\ Ages(u.led, v.led)
  BY <1>6, PumpOpsRest
<1> HIDE DEF v
<1>10. Whole(v) /\ ~v.ctl.stopped
  BY <1>3, <1>5, <1>8, <1>9, CalmerPump, CalmerWhole DEF SameButOut
<1>11. AsSeen(w, v)
  BY <1>5, <1>9 DEF AsSeen, SameButOut
<1> QED
  BY <1>9, <1>10, <1>11 DEF v, u, d
=============================================================================
