------------------------------ MODULE Supervisor ------------------------------
(***************************************************************************)
(* The robot supervisor (arm_control/supervisor/runtime.py): the ledger of *)
(* executions, the one owner, the ARM and DISARM requests of its authority *)
(* worker (plants/remote_rt/client.py), and the 100 Hz loop that drives an *)
(* ArmController and turns what the controller and the RT server's state   *)
(* stream say into receipts.  Streamed plans and the native reference are  *)
(* not in this module.                                                     *)
(*                                                                         *)
(* The loop thread runs the clients' operations and one step after the     *)
(* other; the link's receive and control threads, the worker and the       *)
(* server run between them, and a packet may arrive in the middle of a     *)
(* step, after the health is read and before the state history is.         *)
(*                                                                         *)
(* Commands are numbered by what the ledger can tell of their seq: `mark'  *)
(* is the latest execution whose first command has been sent, so a seq is  *)
(* at or past the first of execution e exactly when its mark is >= e.      *)
(* State packets arrive in order or not at all (StateStream has the rest). *)
(***************************************************************************)
EXTENDS AppliedRule, ExecutionContract, Sequences, FiniteSetsExt

CONSTANTS Sessions,      \* the clients' connections
          NoOwner,       \* Python's None, for the owner
          MaxExec,       \* bound: executions ever requested
          MaxArm,        \* bound: ARM operations
          MaxInbox,      \* bound: packets received between two steps
          Paced,         \* whether the loop's steps are counted, for liveness
          Scenes         \* the scenes to play, one of them per behaviour: records of
                         \*   sessions, exec, arm, disarm: how many of each
                         \*   trouble: what goes wrong, of "fault", "stale", "slow", "down"
                         \*   uses: what clients use beside the rest, of "close",
                         \*         "gated", "hold", "setpoint", "preset"

ASSUME SupervisorAssumption ==
  /\ {MaxExec, MaxArm, MaxInbox} \subseteq Nat /\ Paced \in BOOLEAN
  /\ NoOwner \notin Sessions
  /\ Scenes \subseteq [sessions : Nat, exec : 0..MaxExec, arm : 0..MaxArm, disarm : Nat,
                      trouble : SUBSET {"fault", "stale", "slow", "down"},
                      uses : SUBSET {"close", "gated", "hold", "setpoint", "preset"}]

C == INSTANCE ArmController
S == INSTANCE SequencesExt

VARIABLES
  owner,       \* _owner
  sess,        \* open, closing (in _closed_sessions, _owner_lost queued), gone
  led,         \* _executions
  ctl,         \* the ArmController
  pend,        \* _pending: the authority requests not yet drained
  authFault,   \* _authority_fault is set
  trk,         \* _tracker
  mark,        \* as above
  auth,        \* the lifecycle last published
  beat,        \* the parity of the loop's steps, if Paced
  ops,         \* the scene, and how many ARM and DISARM operations were made
  link,        \* the client's link: what it received and remembers
  rt,          \* the server: armed, faulted, epoch, last, stop
  wire         \* TCP requests and acks, the UDP command, a fault notice, up

supVars == <<owner, sess, led, ctl, pend, authFault, trk, mark, auth, beat, ops>>
vars == <<supVars, link, rt, wire>>

Exec == 1..MaxExec
NoExec == [phase |-> "NONE", gated |-> FALSE, names |-> 0, cancel |-> FALSE,
           done |-> "no", epoch |-> None]

Live(x) == x.phase \notin Terminal \cup {"NONE"}
LiveExecs(l) == {e \in DOMAIN l : Live(l[e])}

\* _current: the last live execution, 0 if there is none.
Current(l) == IF LiveExecs(l) = {} THEN 0 ELSE Max(LiveExecs(l))

Packet == [armed |-> rt.armed, faulted |-> rt.faulted, epoch |-> rt.epoch,
           last |-> rt.last, stop |-> rt.stop, seq |-> 1]

Init ==
  /\ owner = NoOwner
  /\ led = [e \in Exec |-> NoExec]
  /\ ctl = C!NewController
  /\ pend = <<>>
  /\ authFault = FALSE
  /\ mark = 0
  /\ auth = "DISCONNECTED"
  /\ beat = FALSE
  /\ \E scene \in Scenes :
       /\ ops = [arm |-> 0, disarm |-> 0, scene |-> scene]
       /\ \E open \in kSubset(scene.sessions, Sessions) :
            sess = [s \in Sessions |-> IF s \in open THEN "open" ELSE "gone"]
  /\ rt = [armed |-> FALSE, faulted |-> FALSE, epoch |-> 0, last |-> 0, stop |-> 0]
  /\ link = [latest |-> Packet, inbox |-> <<>>, fresh |-> TRUE, epoch |-> 0,
             latched |-> FALSE, later |-> FALSE, need |-> 0]
  /\ trk = NewTracker
  /\ wire = [reqs |-> <<>>, acks |-> <<>>, cmd |-> [epoch |-> 0, mark |-> 0],
             notice |-> FALSE, up |-> TRUE]

-----------------------------------------------------------------------------
(* The ledger.  A receipt that ExecutionStatus.apply would refuse, or that *)
(* repeats one already given, leaves the entry RAISED.  Nothing but the    *)
(* phase of an ended execution is read again.                              *)

Receipt(x, q) ==
  IF IF x.phase = "NONE" THEN Begins(q) ELSE x.phase \in Phase /\ Follows(x.phase, q)
  THEN IF q \in Terminal THEN [NoExec EXCEPT !.phase = q] ELSE [x EXCEPT !.phase = q]
  ELSE [x EXCEPT !.phase = "RAISED"]

LegResult(x, ok) ==
  IF ok THEN [x EXCEPT !.done = "waiting"]
  ELSE IF x.cancel THEN Receipt(x, "CANCELLED")
  ELSE IF x.phase = "ADMITTED" THEN Receipt(x, "REJECTED")
  ELSE Receipt(x, "FAULTED")

\* Mutant: the event of an execution that has ended is not passed over.
OnEventUnguarded(l, ev) ==
  LET e == ev.plan
  IN IF e = 0 THEN l
     ELSE IF ev.kind = "leg_result" THEN [l EXCEPT ![e] = LegResult(@, ev.ok)]
     ELSE [l EXCEPT ![e] = Receipt(@, IF ev.ok THEN "ADMITTED" ELSE "REJECTED")]

\* _on_event: one event of the controller's outbox.
OnEvent(l, ev) ==
  LET e == ev.plan
  IN IF e = 0 \/ ~Live(l[e]) THEN l
     ELSE IF ev.kind = "leg_result" THEN [l EXCEPT ![e] = LegResult(@, ev.ok)]
     ELSE IF ~ev.ok THEN [l EXCEPT ![e] = Receipt(@, "REJECTED")]
     ELSE LET old == l[e].names
              admitted == [l EXCEPT ![e] = Receipt(@, "ADMITTED")]
          IN IF old # 0 /\ Live(l[old])
             THEN [admitted EXCEPT ![old] = Receipt(@, "SUPERSEDED")]
             ELSE admitted

\* Mutant: no end to the wait for plant acceptance.
ReconciledPatient(x, held) ==
  IF ~Live(x) THEN x
  ELSE IF x.done # "no" THEN IF x.phase = "APPLIED" THEN Receipt(x, "COMPLETED") ELSE x
  ELSE IF x.phase = "REQUESTED" \/ held THEN x
  ELSE IF x.cancel \/ x.phase = "ADMITTED" THEN Receipt(x, "CANCELLED")
  ELSE Receipt(x, "FAULTED")

\* _reconcile: what the controller no longer holds, with no event to say why.
Reconciled(x, held) ==
  IF ~Live(x) THEN x
  ELSE IF x.done # "no"
  THEN IF x.phase = "APPLIED" THEN Receipt(x, "COMPLETED")
       ELSE IF x.done = "overdue" THEN Receipt(x, "FAULTED") ELSE x
  ELSE IF x.phase = "REQUESTED" \/ held THEN x
  ELSE IF x.cancel \/ x.phase = "ADMITTED" THEN Receipt(x, "CANCELLED")
  ELSE Receipt(x, "FAULTED")

Reconcile(l, plan) == [e \in Exec |-> Reconciled(l[e], e = plan)]

\* Mutant: any confirmed command of the generation counts.
EvidenceAnySeq(x, e, t) ==
  IF x.epoch # None /\ Live(x) /\ FaultSeen(t, x.epoch) THEN Receipt(x, "FAULTED")
  ELSE IF x.phase = "SENT" /\ Confirmed(t, x.epoch) # None THEN Receipt(x, "APPLIED") ELSE x

\* The RT evidence of one execution, at the end of a step.
Evidence(x, e, t) ==
  IF x.epoch # None /\ Live(x) /\ FaultSeen(t, x.epoch) THEN Receipt(x, "FAULTED")
  ELSE IF x.phase = "SENT" /\ Confirmed(t, x.epoch) # None /\ Confirmed(t, x.epoch) >= e
  THEN Receipt(x, "APPLIED")
  ELSE x

-----------------------------------------------------------------------------
(* The loop thread's state as one record, and its methods as functions.    *)

World == [led |-> led, ctl |-> ctl, pend |-> pend, authFault |-> authFault,
          trk |-> trk, mark |-> mark, cmd |-> wire.cmd]

Answered == {"ok", "failed", "cancelled"}
DisarmPending(p) == \E i \in DOMAIN p : ~p[i].arm

\* _request_authority: a DISARM in flight covers a later one, and drops the
\* ARMs that the worker has not begun.
RequestAuthority(w, arm) ==
  LET dropped == [i \in DOMAIN w.pend |->
                    IF w.pend[i].arm /\ w.pend[i].st = "queued"
                    THEN [w.pend[i] EXCEPT !.st = "cancelled"] ELSE w.pend[i]]
      covered == \E i \in DOMAIN w.pend : ~w.pend[i].arm /\ w.pend[i].st \notin Answered
  IN IF arm THEN [w EXCEPT !.pend = Append(@, [arm |-> TRUE, st |-> "queued"])]
     ELSE [w EXCEPT !.trk = DisarmSent(@),
                    !.pend = IF covered THEN @
                             ELSE Append(dropped, [arm |-> FALSE, st |-> "queued"])]

\* A controller call: its ARM and DISARM outputs are requests at once.
Control(w, c) ==
  S!FoldLeft(RequestAuthority, [w EXCEPT !.ctl = [c EXCEPT !.asks = <<>>]], c.asks)

\* _pump_controller, in its order: the outbox's events, the selection of a leg
\* that now runs, the SENT of its first command (stepped from execution `for',
\* 0 = none), the commands themselves, and _reconcile.
Told(w) == [w EXCEPT !.led = S!FoldLeft(OnEvent, @, w.ctl.out)]

Chosen(w) ==
  IF w.ctl.running /\ w.led[w.ctl.plan].phase = "ADMITTED"
  THEN [w EXCEPT !.led[w.ctl.plan] = Receipt(@, "SELECTED")] ELSE w

FirstSent(w, for) ==
  IF for # 0 /\ w.ctl.commands /\ w.led[for].phase = "SELECTED" /\ w.led[for].epoch = None
  THEN [w EXCEPT !.led[for] = [Receipt(@, "SENT") EXCEPT !.epoch = link.epoch], !.mark = for]
  ELSE w

Emptied(w) ==
  [w EXCEPT !.ctl.out = <<>>, !.ctl.commands = FALSE,
            !.cmd = IF w.ctl.commands THEN [epoch |-> link.epoch, mark |-> w.mark] ELSE @]

Pumped(w, for) == Emptied(FirstSent(Chosen(Told(w)), for))

Settled(w) == [w EXCEPT !.led = Reconcile(@, w.ctl.plan)]

PumpOps(w) == Settled(Pumped(w, 0))

CancelExecution(w, e) ==
  LET named == [w EXCEPT !.led[e].cancel = TRUE, !.led[e].done = "no"]
  IN PumpOps(IF w.ctl.plan = e THEN Control(named, C!Cancel(w.ctl)) ELSE named)

Unfinished(l) == {e \in LiveExecs(l) : l[e].done = "no"}

\* The loops over the executions, the oldest first: each is looked at when its
\* turn comes.  A change of law cancels the finished one too.
CancelUnfinished(w, e) == IF e \in Unfinished(w.led) THEN CancelExecution(w, e) ELSE w
CancelLive(w, e) == IF e \in LiveExecs(w.led) THEN CancelExecution(w, e) ELSE w
CancelAll(w) == S!FoldLeft(CancelUnfinished, w, [e \in Exec |-> e])
CancelEvery(w) == S!FoldLeft(CancelLive, w, [e \in Exec |-> e])

\* Mutant: the receipt without the drop.
EndStagedKept(w, e, q) == [w EXCEPT !.led[e] = Receipt(@, q)]

\* _drop_staged, after the receipt that ends e.
EndStaged(w, e, q) ==
  LET ended == [w EXCEPT !.led[e] = Receipt(@, q)]
  IN IF w.ctl.plan = e THEN Pumped(Control(ended, C!Cancel(w.ctl)), 0) ELSE ended

Expire(w, e) == IF w.led[e].phase = "ADMITTED" THEN EndStaged(w, e, "EXPIRED") ELSE w

\* What the checks on a request may find, in their order: it is not one for
\* this robot, its plan is out of policy, its admit_by has passed, the arm is
\* not at its start.
Selections == {"expired", "away", "good"}
Verdicts == Selections \cup {"inadmissible", "unfit"}

\* _select: expiry, then ARM, then the controller's own release checks.
Select(w, e, verdict) ==
  IF verdict = "expired" THEN Expire(w, e)
  ELSE IF auth # "ARMED" THEN EndStaged(w, e, "REJECTED")
  ELSE PumpOps(Control(w, C!Release(w.ctl, e, verdict # "away")))

\* _drain_authority: one answered request, and all of them.
DrainOne(w, i) ==
  IF w.pend = <<>> \/ Head(w.pend).st \notin Answered THEN w
  ELSE LET h == Head(w.pend)
           rest == [w EXCEPT !.pend = Tail(@)]
           noted == [rest EXCEPT !.authFault = h.st = "failed"]
       IN IF h.st = "cancelled" THEN rest
          ELSE IF h.arm /\ h.st = "failed" /\ w.ctl.armed
          THEN Control(noted, C!SetArm(w.ctl, FALSE))
          ELSE noted

Drain(w) == S!FoldLeft(DrainOne, w, [i \in 1..(Len(w.pend) + 1) |-> i])

\* _publish: the lifecycle the state stream shows.
Lifecycle(l, own) ==
  IF ~l.fresh THEN "DISCONNECTED"
  ELSE IF l.latest.faulted THEN "FAULTED"
  ELSE IF l.latest.armed THEN "ARMED"
  ELSE IF own = NoOwner THEN "CONNECTED" ELSE "CLAIMED"

-----------------------------------------------------------------------------
(* The operations of the clients, one at a time on the loop thread.        *)

Become(next) ==
  \E w \in {next} :
    /\ led' = w.led /\ ctl' = w.ctl /\ pend' = w.pend
    /\ authFault' = w.authFault /\ trk' = w.trk /\ mark' = w.mark
    /\ wire' = [wire EXCEPT !.cmd = w.cmd]

Owns(s) == sess[s] = "open" /\ owner = s

\* What an owner's operation leaves alone.
OwnerOp(s, w) ==
  /\ Owns(s)
  /\ Become(w)
  /\ UNCHANGED <<owner, sess, auth, beat, link, rt>>

Claim(s) ==
  /\ sess[s] = "open" /\ owner \in {NoOwner, s}
  /\ owner' = s
  /\ auth' = Lifecycle(link, s)
  /\ UNCHANGED <<sess, led, ctl, pend, authFault, trk, mark, beat, ops, link, rt, wire>>

\* Mutant: the setpoint outlives its owner.
AbandonKeepsJog ==
  /\ Become(CancelAll(World))
  /\ owner' = NoOwner
  /\ auth' = Lifecycle(link, NoOwner)

\* _abandon: cancel what is live and the jog, and hold; stay armed.
Abandon ==
  LET w == CancelAll(World)
  IN /\ Become([w EXCEPT !.ctl.jog = FALSE])
     /\ owner' = NoOwner
     /\ auth' = Lifecycle(link, NoOwner)

Unclaim(s) ==
  /\ Owns(s)
  /\ Abandon
  /\ UNCHANGED <<sess, beat, ops, link, rt>>

\* close_session runs on the connection's thread; _owner_lost on the loop.
CloseSession(s) ==
  /\ "close" \in ops.scene.uses
  /\ sess[s] = "open"
  /\ sess' = [sess EXCEPT ![s] = "closing"]
  /\ UNCHANGED <<owner, led, ctl, pend, authFault, trk, mark, auth, beat, ops, link, rt, wire>>

OwnerLost(s) ==
  /\ sess[s] = "closing"
  /\ sess' = [sess EXCEPT ![s] = "gone"]
  /\ IF owner = s THEN Abandon
     ELSE UNCHANGED <<owner, led, ctl, pend, authFault, trk, mark, auth, wire>>
  /\ UNCHANGED <<beat, ops, link, rt>>

\* Mutant: an ARM may queue behind a DISARM still being confirmed.
ArmUnguarded(s) ==
  /\ ops.arm < ops.scene.arm
  /\ ~ctl.armed
  /\ OwnerOp(s, PumpOps(Control(World, C!SetArm(ctl, TRUE))))
  /\ ops' = [ops EXCEPT !.arm = @ + 1]

Arm(s) ==
  /\ ops.arm < ops.scene.arm
  /\ ~DisarmPending(pend)
  /\ ~ctl.armed
  /\ OwnerOp(s, PumpOps(Control(World, C!SetArm(ctl, TRUE))))
  /\ ops' = [ops EXCEPT !.arm = @ + 1]

\* The controller's `arm' field comes before its `cancel'.
Disarm(s) ==
  /\ ops.disarm < ops.scene.disarm
  /\ LET w == CancelAll(World)
     IN OwnerOp(s, PumpOps(Control(w, C!Cancel(C!SetArm(w.ctl, FALSE)))))
  /\ ops' = [ops EXCEPT !.disarm = @ + 1]

\* After on_plan: a plan it took no notice of is rejected, an ungated one is
\* selected at once.
Begun(w, e, gated, verdict) ==
  IF w.led[e].phase = "REQUESTED" THEN [w EXCEPT !.led[e] = Receipt(@, "REJECTED")]
  ELSE IF w.led[e].phase = "ADMITTED" /\ ~gated THEN Select(w, e, verdict)
  ELSE w

Submit(s, e, gated, names, verdict) ==
  /\ gated => "gated" \in ops.scene.uses
  /\ e <= ops.scene.exec
  /\ led[e].phase = "NONE" /\ \A d \in 1..(e - 1) : led[d].phase # "NONE"
  /\ LET current == Current(led)
         refused == \/ verdict = "inadmissible" \/ auth \notin Owning
                    \/ SupersessionRefused(names, current,
                                           IF current = 0 THEN "NONE" ELSE led[current].phase)
         made == [World EXCEPT !.led[e] =
                    Receipt([NoExec EXCEPT !.gated = gated, !.names = names], "REQUESTED")]
     IN OwnerOp(s, IF refused THEN [made EXCEPT !.led[e] = Receipt(@, "REJECTED")]
                   ELSE Begun(PumpOps(Control(made, C!OnPlan(ctl, e, verdict # "unfit"))),
                              e, gated, verdict))
  /\ UNCHANGED ops

Release(s, e, verdict) ==
  /\ led[e].phase = "ADMITTED" /\ led[e].gated
  /\ OwnerOp(s, Select(World, e, verdict))
  /\ UNCHANGED ops

CancelOne(s, e) ==
  /\ e \in Unfinished(led)
  /\ OwnerOp(s, CancelExecution(World, e))
  /\ UNCHANGED ops

Hold(s) ==
  /\ "hold" \in ops.scene.uses
  /\ LET w == CancelAll(World)
     IN OwnerOp(s, PumpOps(Control(w, C!Cancel(w.ctl))))
  /\ UNCHANGED ops

Setpoint(s) ==
  /\ "setpoint" \in ops.scene.uses
  /\ Current(led) = 0
  /\ ~C!JogRefused(ctl)
  /\ OwnerOp(s, [World EXCEPT !.ctl.jog = TRUE])
  /\ UNCHANGED ops

\* Another law: every live execution is cancelled, the finished one included.
SelectPreset(s, soft) ==
  /\ "preset" \in ops.scene.uses
  /\ soft => ~C!SoftRefused(ctl)
  /\ LET w == CancelEvery(World)
     IN OwnerOp(s, PumpOps(Control(w, IF soft THEN C!SetPoseHold(w.ctl) ELSE C!SetGains(w.ctl))))
  /\ UNCHANGED ops

-----------------------------------------------------------------------------
(* One step of the loop.                                                   *)

\* _rx_loop: a new packet.  `later' notes, for a DISARM acked before it, that
\* the packet came after the ack.
Received ==
  [link EXCEPT !.latest = Packet, !.inbox = Append(@, Packet), !.fresh = TRUE,
               !.later = \E i \in DOMAIN pend : pend[i].st = "acked"]

\* Packets are fed in order; the seq they carry is StateStream's concern.
Fed(t, p) == [Feed(t, p) EXCEPT !.last = None]

\* What the link has received by the time the history is read: `mid', one
\* packet more than when the health was read.
Arrived(mid) == IF mid THEN Received ELSE link

\* Mutant: the fault notice of the control session is not part of the health.
HealthyNoNotice(w) == link.fresh /\ ~link.latest.faulted /\ ~w.authFault

Healthy(w) == link.fresh /\ ~link.latched /\ ~link.latest.faulted /\ ~w.authFault

\* The first half: authority answers, health, packets.  `obs' is "edge" when
\* the plant has begun to hold on its own, "gap" after a gap in the states.
HealthTold(w, obs) ==
  Control(w, C!OnHealth(w.ctl, Healthy(w), link.latest.armed, obs = "edge"))

PacketsFed(w, mid) == [w EXCEPT !.trk = S!FoldLeft(Fed, @, Arrived(mid).inbox)]

GapTold(w, obs) == IF obs = "gap" THEN Control(w, C!OnStateGap(w.ctl)) ELSE w

Observe(w, mid, obs) == GapTold(PacketsFed(HealthTold(Drain(w), obs), mid), obs)

\* The second half: expiry, the tick and its commands, the RT evidence, and a
\* fresh controller for one that stopped.
Due(w, expired) == IF expired /\ Current(w.led) # 0 THEN Expire(w, Current(w.led)) ELSE w

Ticked(w, stale, leg, send) == Control(w, C!Tick(w.ctl, stale, leg, send))

PumpTick(w) == Settled(Pumped(w, IF w.ctl.running THEN w.ctl.plan ELSE 0))

Judged(w) == [w EXCEPT !.led = [e \in Exec |-> Evidence(w.led[e], e, w.trk)]]

Renewed(w) ==
  IF w.ctl.stopped THEN [w EXCEPT !.led = Reconcile(@, 0), !.ctl = C!NewController] ELSE w

Act(w, expired, stale, leg, send) ==
  Renewed(Settled(Judged(PumpTick(Ticked(Due(w, expired), stale, leg, send)))))

Step(mid, obs, expired) ==
  /\ mid => wire.up
  /\ obs = "edge" => link.latest.armed /\ ctl.running
  /\ obs = "gap" => link.fresh /\ Arrived(mid).inbox # <<>>
  /\ obs = "stale" => "stale" \in ops.scene.trouble
  /\ expired => \E e \in Exec : led[e].phase = "ADMITTED"
  /\ \E seen \in {Observe(World, mid, obs)} :
     LET streams == C!Streaming(seen.ctl) /\ obs # "stale"
     IN \E leg \in IF streams THEN C!LegOutcomes(seen.ctl) ELSE {"on"},
           send \in IF streams THEN C!SendOutcomes ELSE {"sent"} :
          Become(Act(seen, expired, obs = "stale", leg, send))
  /\ link' = [Arrived(mid) EXCEPT !.inbox = <<>>]
  /\ auth' = Lifecycle(Arrived(mid), owner)
  /\ beat' = (beat # Paced)
  /\ UNCHANGED <<owner, sess, ops, rt>>

\* applied_grace_s passes after a leg completed on feedback.
GracePasses(e) ==
  /\ Live(led[e]) /\ led[e].done = "waiting"
  /\ led' = [led EXCEPT ![e].done = "overdue"]
  /\ UNCHANGED <<owner, sess, ctl, pend, authFault, trk, mark, auth, beat, ops, link, rt, wire>>

-----------------------------------------------------------------------------
(* The authority worker: enable_all and safe_stop, one at a time.          *)

\* The request it is at: the first that has no answer yet.
At(i) == /\ i \in DOMAIN pend /\ pend[i].st \notin Answered
         /\ \A j \in 1..(i - 1) : pend[j].st \in Answered

Answer(i, st) == pend' = [pend EXCEPT ![i].st = st]

WorkerLeaves == UNCHANGED <<owner, sess, led, ctl, authFault, trk, mark, auth, beat, ops, rt>>

\* Acks that have arrived (the first k) are dropped, the request is sent.
WorkerSend(i, k) ==
  /\ At(i) /\ pend[i].st = "queued"
  /\ k \in 0..Len(wire.acks)
  /\ link' = [link EXCEPT !.latched = @ /\ ~pend[i].arm]
  /\ IF wire.up
     THEN /\ Answer(i, "sent")
          /\ wire' = [wire EXCEPT !.reqs = Append(@, pend[i].arm),
                                  !.acks = SubSeq(@, k + 1, Len(@))]
     ELSE /\ Answer(i, "failed")
          /\ wire' = [wire EXCEPT !.acks = SubSeq(@, k + 1, Len(@))]
  /\ WorkerLeaves

\* Whatever ack comes first is taken for this request's.
WorkerAck(i) ==
  /\ At(i) /\ pend[i].st = "sent" /\ wire.acks # <<>>
  /\ wire' = [wire EXCEPT !.acks = Tail(@)]
  /\ LET a == Head(wire.acks)
     IN IF pend[i].arm
        THEN IF a.faulted \/ ~a.armed
             THEN Answer(i, "failed") /\ UNCHANGED link
             ELSE Answer(i, "ok") /\ link' = [link EXCEPT !.epoch = a.num]
        ELSE IF a.armed
             THEN Answer(i, "failed") /\ link' = [link EXCEPT !.epoch = 0]
             ELSE Answer(i, "acked") /\ link' = [link EXCEPT !.epoch = 0, !.need = a.num]
  /\ WorkerLeaves

\* Mutant: no deadline for the state stream to show the DISARM.
WorkerTimeoutAckOnly(i) ==
  /\ "slow" \in ops.scene.trouble \/ ~wire.up
  /\ At(i) /\ pend[i].st = "sent"
  /\ Answer(i, "failed")
  /\ UNCHANGED <<link, wire>>
  /\ WorkerLeaves

WorkerTimeout(i) ==
  /\ "slow" \in ops.scene.trouble \/ ~wire.up
  /\ At(i) /\ pend[i].st \in {"sent", "acked"}
  /\ Answer(i, "failed")
  /\ link' = [link EXCEPT !.later = FALSE, !.need = 0]
  /\ UNCHANGED wire
  /\ WorkerLeaves

\* A state received after the ack, disarmed, whose stop epoch covers it.
WorkerConfirm(i) ==
  /\ At(i) /\ pend[i].st = "acked"
  /\ link.later /\ ~link.latest.armed /\ link.latest.stop >= link.need
  /\ link' = [link EXCEPT !.latched = FALSE, !.later = FALSE, !.need = 0]
  /\ Answer(i, "ok")
  /\ UNCHANGED wire
  /\ WorkerLeaves

Worker ==
  \E i \in DOMAIN pend :
    \/ \E k \in 0..Len(wire.acks) : WorkerSend(i, k)
    \/ WorkerAck(i) \/ WorkerTimeout(i) \/ WorkerConfirm(i)

-----------------------------------------------------------------------------
(* The RT server, at the grain of its control session and its state        *)
(* packets (RtServer has the detail), and the link to it.                  *)

ServerHandles ==
  /\ wire.up /\ wire.reqs # <<>>
  /\ LET arm == Head(wire.reqs)
         bumps == arm /\ ~rt.armed /\ ~rt.faulted
         after == IF arm
                  THEN [rt EXCEPT !.armed = @ \/ bumps,
                                  !.epoch = IF bumps THEN @ + 1 ELSE @]
                  ELSE [rt EXCEPT !.armed = FALSE, !.faulted = FALSE, !.stop = @ + 1]
         ack == [armed |-> after.armed, faulted |-> after.faulted,
                 num |-> IF ~arm THEN after.stop ELSE IF after.faulted THEN 0 ELSE after.epoch]
     IN /\ rt' = after
        /\ wire' = [wire EXCEPT !.reqs = Tail(@), !.acks = Append(@, ack)]
  /\ UNCHANGED <<supVars, link>>

\* The servo takes a command of its generation; the plant accepts it or not.
RtTakes(accepted) ==
  /\ rt.armed /\ ~rt.faulted /\ wire.cmd.epoch = rt.epoch /\ wire.cmd.mark > rt.last
  /\ accepted \/ "fault" \in ops.scene.trouble
  /\ rt' = [rt EXCEPT !.last = wire.cmd.mark, !.faulted = ~accepted]
  /\ wire' = [wire EXCEPT !.notice = @ \/ ~accepted]
  /\ UNCHANGED <<supVars, link>>

RtFaults ==
  /\ "fault" \in ops.scene.trouble
  /\ rt.armed /\ ~rt.faulted
  /\ rt' = [rt EXCEPT !.faulted = TRUE]
  /\ wire' = [wire EXCEPT !.notice = TRUE]
  /\ UNCHANGED <<supVars, link>>

NoticeArrives ==
  /\ wire.notice
  /\ wire' = [wire EXCEPT !.notice = FALSE]
  /\ link' = [link EXCEPT !.latched = TRUE]
  /\ UNCHANGED <<supVars, rt>>

RtPublishes ==
  /\ wire.up /\ Len(link.inbox) < MaxInbox
  /\ link' = Received
  /\ UNCHANGED <<supVars, rt, wire>>

StateStale ==
  /\ "stale" \in ops.scene.trouble \/ ~wire.up
  /\ link.fresh
  /\ link' = [link EXCEPT !.fresh = FALSE]
  /\ UNCHANGED <<supVars, rt, wire>>

\* The control session is lost, for good: an armed server latches CTL_LOST,
\* and the client's control thread notes it.
LinkDown ==
  /\ "down" \in ops.scene.trouble /\ wire.up
  /\ rt' = [rt EXCEPT !.faulted = @ \/ rt.armed]
  /\ wire' = [wire EXCEPT !.up = FALSE, !.reqs = <<>>, !.notice = TRUE]
  /\ UNCHANGED <<supVars, link>>

-----------------------------------------------------------------------------
Client(s) ==
  \/ Claim(s) \/ Unclaim(s) \/ Arm(s) \/ Disarm(s)
  \/ Hold(s) \/ Setpoint(s) \/ \E soft \in BOOLEAN : SelectPreset(s, soft)
  \/ \E e \in Exec :
       \/ CancelOne(s, e)
       \/ \E verdict \in Selections : Release(s, e, verdict)
       \/ \E gated \in BOOLEAN, names \in 0..(e - 1), verdict \in Verdicts :
            Submit(s, e, gated, names, verdict)

Next ==
  \/ \E s \in Sessions : Client(s) \/ CloseSession(s) \/ OwnerLost(s)
  \/ \E mid, expired \in BOOLEAN, obs \in {"fine", "edge", "gap", "stale"} :
       Step(mid, obs, expired)
  \/ \E e \in Exec : GracePasses(e)
  \/ Worker
  \/ ServerHandles
  \/ \E accepted \in BOOLEAN : RtTakes(accepted)
  \/ RtFaults \/ NoticeArrives \/ RtPublishes \/ StateStale \/ LinkDown

Spec == Init /\ [][Next]_vars

\* Scheduling: the loop thread (it can always take a step), the worker with
\* its timeouts, the server's control thread, the client's control thread and
\* the clock go on.  Clients need do nothing, and state packets need not arrive.
FairSpec ==
  /\ Spec
  /\ []<><<beat' # beat>>_beat
  /\ WF_vars(Worker) /\ WF_vars(ServerHandles) /\ WF_vars(NoticeArrives)
  /\ \A s \in Sessions : WF_vars(OwnerLost(s))
  /\ \A e \in Exec : WF_vars(GracePasses(e))

-----------------------------------------------------------------------------
(* The types, and: no controller output waits between two operations.      *)
TypeOK ==
  /\ owner \in Sessions \cup {NoOwner}
  /\ sess \in [Sessions -> {"open", "closing", "gone"}]
  /\ led \in [Exec -> [phase : Phase \cup {"NONE", "RAISED"}, gated : BOOLEAN, names : 0..MaxExec,
                       cancel : BOOLEAN, done : {"no", "waiting", "overdue"},
                       epoch : {None} \cup Nat]]
  /\ ctl.plan \in 0..MaxExec /\ ctl.asks = <<>> /\ ctl.out = <<>> /\ ~ctl.commands
  /\ \A i \in DOMAIN pend : pend[i].arm \in BOOLEAN
                            /\ pend[i].st \in Answered \cup {"queued", "sent", "acked"}
  /\ authFault \in BOOLEAN
  /\ mark \in 0..MaxExec
  /\ auth \in {"DISCONNECTED", "CONNECTED", "CLAIMED", "ARMED", "FAULTED"}
  /\ ops.arm \in 0..MaxArm /\ ops.disarm \in Nat /\ ops.scene \in Scenes
  /\ link.epoch \in Nat /\ rt.epoch \in Nat
  /\ link.fresh \in BOOLEAN /\ link.latched \in BOOLEAN

(* No path through the operations, the controller's events and the RT      *)
(* evidence gives an execution a receipt its phase does not allow, or one  *)
(* it already has: ExecutionStatus.apply never raises inside the loop, and *)
(* a client never reads a phase twice.                                     *)
LedgerLegal == \A e \in DOMAIN led : led[e].phase # "RAISED"

(* The ledger and the controller agree between operations.  The live       *)
(* execution that has not finished its leg is the plan the controller      *)
(* holds, staged while ADMITTED and running after; the controller holds    *)
(* no other plan.  The one exception lasts until the next step: the RT     *)
(* fault arrived after that step's health was read.                        *)
PlanTracked ==
  /\ \A e \in Unfinished(led) : ctl.plan = e
  /\ ctl.plan # 0 =>
       \/ led[ctl.plan].phase = "FAULTED" /\ link.latest.faulted
       \/ /\ led[ctl.plan].done = "no"
          /\ IF ctl.running THEN led[ctl.plan].phase \in {"SELECTED", "SENT", "APPLIED"}
             ELSE led[ctl.plan].phase = "ADMITTED"

(* An APPLIED or COMPLETED execution is one of which the servo has taken a *)
(* command: an earlier execution's seq, or an earlier generation's, never  *)
(* passes for it.                                                          *)
AppliedMeansTaken ==
  \A e \in DOMAIN led : led[e].phase \in {"APPLIED", "COMPLETED"} => rt.last >= e

(* With no owner nothing moves: no leg runs (but for the step in which an  *)
(* RT fault has just ended it), no setpoint is live, and nothing is staged *)
(* that a later owner's ARM could start.                                   *)
NoOwnerNoMotion ==
  owner = NoOwner =>
    /\ ~ctl.jog /\ Unfinished(led) = {}
    /\ ctl.running => link.latest.faulted

(* A leg, a setpoint and the soft hold never drive the arm together.       *)
OneMotionSource ==
  Cardinality({m \in {"running", "jog", "soft"} : ctl[m]}) <= 1

\* No ARM is wanted, every request has been answered, and none failed.
DisarmedQuietly == ~ctl.armed /\ pend = <<>> /\ ~authFault

(* A DISARM wins in the end: when the supervisor rests disarmed, the last  *)
(* request on its way to the server is a DISARM, and with none on its way  *)
(* the server is disarmed; no ARM that timed out or was queued can arrive  *)
(* after it.                                                               *)
DisarmWins ==
  DisarmedQuietly =>
    IF wire.reqs = <<>> THEN ~rt.armed ELSE ~wire.reqs[Len(wire.reqs)]

(* A leg that completed on feedback is judged: COMPLETED once the plant's  *)
(* acceptance is seen, FAULTED when the grace period ends without it, or   *)
(* ended otherwise, but never left pending.                                *)
CompletionJudged == \A e \in Exec : led[e].done # "no" ~> ~Live(led[e])

(* Every ARM and DISARM request is answered, whatever becomes of the link, *)
(* so that await_authority does not wait for one that never settles.       *)
AuthorityAnswered == pend # <<>> ~> pend = <<>>

(* A fault the server latches, a lost control session included, stops the  *)
(* leg, even if no state packet ever arrives to show it.                   *)
FaultStopsMotion == rt.faulted /\ ctl.running ~> ~ctl.running
=============================================================================
