-------------------------------- MODULE Hand ---------------------------------
(***************************************************************************)
(* The gripper's path from a request to the fingers: the hand node         *)
(* (end_effectors/franka_adapter.py _run, franka_hand.py, hand_move.py),   *)
(* its bridge client thread, the TCP line protocol, and the bridge, either *)
(* the RT box's (rt/src/hand_bridge.cpp and hand_admission.hpp, where an   *)
(* actor and a stopper thread share one device session) or the simulated   *)
(* one (sim_hand_bridge.py, where one plant tick does the work of both).   *)
(*                                                                         *)
(* Widths are left out: the fingers are at the goal of an action or not.   *)
(* A sample number is only ever compared with a remembered one, so the     *)
(* client keeps the set of marks a newer sample has been seen since.       *)
(***************************************************************************)
EXTENDS Naturals, Sequences

CONSTANTS
  MaxAsks,       \* bound on requests; the n-th one has id n
  MaxHandUpsets, \* bound on lost links and sessions, failed stops, drops, ...
  MaxHandEvents, \* bound on requests and upsets together
  Upsets         \* what goes wrong: of "link", "session", "stop", "drop", "authority"

ASSUME HandAssumption ==
  MaxAsks \in Nat \ {0} /\ MaxHandUpsets \in Nat /\ MaxHandEvents \in Nat

VARIABLES
  graph,   \* gated: Hand moves need the arm's authority; sim: which bridge
  gnode,   \* the node: authority, its one pending request, the grasp it watches
  cli,     \* the BridgeClient
  up,      \* client to bridge, over one connection after the other
  down,    \* bridge to client
  br,      \* HandAdmission and the bridge's own state
  actor,   \* the actor thread, its action and its read
  stopper, \* the stopper thread
  dev,     \* the device: the action inside, an object held, the goal reached,
           \* and the actions it has finished well
  res,     \* what each request was told
  hups     \* upsets so far

handVars == <<graph, gnode, cli, up, down, br, actor, stopper, dev, res, hups>>

Ids == 1..MaxAsks
Plain == MaxAsks + 1        \* a slider move or a homing cycle has no requester
GraspKinds == {"close", "release"}
Kinds == GraspKinds \cup {"move", "slide", "home"}
Marks == {"admit", "stop", "done", "move"}

NoAct == [id |-> 0, kind |-> "none", ep |-> 0]
Act(id, kind, ep) == [id |-> id, kind |-> kind, ep |-> ep]
NoJob == [id |-> 0, kind |-> "none", done |-> FALSE, late |-> FALSE]
NoHeld == [id |-> 0, seen |-> FALSE]
NoState == [avail |-> FALSE, busy |-> FALSE, meas |-> FALSE, held |-> FALSE, there |-> 0]
NoDone == [some |-> FALSE, ep |-> 0, ok |-> FALSE]

Msg(op, ep, ok) == [op |-> op, ep |-> ep, ok |-> ok, act |-> NoAct, st |-> NoState, new |-> FALSE]

HandTypeOK ==
  /\ graph \in [gated : BOOLEAN, sim : BOOLEAN]
  /\ gnode.auth \in BOOLEAN /\ gnode.asked \in 0..MaxAsks
  /\ gnode.job.id \in 0..MaxAsks /\ gnode.held.id \in 0..MaxAsks
  /\ gnode.job.kind \in {"none", "move"} \cup GraspKinds
  /\ (gnode.job.id = 0) = (gnode.job.kind = "none")
  /\ cli.fly.id \in 0..Plain /\ cli.since \subseteq Marks /\ cli.want \subseteq {"slide", "home"}
  /\ (cli.cmd => cli.fly.id # 0) /\ (cli.cancel => cli.waiting)
  /\ br.epoch \in Nat \ {0} /\ br.pend.id \in 0..Plain
  /\ actor.at \in {"away", "idle", "taken", "begun", "inside", "returned"}
  /\ stopper.at \in {"idle", "calling", "called"}
  /\ dev.act.id \in 0..Plain /\ dev.held \in BOOLEAN /\ dev.there \in 0..Plain
  /\ dev.fin \subseteq 1..Plain
  /\ res \in [Ids -> {"none", "ok", "assumed", "failed", "lost", "revived"}]
  /\ hups \in 0..MaxHandUpsets

HandInit ==
  /\ graph \in [gated : BOOLEAN, sim : BOOLEAN]
  /\ gnode = [auth |-> TRUE, asked |-> 0, job |-> NoJob, held |-> NoHeld]
  /\ cli = [conn |-> FALSE, epoch |-> 0, fly |-> NoAct, cmd |-> FALSE, cancel |-> FALSE,
            waiting |-> FALSE, stopEp |-> 0, caps |-> FALSE, since |-> Marks,
            fresh |-> FALSE, st |-> NoState, gdone |-> "none",
            fails |-> <<>>, moved |-> <<>>, want |-> {}]
  /\ up = <<>> /\ down = <<>>
  /\ br = [epoch |-> 1, conn |-> graph.sim, client |-> FALSE, pend |-> NoAct, acting |-> FALSE,
           committed |-> FALSE, stopping |-> FALSE, fault |-> FALSE, retried |-> FALSE,
           real |-> FALSE, news |-> TRUE, held |-> FALSE, there |-> 0, done |-> NoDone]
  /\ actor = [at |-> IF graph.sim THEN "idle" ELSE "away", act |-> NoAct, ok |-> FALSE]
  /\ stopper = [at |-> "idle", was |-> FALSE, same |-> FALSE, ok |-> FALSE]
  /\ dev = [act |-> NoAct, held |-> FALSE, there |-> 0, fin |-> {}]
  /\ res = [i \in Ids |-> "none"] /\ hups = 0

Room == gnode.asked + hups < MaxHandEvents
MoreAsks == gnode.asked < MaxAsks /\ Room
HandUpset(what) == what \in Upsets /\ hups < MaxHandUpsets /\ Room /\ hups' = hups + 1

\* A result as its requester sees it: "assumed" is a success reported before
\* or without a verdict; a failure after a success is the report of a lost
\* object.
Told(r, id, how) ==
  IF id = 0 THEN r
  ELSE [r EXCEPT ![id] = CASE @ = "none" -> how
                           [] @ \in {"ok", "assumed"} /\ how = "failed" -> "lost"
                           [] @ \in {"failed", "lost"} /\ how # "failed" -> "revived"
                           [] OTHER -> @]

-----------------------------------------------------------------------------
(* BridgeClient.                                                           *)

\* snapshot: what the node may conclude.
Snapshot(c) ==
  [avail |-> c.conn /\ c.st.avail, stop |-> c.conn /\ c.caps,
   busy |-> c.waiting \/ c.fly.id # 0 \/ c.st.busy,
   meas |-> c.st.meas /\ c.conn /\ ~c.waiting /\ c.fresh /\ "admit" \in c.since,
   held |-> c.st.held, there |-> c.st.there]

NeedsStop(kind) == kind = "move" \/ (graph.gated /\ kind \in GraspKinds)

\* send_line: one fresh action, never queued behind another.
Admits(c, kind) ==
  LET s == Snapshot(c) IN
  /\ NeedsStop(kind) => s.stop
  /\ ~c.cancel /\ s.avail /\ c.epoch # 0 /\ s.meas /\ ~s.busy
\* Mutant: a verdict that came before this request is taken for its own.
AdmittedVerdictKept(c, id, kind) ==
  [c EXCEPT !.fly = Act(id, kind, c.epoch), !.cmd = TRUE, !.since = @ \ {"admit"},
            !.want = @ \ {"slide"}]
Admitted(c, id, kind) ==
  [c EXCEPT !.fly = Act(id, kind, c.epoch), !.cmd = TRUE, !.since = @ \ {"admit"},
            !.want = @ \ {"slide"}, !.gdone = "none"]

\* _fail: the action in flight is over for the node, and what waited is dropped.
FlyFailed(c) ==
  [c EXCEPT !.moved = IF c.fly.kind = "move" THEN Append(@, [id |-> c.fly.id, ok |-> FALSE])
                      ELSE @,
            !.fails = IF c.fly.kind \in GraspKinds THEN Append(@, c.fly.id) ELSE @,
            !.fly = NoAct, !.cmd = FALSE, !.want = {}]

\* cancel_move: busy until the stop is acknowledged and a fresh sample follows.
MoveCancelled(c) ==
  FlyFailed(IF c.waiting THEN c
            ELSE [c EXCEPT !.cancel = TRUE, !.waiting = TRUE, !.stopEp = 0])

\* The end of _receive's META branch: the stop is over.
StopDone(c, m) ==
  /\ c.waiting /\ c.stopEp # 0 /\ m.ep >= c.stopEp
  /\ m.st.avail /\ ~m.st.busy /\ m.st.meas /\ "stop" \in c.since

\* _receive, META (with the STATE and CAPS lines sent with it).
OnMeta(c, m) ==
  LET lost == c.fly.id # 0 /\ (~m.st.avail \/ m.ep \notin {c.fly.ep, c.fly.ep + 1})
      seen == m.st.meas /\ m.new
      d == [(IF lost THEN FlyFailed(c) ELSE c) EXCEPT
              !.epoch = m.ep, !.caps = TRUE, !.fresh = @ \/ seen,
              !.since = IF seen THEN Marks ELSE @, !.st = m.st]
  IN IF StopDone(d, m) THEN [d EXCEPT !.waiting = FALSE, !.stopEp = 0] ELSE d

\* _receive, DONE: a verdict for the grasp FSM, or the end of a move.
OnDone(c, m) ==
  IF c.fly.id = 0 \/ m.ep # c.fly.ep THEN c
  ELSE IF c.fly.kind = "close" \/ (graph.gated /\ c.fly.kind = "release")
       THEN [c EXCEPT !.gdone = IF m.ok THEN "ok" ELSE "failed", !.since = @ \ {"done"},
                      !.fly = NoAct, !.want = @ \ {"slide"}]
  ELSE IF ~m.ok THEN FlyFailed(c)
  ELSE [c EXCEPT !.moved = IF c.fly.kind = "move"
                           THEN Append(@, [id |-> c.fly.id, ok |-> TRUE]) ELSE @,
                 !.fly = NoAct, !.want = @ \ {"slide"}]

OnLine(c, m) ==
  CASE m.op = "META"     -> OnMeta(c, m)
    [] m.op = "DONE"     -> OnDone(c, m)
    [] m.op = "REJECT"   -> IF c.fly.id # 0 /\ m.ep = c.fly.ep THEN FlyFailed(c) ELSE c
    [] m.op = "STOPPING" -> IF c.waiting
                            THEN [c EXCEPT !.stopEp = m.ep, !.since = @ \ {"stop"}] ELSE c

ClientReceives ==
  /\ cli.conn /\ down # <<>>
  /\ cli' = OnLine(cli, Head(down)) /\ down' = Tail(down)
  /\ UNCHANGED <<graph, gnode, up, br, actor, stopper, dev, res, hups>>

\* run: a new connection forgets the old one's stop and state.
ClientConnects ==
  /\ ~cli.conn
  /\ cli' = [cli EXCEPT !.conn = TRUE, !.epoch = 0, !.caps = FALSE, !.cancel = FALSE,
                        !.waiting = FALSE, !.stopEp = 0, !.st = NoState,
                        !.want = @ \ {"slide"}]
  /\ UNCHANGED <<graph, gnode, up, down, br, actor, stopper, dev, res, hups>>

\* run: the slider's settled target and the homing wish become actions, or
\* are dropped.
ClientWants ==
  /\ cli.conn /\ cli.want # {}
  /\ \E k \in cli.want :
       cli' = IF Admits(cli, k) THEN Admitted([cli EXCEPT !.want = @ \ {k}], Plain, k)
              ELSE [cli EXCEPT !.want = @ \ {k}]
  /\ UNCHANGED <<graph, gnode, up, down, br, actor, stopper, dev, res, hups>>

\* run: a stop outranks the command it cancels.
ClientSends ==
  /\ cli.conn /\ (cli.cancel \/ cli.cmd)
  /\ cli' = [cli EXCEPT !.cancel = FALSE, !.cmd = FALSE]
  /\ up' = Append(up, IF cli.cancel THEN Msg("GSTOP", 0, TRUE)
                      ELSE [Msg("CMD", cli.fly.ep, TRUE) EXCEPT !.act = cli.fly])
  /\ UNCHANGED <<graph, gnode, down, br, actor, stopper, dev, res, hups>>

\* The link is lost; the bridge still reads what was sent before.
LinkLost ==
  /\ cli.conn /\ HandUpset("link")
  /\ cli' = [FlyFailed(cli) EXCEPT !.conn = FALSE, !.epoch = 0, !.caps = FALSE, !.st = NoState]
  /\ up' = Append(up, Msg("EOF", 0, TRUE)) /\ down' = <<>>
  /\ UNCHANGED <<graph, gnode, br, actor, stopper, dev, res>>

-----------------------------------------------------------------------------
(* The node.                                                               *)

\* HandMove.start refuses a held object (mutant: it does not).
\* A request of the graph; a refusal is answered at once and changes nothing.
MoveAllowedAlways(s) == TRUE
MoveAllowed(s) == ~s.held
MayAsk(kind) ==
  LET s == Snapshot(cli) IN
  /\ MoreAsks
  /\ (graph.gated => gnode.auth) /\ gnode.job.id = 0 /\ Admits(cli, kind)
  /\ kind = "move" => MoveAllowed(s)
Asked(kind, id) ==
  /\ cli' = Admitted(cli, id, kind)
  /\ UNCHANGED <<graph, up, down, br, actor, stopper, dev, hups>>

\* hand_move_request and HandMove.start.
AskMove ==
  LET id == gnode.asked + 1 IN
  /\ MayAsk("move") /\ Asked("move", id)
  /\ gnode' = [gnode EXCEPT !.asked = id,
                 !.job = [NoJob EXCEPT !.id = id, !.kind = "move"]]
  /\ res' = res

\* grasp_request: submit_grasp_request and HandGraspFsm.on_request.  An
\* ungated release is acknowledged before the jaws travel.
AskGrasp(kind) ==
  LET id == gnode.asked + 1
      acked == kind = "release" /\ ~graph.gated
  IN
  /\ MayAsk(kind) /\ Asked(kind, id)
  /\ gnode' = [gnode EXCEPT !.asked = id, !.held = NoHeld,
                 !.job = IF acked THEN NoJob
                         ELSE [NoJob EXCEPT !.id = id, !.kind = kind]]
  /\ res' = IF acked THEN Told(res, id, "assumed") ELSE res

\* home_refusal.
HomeAllowed(s) == s.avail /\ s.meas /\ ~s.busy /\ ~s.held

\* The slider, and request_home; neither in a gated graph.
AskPlain(kind) ==
  /\ MoreAsks /\ ~graph.gated /\ kind \notin cli.want
  /\ kind = "home" => HomeAllowed(Snapshot(cli))
  /\ cli' = [cli EXCEPT !.want = @ \cup {kind}]
  /\ gnode' = [gnode EXCEPT !.asked = @ + 1]
  /\ UNCHANGED <<graph, up, down, br, actor, stopper, dev, res, hups>>

\* The parts of one tick of _run, each on the node, the client and the results
\* so far; s is the snapshot the tick began with.
World(n, c, r) == [n |-> n, c |-> c, r |-> r]
Ended(w, id, how) == [w EXCEPT !.n.job = NoJob, !.r = Told(@, id, how)]
EndedBoth(w, id, how) == [Ended(w, id, how) EXCEPT !.n.held = NoHeld]
Cancelling(w) == [w EXCEPT !.c = MoveCancelled(@)]
FsmId(n) == IF n.job.kind \in GraspKinds THEN n.job.id ELSE n.held.id

\* Authority lost: the move, then the grasp or the grasp watched.
MoveUnauthorised(w) ==
  IF graph.gated /\ ~w.n.auth /\ w.n.job.kind = "move"
  THEN Cancelling(Ended(w, w.n.job.id, "failed")) ELSE w
\* Mutant: the grasp is reported as failed and goes on.
GraspUnauthorisedReports(w) ==
  IF graph.gated /\ ~w.n.auth /\ FsmId(w.n) # 0
  THEN EndedBoth(w, FsmId(w.n), "failed") ELSE w
GraspUnauthorised(w) ==
  IF graph.gated /\ ~w.n.auth /\ FsmId(w.n) # 0
  THEN Cancelling(EndedBoth(w, FsmId(w.n), "failed")) ELSE w

\* pop_move_results and HandMove.done.
MoveDone(w) ==
  LET got == IF w.c.moved = <<>> THEN [id |-> 0, ok |-> FALSE] ELSE Head(w.c.moved)
      mine == w.n.job.kind = "move" /\ got.id = w.n.job.id
      v == [w EXCEPT !.c.moved = <<>>]
  IN IF ~mine THEN v
     ELSE IF got.ok THEN [v EXCEPT !.n.job.done = TRUE, !.c.since = @ \ {"move"}]
     ELSE Ended(v, got.id, "failed")

MeasuredSince(w) == "move" \in w.c.since

\* HandMove.poll.
MovePoll(w, s) ==
  LET id == w.n.job.id IN
  IF w.n.job.kind # "move" THEN w
  ELSE IF ~s.avail \/ w.n.job.late \/ (s.meas /\ s.held)
       THEN Cancelling(Ended(w, id, "failed"))
  ELSE IF s.meas /\ w.n.job.done /\ MeasuredSince(w) /\ ~s.busy
       THEN IF s.there = id THEN Ended(w, id, "ok") ELSE Cancelling(Ended(w, id, "failed"))
  ELSE w

\* pop_failures.
GraspFailures(w) ==
  LET id == IF w.c.fails = <<>> THEN 0 ELSE Head(w.c.fails)
      v == [w EXCEPT !.c.fails = <<>>]
  IN IF id = 0 THEN v
     ELSE IF id = FsmId(v.n)
          THEN [v EXCEPT !.n.job = IF @.kind = "move" THEN @ ELSE NoJob, !.n.held = NoHeld,
                         !.r = Told(@, id, "failed")]
     ELSE [v EXCEPT !.r = Told(@, id, "failed")]

\* A failed result in a gated graph also stops the Hand.
GraspFailed(w, id) ==
  LET v == [w EXCEPT !.n.job = IF @.kind = "move" THEN @ ELSE NoJob, !.n.held = NoHeld,
                     !.r = Told(@, id, "failed")]
  IN IF graph.gated THEN Cancelling(v) ELSE v
GraspHeld(w, id, seen, how) ==
  [Ended(w, id, how) EXCEPT !.n.held = [id |-> id, seen |-> seen]]

\* HandGraspFsm.poll with measured completion.
GatedPoll(w, s) ==
  LET j == w.n.job IN
  IF w.c.gdone = "failed" THEN GraspFailed(w, j.id)
  ELSE IF w.c.gdone = "ok" /\ s.meas /\ ~s.busy /\ "done" \in w.c.since
       THEN IF j.kind = "release" /\ ~s.held /\ s.there = j.id THEN EndedBoth(w, j.id, "ok")
            ELSE IF j.kind = "close" /\ s.held THEN GraspHeld(w, j.id, TRUE, "ok")
            ELSE GraspFailed(w, j.id)
  ELSE IF j.late THEN GraspFailed(w, j.id)
  ELSE w

\* HandGraspFsm.poll without: the verdict, or at the deadline what the newest
\* sample says.
ManualPoll(w, s) ==
  LET j == w.n.job IN
  IF w.c.gdone # "none"
  THEN IF w.c.gdone = "ok" THEN GraspHeld(w, j.id, FALSE, "ok") ELSE GraspFailed(w, j.id)
  ELSE IF j.late
       THEN IF s.meas /\ s.held THEN GraspHeld(w, j.id, FALSE, "assumed") ELSE GraspFailed(w, j.id)
  ELSE w

\* HandGraspFsm.poll of a grasp it watches.
WatchPoll(w, s) ==
  IF w.n.held.id = 0 THEN w
  ELSE IF ~s.meas THEN IF graph.gated THEN GraspFailed(w, w.n.held.id) ELSE w
  ELSE IF s.held THEN [w EXCEPT !.n.held.seen = TRUE]
  ELSE IF w.n.held.seen THEN GraspFailed(w, w.n.held.id)
  ELSE w

GraspPoll(w, s) ==
  IF ~s.avail THEN (IF FsmId(w.n) = 0 THEN w ELSE GraspFailed(w, FsmId(w.n)))
  ELSE IF w.n.job.kind \in GraspKinds
       THEN IF graph.gated THEN GatedPoll(w, s) ELSE ManualPoll(w, s)
  ELSE WatchPoll(w, s)

NodeTick ==
  /\ \E s \in {Snapshot(cli)} :
     \E a \in {MoveUnauthorised(World(gnode, cli, res))} :
     \E b \in {GraspUnauthorised(a)} : \E d \in {MoveDone(b)} :
     \E e \in {MovePoll(d, s)} : \E f \in {GraspFailures(e)} : \E g \in {GraspPoll(f, s)} :
       gnode' = g.n /\ cli' = g.c /\ res' = g.r
  /\ UNCHANGED <<graph, up, down, br, actor, stopper, dev, hups>>

\* The 8 s of the pending request are over; what was measured before is stale.
DeadlinePasses ==
  /\ gnode.job.id # 0 /\ ~gnode.job.late
  /\ gnode' = [gnode EXCEPT !.job.late = TRUE] /\ cli' = [cli EXCEPT !.fresh = FALSE]
  /\ UNCHANGED <<graph, up, down, br, actor, stopper, dev, res, hups>>

\* motor_health and arm: the arm's authority goes, or its health goes stale,
\* and comes back.
AuthorityLost ==
  /\ graph.gated /\ gnode.auth /\ HandUpset("authority") /\ gnode' = [gnode EXCEPT !.auth = FALSE]
  /\ UNCHANGED <<graph, cli, up, down, br, actor, stopper, dev, res>>
AuthorityBack ==
  /\ ~gnode.auth /\ gnode' = [gnode EXCEPT !.auth = TRUE]
  /\ UNCHANGED <<graph, cli, up, down, br, actor, stopper, dev, res, hups>>

-----------------------------------------------------------------------------
(* HandAdmission and the bridge's server thread.                           *)

Voided(b) == [b EXCEPT !.pend = NoAct, !.epoch = @ + 1]
StopRequested(b) == [Voided(b) EXCEPT !.stopping = TRUE, !.retried = FALSE]
\* What was sampled before is not what is so now.
Unsampled(b) == [b EXCEPT !.real = FALSE, !.news = TRUE, !.held = FALSE, !.there = 0]
Current(b, a) == b.conn /\ b.client /\ a.ep + 1 = b.epoch

\* A stop call under way is one of an earlier serial.
Outdated == stopper' = [stopper EXCEPT !.same = FALSE]

\* Mutant: the epoch the client echoes is not compared.
RefusedAnyEpoch(b, a) ==
  ~b.conn \/ ~b.client \/ b.stopping \/ b.fault \/ b.acting \/ b.pend.id # 0 \/ ~b.real

\* admit.
Refused(b, a) ==
  \/ ~b.conn \/ ~b.client \/ b.stopping \/ b.fault \/ a.ep # b.epoch
  \/ b.acting \/ b.pend.id # 0 \/ ~b.real

\* What the bridge sends reaches the client while the connection stands.
Closed == ~cli.conn \/ \E i \in DOMAIN up : up[i].op = "EOF"
Sent(m) == IF Closed THEN down ELSE Append(down, m)

\* serve: an action, or GSTOP.
ServesCommand ==
  /\ br.client /\ up # <<>> /\ Head(up).op = "CMD" /\ up' = Tail(up)
  /\ IF Refused(br, Head(up).act)
     THEN down' = Sent(Msg("REJECT", Head(up).ep, FALSE)) /\ br' = br
     ELSE down' = down /\ br' = [br EXCEPT !.epoch = @ + 1, !.pend = Head(up).act]
  /\ UNCHANGED <<graph, gnode, cli, actor, stopper, dev, res, hups>>

ServesStop ==
  /\ br.client /\ up # <<>> /\ Head(up).op = "GSTOP" /\ up' = Tail(up)
  /\ br' = Unsampled(StopRequested(br))
  /\ down' = Sent(Msg("STOPPING", br.epoch + 1, TRUE))
  /\ Outdated
  /\ UNCHANGED <<graph, gnode, cli, actor, dev, res, hups>>

\* Disconnect: work the SDK has is stopped, a finished grasp goes on holding.
Disconnect ==
  /\ br.client /\ up # <<>> /\ Head(up).op = "EOF" /\ up' = Tail(up)
  /\ IF br.committed \/ br.stopping
     THEN br' = [Unsampled(StopRequested(br)) EXCEPT !.client = FALSE] /\ Outdated
     ELSE br' = [Voided(br) EXCEPT !.client = FALSE] /\ UNCHANGED stopper
  /\ UNCHANGED <<graph, gnode, cli, down, actor, dev, res, hups>>

\* A connection that came and went without being served; and serve's start.
Accepts ==
  /\ ~br.client
  /\ \/ /\ \E i \in DOMAIN up : up[i].op = "EOF"
        /\ br' = [Voided(br) EXCEPT !.client = TRUE, !.done = NoDone, !.news = TRUE]
     \/ /\ ~Closed
        /\ br' = [Voided(br) EXCEPT !.client = TRUE, !.done = NoDone, !.news = TRUE]
  /\ UNCHANGED <<graph, gnode, cli, up, down, actor, stopper, dev, res, hups>>

PushesDone ==
  /\ br.client /\ br.done.some
  /\ down' = Sent(Msg("DONE", br.done.ep, br.done.ok)) /\ br' = [br EXCEPT !.done = NoDone]
  /\ UNCHANGED <<graph, gnode, cli, up, actor, stopper, dev, res, hups>>

\* The 10 Hz lines; at most one of them waits for the client, and one that
\* would tell it nothing new is not a step.
Busy(b) == b.acting \/ b.pend.id # 0 \/ b.stopping
Seen(b) == b.conn /\ ~b.fault /\ b.real /\ ~Busy(b)
StateOf(b) ==
  [avail |-> b.conn /\ ~b.fault, busy |-> Busy(b), meas |-> Seen(b),
   held |-> Seen(b) /\ b.held, there |-> IF Seen(b) THEN b.there ELSE 0]
PushesMeta ==
  /\ br.client /\ ~Closed /\ \A i \in DOMAIN down : down[i].op # "META"
  /\ (Seen(br) /\ br.news) \/ cli.epoch # br.epoch \/ cli.st # StateOf(br)
  /\ down' = Append(down, [Msg("META", br.epoch, TRUE) EXCEPT !.st = StateOf(br), !.new = br.news])
  /\ br' = IF Seen(br) THEN [br EXCEPT !.news = FALSE] ELSE br
  /\ UNCHANGED <<graph, gnode, cli, up, actor, stopper, dev, res, hups>>

-----------------------------------------------------------------------------
(* The RT box's bridge: the actor and the device behind it.                *)

Real == ~graph.sim
ActorAt(at) == Real /\ actor.at = at
Sampled(b) ==
  [b EXCEPT !.real = TRUE, !.news = TRUE, !.held = dev.held, !.there = dev.there]

\* A new device session; a failed stop is tried again on it.
SessionOpens ==
  /\ ActorAt("away") /\ ~br.stopping
  /\ actor' = [actor EXCEPT !.at = "idle"]
  /\ \/ br.fault /\ br' = [StopRequested(br) EXCEPT !.conn = TRUE]
                 /\ Outdated
     \/ ~br.fault /\ br' = [br EXCEPT !.conn = TRUE] /\ UNCHANGED stopper
  /\ UNCHANGED <<graph, gnode, cli, up, down, dev, res, hups>>

\* take.
Takes ==
  /\ ActorAt("idle") /\ br.conn /\ br.client /\ br.pend.id # 0
  /\ ~br.acting /\ ~br.stopping /\ ~br.fault
  /\ br' = [br EXCEPT !.pend = NoAct, !.acting = Current(br, br.pend), !.committed = FALSE]
  /\ actor' = IF Current(br, br.pend) THEN [at |-> "taken", act |-> br.pend, ok |-> FALSE]
              ELSE actor
  /\ UNCHANGED <<graph, gnode, cli, up, down, stopper, dev, res, hups>>

\* Mutant: the action is not looked at again before it is dispatched.
BeginsTaken ==
  /\ ActorAt("taken")
  /\ br' = [br EXCEPT !.committed = TRUE] /\ actor' = [actor EXCEPT !.at = "begun"]
  /\ UNCHANGED <<graph, gnode, cli, up, down, stopper, dev, res, hups>>

\* begin_action: a stop that landed meanwhile outranks the carried action.
Begins ==
  /\ ActorAt("taken")
  /\ IF Current(br, actor.act)
     THEN br' = [br EXCEPT !.committed = TRUE] /\ actor' = [actor EXCEPT !.at = "begun"]
     ELSE br' = [br EXCEPT !.acting = FALSE, !.committed = FALSE]
          /\ actor' = [actor EXCEPT !.at = "idle", !.act = NoAct]
  /\ UNCHANGED <<graph, gnode, cli, up, down, stopper, dev, res, hups>>

\* The SDK call reaches the device, and later ends there.
Into(d, a) == [d EXCEPT !.act = a, !.held = FALSE, !.there = 0]
OutOf(d, a, ok) ==
  [d EXCEPT !.act = NoAct, !.held = (ok /\ a.kind = "close"),
            !.there = IF ok /\ a.kind # "close" THEN a.id ELSE 0,
            !.fin = IF ok THEN @ \cup {a.id} ELSE @]
Enters ==
  /\ ActorAt("begun")
  /\ dev' = Into(dev, actor.act) /\ actor' = [actor EXCEPT !.at = "inside"]
  /\ UNCHANGED <<graph, gnode, cli, up, down, br, stopper, res, hups>>
ActionEnds ==
  /\ ActorAt("inside") /\ dev.act.id # 0
  /\ \E ok \in BOOLEAN :
       /\ dev' = OutOf(dev, actor.act, ok)
       /\ actor' = [actor EXCEPT !.at = "returned", !.ok = ok]
  /\ UNCHANGED <<graph, gnode, cli, up, down, br, stopper, res, hups>>

Reported(b, a, ok) ==
  IF Current(b, a) THEN [b EXCEPT !.done = [some |-> TRUE, ep |-> a.ep, ok |-> ok]] ELSE b

\* The call has returned, the session standing or lost (what the device was
\* doing ends with it).
Returns ==
  /\ ActorAt("returned")
  /\ br' = Reported([Unsampled(br) EXCEPT !.acting = FALSE, !.committed = FALSE],
                    actor.act, actor.ok)
  /\ actor' = [at |-> "idle", act |-> NoAct, ok |-> FALSE]
  /\ UNCHANGED <<graph, gnode, cli, up, down, stopper, dev, res, hups>>
SessionLostActing ==
  /\ ActorAt("begun") \/ ActorAt("inside")
  /\ HandUpset("session")
  /\ br' = [Unsampled(Voided(br)) EXCEPT !.acting = FALSE, !.committed = FALSE,
                              !.conn = FALSE]
  /\ actor' = [at |-> "away", act |-> NoAct, ok |-> FALSE]
  /\ dev' = OutOf(dev, actor.act, FALSE)
  /\ UNCHANGED <<graph, gnode, cli, up, down, stopper, res>>

\* readOnce and observe_state.  A read that a stop overlaps is discarded, so
\* only one that none overlaps is a step.
Reads ==
  /\ ActorAt("idle") /\ ~br.stopping
  /\ br' = IF br.retried THEN [Sampled(br) EXCEPT !.fault = FALSE, !.retried = FALSE]
           ELSE Sampled(br)
  /\ UNCHANGED <<graph, gnode, cli, up, down, actor, stopper, dev, res, hups>>
SessionLostReading ==
  /\ ActorAt("idle") /\ HandUpset("session")
  /\ actor' = [actor EXCEPT !.at = "away"]
  /\ br' = [Unsampled(Voided(br)) EXCEPT !.conn = FALSE]
  /\ UNCHANGED <<graph, gnode, cli, up, down, stopper, dev, res>>

-----------------------------------------------------------------------------
(* The stopper.                                                            *)

StopBegins ==
  /\ Real /\ stopper.at = "idle" /\ br.stopping
  /\ stopper' = [at |-> "calling", was |-> br.acting, same |-> TRUE, ok |-> br.conn]
  /\ UNCHANGED <<graph, gnode, cli, up, down, br, actor, dev, res, hups>>

\* Gripper::stop on the pinned session: it interrupts what is inside the
\* device, and only that, and a held object is let go.
StopCalls ==
  /\ stopper.at = "calling"
  /\ \/ /\ stopper.ok /\ br.conn /\ hups' = hups
        /\ stopper' = [stopper EXCEPT !.at = "called", !.ok = TRUE]
        /\ dev' = [dev EXCEPT !.act = NoAct, !.held = FALSE,
                              !.there = IF dev.act.id # 0 THEN 0 ELSE @]
        /\ actor' = IF actor.at = "inside" THEN [actor EXCEPT !.at = "returned", !.ok = FALSE]
                    ELSE actor
     \/ /\ ~(stopper.ok /\ br.conn) /\ hups' = hups
        /\ stopper' = [stopper EXCEPT !.at = "called", !.ok = FALSE]
        /\ UNCHANGED <<dev, actor>>
     \/ /\ stopper.ok /\ br.conn /\ HandUpset("stop")
        /\ stopper' = [stopper EXCEPT !.at = "called", !.ok = FALSE]
        /\ UNCHANGED <<dev, actor>>
  /\ UNCHANGED <<graph, gnode, cli, up, down, br, res>>

\* finish_stop: final only if no action was or is under way and no newer stop
\* was asked for.
Final == stopper.same /\ ~stopper.was /\ ~br.acting

StopFinishes ==
  /\ stopper.at = "called"
  /\ stopper' = [stopper EXCEPT !.at = "idle", !.was = FALSE, !.same = FALSE, !.ok = FALSE]
  /\ br' = IF Final
           THEN [Unsampled(br) EXCEPT !.stopping = FALSE, !.fault = @ \/ ~stopper.ok,
                           !.retried = stopper.ok /\ br.fault]
           ELSE Unsampled(br)
  /\ UNCHANGED <<graph, gnode, cli, up, down, actor, dev, res, hups>>

-----------------------------------------------------------------------------
(* The simulated bridge: on_sample, once per plant tick.                   *)

SimStops ==
  /\ graph.sim /\ br.stopping
  /\ dev' = [dev EXCEPT !.act = NoAct, !.held = FALSE, !.there = IF dev.act.id # 0 THEN 0 ELSE @]
  /\ br' = [Unsampled(br) EXCEPT !.acting = FALSE, !.committed = FALSE, !.stopping = FALSE]
  /\ actor' = [actor EXCEPT !.act = NoAct]
  /\ UNCHANGED <<graph, gnode, cli, up, down, stopper, res, hups>>

SimSamples ==
  /\ graph.sim /\ ~br.stopping
  /\ \/ /\ br.acting /\ br' = Sampled(br) /\ UNCHANGED <<dev, actor>>
     \/ /\ br.acting
        /\ \E ok \in BOOLEAN :
             /\ dev' = OutOf(dev, actor.act, ok)
             /\ br' = Reported([Unsampled(br) EXCEPT !.acting = FALSE, !.committed = FALSE],
                             actor.act, ok)
        /\ actor' = [actor EXCEPT !.act = NoAct]
     \/ /\ ~br.acting /\ br.client /\ Current(br, br.pend)
        /\ br' = [Sampled(br) EXCEPT !.pend = NoAct, !.acting = TRUE, !.committed = TRUE]
        /\ dev' = Into(dev, br.pend) /\ actor' = [actor EXCEPT !.act = br.pend]
     \/ /\ ~br.acting /\ ~(br.client /\ Current(br, br.pend))
        /\ br' = [Sampled(br) EXCEPT !.pend = IF br.client THEN NoAct ELSE @]
        /\ UNCHANGED <<dev, actor>>
  /\ UNCHANGED <<graph, gnode, cli, up, down, stopper, res, hups>>

-----------------------------------------------------------------------------
ObjectDrops ==
  /\ dev.held /\ HandUpset("drop") /\ dev' = [dev EXCEPT !.held = FALSE]
  /\ UNCHANGED <<graph, gnode, cli, up, down, br, actor, stopper, res>>

Client == ClientConnects \/ ClientReceives \/ ClientWants \/ ClientSends
Server == ServesCommand \/ ServesStop \/ Disconnect \/ Accepts \/ PushesDone
Actor == Takes \/ Begins \/ Enters \/ Returns \/ Reads
Stopper == StopBegins \/ StopCalls \/ StopFinishes
Requests == AskMove \/ (\E k \in GraspKinds : AskGrasp(k)) \/ (\E k \in {"slide", "home"} : AskPlain(k))

HandNext ==
  \/ Client \/ Server \/ PushesMeta \/ Actor \/ SessionOpens \/ ActionEnds \/ Stopper
  \/ SimStops \/ SimSamples \/ NodeTick \/ DeadlinePasses \/ Requests
  \/ AuthorityLost \/ AuthorityBack \/ LinkLost \/ SessionLostActing
  \/ SessionLostReading \/ ObjectDrops

HandSpec == HandInit /\ [][HandNext]_handVars

\* Every thread goes on and time passes; an action inside the device need not
\* end by itself, and a lost session need not come back.
HandFair ==
  /\ WF_handVars(Client) /\ WF_handVars(Server) /\ WF_handVars(Actor)
  /\ WF_handVars(Stopper) /\ WF_handVars(SimStops)
  /\ WF_handVars(NodeTick) /\ WF_handVars(DeadlinePasses)
HandFairSpec == HandSpec /\ HandFair

-----------------------------------------------------------------------------
Believed == Snapshot(cli)

(* What the node takes for an idle Hand is one: nothing inside the device, *)
(* with the actor, waiting at the bridge or on its way there with an epoch *)
(* that would still be admitted - also right after a DONE, a cancel or a   *)
(* reconnect (franka_adapter.py snapshot).                                 *)
IdleMeansStill ==
  Believed.meas /\ ~Believed.busy =>
    /\ dev.act.id = 0 /\ ~br.acting /\ br.pend.id = 0
    /\ \A i \in DOMAIN up : up[i].op = "CMD" => up[i].ep < br.epoch

(* An action whose epoch is gone is never inside the device with the       *)
(* bridge neither stopping nor inhibited: a stop that returned before its  *)
(* action entered is not taken for the final one (hand_admission.hpp       *)
(* finish_stop, begin_action; sim_hand_bridge.py on_sample).               *)
StopMeansStopped ==
  dev.act.id # 0 /\ ~Current(br, dev.act) => br.stopping \/ br.fault

(* No position move enters the device while it holds an object, however    *)
(* stale what the node last saw of it (HandMove.start, and the epoch the   *)
(* bridge compares).                                                       *)
NoMoveWhileHeld ==
  [][dev.act.id = 0 /\ dev'.act.kind = "move" => ~dev.held]_handVars

(* A success is one: a request is told ok only if the device finished that *)
(* very action well, not an earlier one, and not on a measurement older    *)
(* than its end (HandGraspFsm.poll, HandMove.poll, OnDone's epoch); and a  *)
(* request that was told it failed is never told it succeeded.             *)
OkIsTrue ==
  \A i \in Ids : res[i] # "revived" /\ (res[i] = "ok" => i \in dev.fin)

(* Without the arm's authority the Hand does not go on acting: an action   *)
(* under way when it is lost is stopped wherever it is, unless its stop    *)
(* failed or authority comes back (franka_adapter.py _run).                *)
UnauthorisedStops ==
  (graph.gated /\ ~gnode.auth) ~> (gnode.auth \/ dev.act.id = 0 \/ br.fault)
=============================================================================
