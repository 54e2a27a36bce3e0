------------------------------ MODULE NodeProofs -------------------------------
(***************************************************************************)
(* Proofs about three components that share nothing: Teleop, for every     *)
(* timeout, queue size and number of upsets; Hand, for any number of       *)
(* requests and upsets and both of its bridges; and Mailbox, for every     *)
(* number of writes.                                                       *)
(***************************************************************************)
EXTENDS Teleop, Hand, Mailbox, TLAPS

-----------------------------------------------------------------------------
(* Teleoperation.                                                          *)


(* What a sent jog owes to the feedback.  Before the first tick the node   *)
(* may know of bad news already (a fault or a STOP met while priming or    *)
(* aligning) and has sent nothing; one jog may follow.  Past a feedback    *)
(* check that let the loop go on, it knows of none, and learns of none     *)
(* before the next check: only then is what waits for it taken in.         *)
BlindInv ==
  /\ tele.pc \notin {"top", "read", "feedback"} => tele.blind = 0
  /\ tele.pc \in {"top", "read"} => tele.blind = 0 \/ (tele.blind = 1 /\ ~Bad(fb))
  /\ tele.pc = "feedback" => tele.blind \in {0, 1}
  /\ tele = [pc |-> tele.pc, blind |-> tele.blind]

(* The steps of the node itself up to its loop, and its ways out.          *)
LEMMA OutsideKeeps ==
  ASSUME BlindInv, Start \/ Ends \/ FeedbackFails \/ SafeStop \/ Close \/ StopTarget \/ Crashes
  PROVE  BlindInv'
<1>1. CASE PrimeTakes \/ PrimeEnds \/ Open \/ Align
  BY <1>1 DEF PrimeTakes, PrimeEnds, Open, Align, BlindInv, TeleAt
<1>2. CASE \E pc \in TeleOver \cup {"stopping", "closing"} : Gone(pc)
  BY <1>2 DEF Gone, BlindInv, TeleOver
<1> QED
  BY <1>1, <1>2 DEF Start, PrimeTimesOut, AlignFails, Ends, FeedbackFails, SafeStop, Close,
                    StopTarget, Crashes, TeleOver

(* A tick of the loop.                                                     *)
LEMMA TickKeeps ==
  ASSUME BlindInv, Top \/ SendTarget \/ Feedback
  PROVE  BlindInv'
<1>1. CASE Top
  BY <1>1 DEF Top, BlindInv, TeleAt, Bad
<1>2. CASE SendTarget
  <2> DEFINE n == IF Bad(fb) /\ tele.blind < 2 THEN tele.blind + 1 ELSE tele.blind
  <2>1. n \in {0, 1}
    BY <1>2 DEF SendTarget, BlindInv, TeleAt
  <2>2. tele' = [tele EXCEPT !.pc = "feedback", !.blind = n]
    BY <1>2 DEF SendTarget
  <2> HIDE DEF n
  <2>3. tele'.pc = "feedback" /\ tele'.blind = n /\ tele' = [pc |-> "feedback", blind |-> n]
    BY <2>2 DEF BlindInv
  <2> QED
    BY <2>1, <2>3 DEF BlindInv
<1>3. CASE Feedback
  <2>1. CASE Gone("stopping")
    BY <2>1 DEF Gone, BlindInv
  <2>2. CASE tele' = [tele EXCEPT !.pc = "top"] /\ fb' = Drained /\ ~Bad(Drained)
    <3>1. ~Bad(fb')
      BY <2>2
    <3> QED
      BY <1>3, <2>2, <3>1 DEF Feedback, BlindInv, TeleAt, Bad
  <2> QED
    BY <1>3, <2>1, <2>2 DEF Feedback, Verdict
<1> QED
  BY <1>1, <1>2, <1>3

(* Nobody else touches what the node has taken in.                         *)
LEMMA OthersKeep ==
  ASSUME BlindInv,
         \/ Bridge \/ WorkerBegins \/ Performs \/ ControllerTick \/ Passes \/ Drifts
         \/ Faulted \/ ChannelLost \/ BridgeCrashes \/ GraphStops \/ UNCHANGED teleopVars
  PROVE  BlindInv'
<1>1. UNCHANGED <<tele, fb>>
  BY DEF Bridge, TakesControl, TakesJog, Publishes, Loses, BridgeStops, BridgeEnds,
         WorkerBegins, Performs, ControllerTick, Passes, Drifts, Faulted, ChannelLost,
         BridgeCrashes, GraphStops, teleopVars, teleVars
<1> QED
  BY <1>1 DEF BlindInv, Bad

(* At most one jog is sent after the node knows that something is wrong:   *)
(* the target of a tick goes out before its feedback is looked at, and the *)
(* tick after never comes.                                                 *)
THEOREM TeleopBlindAtMostOnce == TeleopSpec => []BlindAtMostOnce
<1>1. TeleopInit => BlindInv
  BY DEF TeleopInit, BlindInv
<1>2. BlindInv /\ [TeleopNext]_teleopVars => BlindInv'
  <2> SUFFICES ASSUME BlindInv, [TeleopNext]_teleopVars PROVE BlindInv'
    OBVIOUS
  <2> QED
    BY OutsideKeeps, TickKeeps, OthersKeep DEF TeleopNext, Loop
<1>3. BlindInv => BlindAtMostOnce
  BY DEF BlindInv, BlindAtMostOnce
<1> QED
  BY <1>1, <1>2, <1>3, PTL DEF TeleopSpec

-----------------------------------------------------------------------------
(* The Hand's bridge and the device behind it, whatever the client sends.  *)

BrShape(b) ==
  b = [epoch |-> b.epoch, conn |-> b.conn, client |-> b.client, pend |-> b.pend,
       acting |-> b.acting, committed |-> b.committed, stopping |-> b.stopping,
       fault |-> b.fault, retried |-> b.retried, real |-> b.real, news |-> b.news,
       held |-> b.held, there |-> b.there, done |-> b.done]
DevShape(d) == d = [act |-> d.act, held |-> d.held, there |-> d.there, fin |-> d.fin]

(* What is inside the device is the action the bridge has committed to,    *)
(* and is current unless a stop is under way.  The RT box's actor is where *)
(* the admission says it is; the simulated one does not move.              *)
StopInv ==
  /\ BrShape(br) /\ br.epoch \in Nat
  /\ actor = [at |-> actor.at, act |-> actor.act, ok |-> actor.ok]
  /\ DevShape(dev)
  /\ br.committed => br.acting /\ (br.stopping \/ Current(br, actor.act))
  /\ dev.act.id # 0 => br.committed /\ dev.act = actor.act
  /\ graph.sim => actor.at = "idle" /\ (br.acting <=> br.committed)
  /\ ~graph.sim =>
       /\ br.acting <=> actor.at \notin {"away", "idle"}
       /\ br.committed <=> actor.at \in {"begun", "inside", "returned"}
       /\ dev.act.id # 0 => actor.at = "inside"

(* The fields of the admission that matter here, after its helpers.        *)
Rest(b, c) == c.conn = b.conn /\ c.client = b.client /\ c.acting = b.acting /\ c.committed = b.committed

LEMMA BridgeOps ==
  ASSUME NEW b, BrShape(b)
  PROVE  /\ BrShape(Voided(b)) /\ Rest(b, Voided(b)) /\ Voided(b).epoch = b.epoch + 1
         /\ Voided(b).stopping = b.stopping
         /\ BrShape(StopRequested(b)) /\ Rest(b, StopRequested(b))
         /\ StopRequested(b).epoch = b.epoch + 1 /\ StopRequested(b).stopping
         /\ BrShape(Unsampled(b)) /\ Rest(b, Unsampled(b)) /\ Unsampled(b).epoch = b.epoch
         /\ Unsampled(b).stopping = b.stopping
         /\ BrShape(Sampled(b)) /\ Rest(b, Sampled(b)) /\ Sampled(b).epoch = b.epoch
         /\ Sampled(b).stopping = b.stopping
<1> DEFINE n == b.epoch + 1
<1>1. ASSUME NEW c, c = Voided(b)
      PROVE  BrShape(c) /\ Rest(b, c) /\ c.epoch = b.epoch + 1 /\ c.stopping = b.stopping
  <2>1. c = [b EXCEPT !.pend = NoAct, !.epoch = n] /\ n = b.epoch + 1
    BY <1>1 DEF Voided
  <2> HIDE DEF n
  <2> QED
    BY <2>1 DEF BrShape, Rest
<1>2. ASSUME NEW c, c = StopRequested(b)
      PROVE  BrShape(c) /\ Rest(b, c) /\ c.epoch = b.epoch + 1 /\ c.stopping
  <2>1. PICK v : v = Voided(b)
    OBVIOUS
  <2>2. c = [v EXCEPT !.stopping = TRUE, !.retried = FALSE]
    BY <1>2, <2>1 DEF StopRequested
  <2>3. BrShape(v) /\ Rest(b, v) /\ v.epoch = b.epoch + 1
    BY <1>1, <2>1
  <2> QED
    BY <2>2, <2>3 DEF BrShape, Rest
<1>3. ASSUME NEW c, c = Unsampled(b)
      PROVE  BrShape(c) /\ Rest(b, c) /\ c.epoch = b.epoch /\ c.stopping = b.stopping
  BY <1>3 DEF Unsampled, BrShape, Rest
<1>4. ASSUME NEW c, c = Sampled(b)
      PROVE  BrShape(c) /\ Rest(b, c) /\ c.epoch = b.epoch /\ c.stopping = b.stopping
  BY <1>4 DEF Sampled, BrShape, Rest
<1> QED
  BY <1>1, <1>2, <1>3, <1>4

(* The call is over, with or without a report.                             *)
Over(b, a, ok) ==
  Reported([Unsampled(b) EXCEPT !.acting = FALSE, !.committed = FALSE], a, ok)

(* Nothing is committed then.                                              *)
LEMMA CallOver ==
  ASSUME NEW b, BrShape(b), NEW a, NEW ok
  PROVE  /\ BrShape(Over(b, a, ok)) /\ Over(b, a, ok).acting = FALSE
         /\ Over(b, a, ok).committed = FALSE /\ Over(b, a, ok).epoch = b.epoch
<1>0. PICK c : c = Over(b, a, ok)
  OBVIOUS
<1>1. BrShape(Unsampled(b)) /\ Unsampled(b).epoch = b.epoch
  BY BridgeOps
<1>2. PICK u : u = [Unsampled(b) EXCEPT !.acting = FALSE, !.committed = FALSE]
  OBVIOUS
<1>3. BrShape(u) /\ u.acting = FALSE /\ u.committed = FALSE /\ u.epoch = b.epoch
  BY <1>1, <1>2 DEF BrShape
<1> DEFINE d == [some |-> TRUE, ep |-> a.ep, ok |-> ok]
<1>4. c = u \/ c = [u EXCEPT !.done = d]
  BY <1>0, <1>2 DEF Reported, Over
<1> HIDE DEF d
<1>5. BrShape(c) /\ c.acting = FALSE /\ c.committed = FALSE /\ c.epoch = b.epoch
  BY <1>3, <1>4 DEF BrShape
<1> QED
  BY <1>0, <1>5

(* What the device has let go of.                                          *)
LEMMA OutIs ==
  ASSUME NEW e, DevShape(e),
         NEW a, NEW ok
  PROVE  OutOf(e, a, ok).act = NoAct /\ DevShape(OutOf(e, a, ok))
<1>0. PICK d : d = OutOf(e, a, ok)
  OBVIOUS
<1> DEFINE h == ok /\ a.kind = "close"
           t == IF ok /\ a.kind # "close" THEN a.id ELSE 0
           f == IF ok THEN e.fin \cup {a.id} ELSE e.fin
<1>1. d = [e EXCEPT !.act = NoAct, !.held = h, !.there = t, !.fin = f]
  BY <1>0 DEF OutOf
<1> HIDE DEF h, t, f
<1>2. d.act = NoAct /\ DevShape(d)
  BY <1>1 DEF DevShape
<1> QED
  BY <1>0, <1>2

(* A step that leaves the actor and the device alone, and of the admission *)
(* at most withdraws what is not committed, or asks for a stop.            *)
LEMMA QuietKeeps ==
  ASSUME StopInv, BrShape(br'), br'.epoch \in Nat, UNCHANGED <<graph, actor, dev>>,
         br'.acting = br.acting, br'.committed = br.committed,
         br.committed => \/ br'.stopping
                         \/ br'.stopping = br.stopping /\ br'.epoch = br.epoch
                            /\ br'.conn = br.conn /\ br'.client = br.client
  PROVE  StopInv'
<1>1. br'.committed => br'.stopping \/ Current(br', actor'.act)
  BY DEF StopInv, Current
<1>2. graph' = graph /\ actor' = actor /\ dev' = dev
  OBVIOUS
<1>3. (br'.committed => br'.acting) /\ (dev'.act.id # 0 => br'.committed /\ dev'.act = actor'.act)
  BY <1>2 DEF StopInv
<1>4. graph'.sim => actor'.at = "idle" /\ (br'.acting <=> br'.committed)
  BY <1>2 DEF StopInv
<1>5. ~graph'.sim =>
        /\ br'.acting <=> actor'.at \notin {"away", "idle"}
        /\ br'.committed <=> actor'.at \in {"begun", "inside", "returned"}
        /\ dev'.act.id # 0 => actor'.at = "inside"
  BY <1>2 DEF StopInv
<1> QED
  BY <1>1, <1>2, <1>3, <1>4, <1>5 DEF StopInv

(* The bridge's server thread and its samples.                             *)
LEMMA ServerKeeps ==
  ASSUME StopInv, Server \/ PushesMeta \/ Reads \/ StopBegins \/ StopFinishes
  PROVE  StopInv'
<1>0. BrShape(br) /\ br.epoch \in Nat /\ br.epoch + 1 \in Nat
  BY DEF StopInv
<1>1. CASE ServesCommand
  <2>1. UNCHANGED <<graph, actor, dev>>
    BY <1>1 DEF ServesCommand
  <2>2. CASE br' = br
    BY <1>0, <2>1, <2>2, QuietKeeps
  <2>3. CASE br' # br
    <3>1. ~br.acting /\ br' = [br EXCEPT !.epoch = br.epoch + 1, !.pend = Head(up).act]
      BY <1>1, <2>3 DEF ServesCommand, Refused
    <3> DEFINE n == br.epoch + 1
    <3>2. n \in Nat /\ br' = [br EXCEPT !.epoch = n, !.pend = Head(up).act]
      BY <1>0, <3>1
    <3> HIDE DEF n
    <3>3. BrShape(br') /\ br'.epoch = n /\ br'.acting = br.acting /\ br'.committed = br.committed
      BY <1>0, <3>2 DEF BrShape
    <3>4. ~br.committed
      BY <3>1 DEF StopInv
    <3> QED
      BY <2>1, <3>2, <3>3, <3>4, QuietKeeps
  <2> QED
    BY <2>2, <2>3
<1>2. CASE ServesStop
  <2>1. br' = Unsampled(StopRequested(br)) /\ UNCHANGED <<graph, actor, dev>>
    BY <1>2 DEF ServesStop
  <2>2. BrShape(StopRequested(br)) /\ Rest(br, StopRequested(br))
        /\ StopRequested(br).epoch = br.epoch + 1 /\ StopRequested(br).stopping
    BY <1>0, BridgeOps
  <2>3. BrShape(br') /\ Rest(StopRequested(br), br') /\ br'.epoch = br.epoch + 1 /\ br'.stopping
    BY <2>1, <2>2, BridgeOps
  <2> QED
    BY <1>0, <2>1, <2>2, <2>3, QuietKeeps DEF Rest
<1>3. CASE Disconnect
  <2>1. UNCHANGED <<graph, actor, dev>>
    BY <1>3 DEF Disconnect
  <2>2. CASE br.committed \/ br.stopping
    <3>1. br' = [Unsampled(StopRequested(br)) EXCEPT !.client = FALSE]
      BY <1>3, <2>2 DEF Disconnect
    <3>2. BrShape(StopRequested(br)) /\ Rest(br, StopRequested(br))
          /\ StopRequested(br).epoch = br.epoch + 1 /\ StopRequested(br).stopping
      BY <1>0, BridgeOps
    <3>3. PICK u : u = Unsampled(StopRequested(br))
      OBVIOUS
    <3>4. BrShape(u) /\ Rest(StopRequested(br), u) /\ u.epoch = br.epoch + 1 /\ u.stopping
      BY <3>2, <3>3, BridgeOps
    <3>5. BrShape(br') /\ br'.acting = u.acting /\ br'.committed = u.committed
          /\ br'.epoch = u.epoch /\ br'.stopping
      BY <3>1, <3>3, <3>4 DEF BrShape
    <3> QED
      BY <1>0, <2>1, <3>2, <3>4, <3>5, QuietKeeps DEF Rest
  <2>3. CASE ~(br.committed \/ br.stopping)
    <3>1. br' = [Voided(br) EXCEPT !.client = FALSE]
      BY <1>3, <2>3 DEF Disconnect
    <3>2. BrShape(Voided(br)) /\ Rest(br, Voided(br)) /\ Voided(br).epoch = br.epoch + 1
      BY <1>0, BridgeOps
    <3>3. BrShape(br') /\ br'.acting = br.acting /\ br'.committed = br.committed
          /\ br'.epoch = br.epoch + 1
      BY <3>1, <3>2 DEF BrShape, Rest
    <3> QED
      BY <1>0, <2>1, <2>3, <3>3, QuietKeeps
  <2> QED
    BY <2>2, <2>3
<1>4. CASE Accepts
  <2>1. br' = [Voided(br) EXCEPT !.client = TRUE, !.done = NoDone, !.news = TRUE]
        /\ UNCHANGED <<graph, actor, dev>> /\ ~br.client
    BY <1>4 DEF Accepts
  <2>2. BrShape(Voided(br)) /\ Rest(br, Voided(br)) /\ Voided(br).epoch = br.epoch + 1
        /\ Voided(br).stopping = br.stopping
    BY <1>0, BridgeOps
  <2>3. BrShape(br') /\ br'.acting = br.acting /\ br'.committed = br.committed
        /\ br'.epoch = br.epoch + 1 /\ br'.stopping = br.stopping
    BY <2>1, <2>2 DEF BrShape, Rest
  <2>4. br.committed => br'.stopping
    BY <2>1, <2>3 DEF StopInv, Current
  <2> QED
    BY <1>0, <2>1, <2>3, <2>4, QuietKeeps
<1>5. CASE PushesDone \/ PushesMeta
  <2>1. /\ UNCHANGED <<graph, actor, dev>>
        /\ br' = br \/ br' = [br EXCEPT !.done = NoDone] \/ br' = [br EXCEPT !.news = FALSE]
    BY <1>5 DEF PushesDone, PushesMeta
  <2>2. BrShape(br') /\ Rest(br, br') /\ br'.epoch = br.epoch /\ br'.stopping = br.stopping
    BY <1>0, <2>1 DEF BrShape, Rest
  <2> QED
    BY <1>0, <2>1, <2>2, QuietKeeps DEF Rest
<1>6. CASE Reads
  <2>1. /\ UNCHANGED <<graph, actor, dev>>
        /\ br' = Sampled(br) \/ br' = [Sampled(br) EXCEPT !.fault = FALSE, !.retried = FALSE]
    BY <1>6 DEF Reads
  <2>2. PICK u : u = Sampled(br)
    OBVIOUS
  <2>3. BrShape(u) /\ Rest(br, u) /\ u.epoch = br.epoch /\ u.stopping = br.stopping
    BY <1>0, <2>2, BridgeOps
  <2>4. BrShape(br') /\ Rest(u, br') /\ br'.epoch = br.epoch /\ br'.stopping = br.stopping
    BY <2>1, <2>2, <2>3 DEF BrShape, Rest
  <2> QED
    BY <1>0, <2>1, <2>3, <2>4, QuietKeeps DEF Rest
<1>7. CASE StopBegins
  BY <1>0, <1>7, QuietKeeps DEF StopBegins
<1>8. CASE StopFinishes
  <2>1. PICK u : u = Unsampled(br)
    OBVIOUS
  <2>2. BrShape(u) /\ Rest(br, u) /\ u.epoch = br.epoch /\ u.stopping = br.stopping
    BY <1>0, <2>1, BridgeOps
  <2>3. UNCHANGED <<graph, actor, dev>>
    BY <1>8 DEF StopFinishes
  <2>4. CASE Final
    <3>1. br' = [u EXCEPT !.stopping = FALSE, !.fault = u.fault \/ ~stopper.ok,
                          !.retried = stopper.ok /\ br.fault]
      BY <1>8, <2>1, <2>2, <2>4 DEF StopFinishes, BrShape
    <3> DEFINE f == u.fault \/ ~stopper.ok
               r == stopper.ok /\ br.fault
    <3>4. br' = [u EXCEPT !.stopping = FALSE, !.fault = f, !.retried = r]
      BY <3>1
    <3> HIDE DEF f, r
    <3>2. BrShape(br') /\ Rest(u, br') /\ br'.epoch = u.epoch
      BY <2>2, <3>4 DEF BrShape, Rest
    <3>3. ~br.committed
      BY <2>4 DEF Final, StopInv
    <3> QED
      BY <1>0, <2>2, <2>3, <3>2, <3>3, QuietKeeps DEF Rest
  <2>5. CASE ~Final
    <3>1. br' = u
      BY <1>8, <2>1, <2>5 DEF StopFinishes
    <3> QED
      BY <1>0, <2>2, <2>3, <3>1, QuietKeeps DEF Rest
  <2> QED
    BY <2>4, <2>5
<1> QED
  BY <1>1, <1>2, <1>3, <1>4, <1>5, <1>6, <1>7, <1>8 DEF Server

(* The actor of the RT box, up to its call.                                *)
LEMMA ActorKeeps ==
  ASSUME StopInv, SessionOpens \/ Takes \/ Begins \/ Enters
  PROVE  StopInv'
<1>0. /\ BrShape(br) /\ br.epoch \in Nat /\ br.epoch + 1 \in Nat
      /\ actor = [at |-> actor.at, act |-> actor.act, ok |-> actor.ok]
      /\ dev = [act |-> dev.act, held |-> dev.held, there |-> dev.there, fin |-> dev.fin]
      /\ DevShape(dev)
  BY DEF StopInv, DevShape
<1>1. CASE SessionOpens
  <2>1. /\ graph' = graph /\ ~graph.sim /\ actor.at = "away" /\ dev' = dev
        /\ actor' = [actor EXCEPT !.at = "idle"]
        /\ br' = [StopRequested(br) EXCEPT !.conn = TRUE] \/ br' = [br EXCEPT !.conn = TRUE]
    BY <1>1 DEF SessionOpens, ActorAt, Real
  <2>2. PICK s : s = StopRequested(br)
    OBVIOUS
  <2>3. BrShape(s) /\ Rest(br, s) /\ s.epoch = br.epoch + 1
    BY <1>0, <2>2, BridgeOps
  <2>4. /\ BrShape(br') /\ br'.acting = br.acting /\ br'.committed = br.committed
        /\ br'.epoch \in Nat
    BY <1>0, <2>1, <2>2, <2>3 DEF BrShape, Rest
  <2>5. actor' = [at |-> "idle", act |-> actor.act, ok |-> actor.ok]
    BY <1>0, <2>1
  <2> QED
    BY <1>0, <2>1, <2>4, <2>5 DEF StopInv
<1>2. CASE Takes
  <2> DEFINE ac == Current(br, br.pend)
  <2>1. br' = [br EXCEPT !.pend = NoAct, !.acting = ac, !.committed = FALSE]
    BY <1>2 DEF Takes
  <2>2. /\ graph' = graph /\ ~graph.sim /\ actor.at = "idle" /\ dev' = dev /\ ~br.acting
        /\ actor' = IF ac THEN [at |-> "taken", act |-> br.pend, ok |-> FALSE] ELSE actor
    BY <1>2 DEF Takes, ActorAt, Real
  <2> HIDE DEF ac
  <2>3. /\ BrShape(br') /\ br'.acting = ac /\ ~br'.committed /\ br'.epoch = br.epoch
    BY <1>0, <2>1 DEF BrShape
  <2>4. dev.act.id = 0
    BY <2>2 DEF StopInv
  <2>5. CASE ac
    BY <1>0, <2>2, <2>3, <2>4, <2>5 DEF StopInv
  <2>6. CASE ~ac
    BY <1>0, <2>2, <2>3, <2>4, <2>6 DEF StopInv
  <2> QED
    BY <2>5, <2>6
<1>3. CASE Begins
  <2>1. graph' = graph /\ ~graph.sim /\ actor.at = "taken" /\ dev' = dev /\ ~br.committed
    BY <1>3 DEF Begins, ActorAt, Real, StopInv
  <2>2. dev.act.id = 0
    BY <2>1 DEF StopInv
  <2>3. CASE Current(br, actor.act)
    <3>1. br' = [br EXCEPT !.committed = TRUE] /\ actor' = [actor EXCEPT !.at = "begun"]
      BY <1>3, <2>3 DEF Begins
    <3>2. /\ BrShape(br') /\ Current(br', actor.act) /\ br'.acting = br.acting /\ br'.committed
          /\ br'.epoch = br.epoch
      BY <1>0, <2>3, <3>1 DEF BrShape, Current
    <3>3. actor' = [at |-> "begun", act |-> actor.act, ok |-> actor.ok]
      BY <1>0, <3>1
    <3> QED
      BY <1>0, <2>1, <2>2, <3>2, <3>3 DEF StopInv
  <2>4. CASE ~Current(br, actor.act)
    <3>1. br' = [br EXCEPT !.acting = FALSE, !.committed = FALSE]
          /\ actor' = [actor EXCEPT !.at = "idle", !.act = NoAct]
      BY <1>3, <2>4 DEF Begins
    <3>2. BrShape(br') /\ ~br'.acting /\ ~br'.committed /\ br'.epoch = br.epoch
      BY <1>0, <3>1 DEF BrShape
    <3>3. actor' = [at |-> "idle", act |-> NoAct, ok |-> actor.ok]
      BY <1>0, <3>1
    <3> QED
      BY <1>0, <2>1, <2>2, <3>2, <3>3 DEF StopInv
  <2> QED
    BY <2>3, <2>4
<1>4. CASE Enters
  <2>1. /\ graph' = graph /\ ~graph.sim /\ actor.at = "begun" /\ br' = br
        /\ dev' = [dev EXCEPT !.act = actor.act, !.held = FALSE, !.there = 0]
        /\ actor' = [actor EXCEPT !.at = "inside"]
    BY <1>4 DEF Enters, Into, ActorAt, Real
  <2>2. actor' = [at |-> "inside", act |-> actor.act, ok |-> actor.ok]
    BY <1>0, <2>1
  <2>3. dev' = [act |-> actor.act, held |-> FALSE, there |-> 0, fin |-> dev.fin]
    BY <1>0, <2>1
  <2> QED
    BY <1>0, <2>1, <2>2, <2>3 DEF StopInv, DevShape
<1> QED
  BY <1>1, <1>2, <1>3, <1>4

(* The call ends, the actor returns, sessions are lost, and the stop calls.*)
LEMMA CallKeeps ==
  ASSUME StopInv,
         ActionEnds \/ Returns \/ SessionLostActing \/ SessionLostReading \/ StopCalls
         \/ ObjectDrops
  PROVE  StopInv'
<1>0. /\ BrShape(br) /\ br.epoch \in Nat /\ br.epoch + 1 \in Nat
      /\ actor = [at |-> actor.at, act |-> actor.act, ok |-> actor.ok]
      /\ dev = [act |-> dev.act, held |-> dev.held, there |-> dev.there, fin |-> dev.fin]
      /\ DevShape(dev)
      /\ NoAct.id = 0
  BY DEF StopInv, DevShape, NoAct
<1>1. CASE ActionEnds
  <2>1. PICK ok \in BOOLEAN : /\ dev' = OutOf(dev, actor.act, ok)
                              /\ actor' = [actor EXCEPT !.at = "returned", !.ok = ok]
    BY <1>1, Zenon DEF ActionEnds
  <2>2. graph' = graph /\ ~graph.sim /\ actor.at = "inside" /\ br' = br
    BY <1>1, Zenon DEF ActionEnds, ActorAt, Real
  <2>3. actor' = [at |-> "returned", act |-> actor.act, ok |-> ok]
    BY <1>0, <2>1
  <2>4. dev'.act = NoAct
        /\ DevShape(dev')
    BY <1>0, <2>1, OutIs
  <2> QED
    BY <1>0, <2>2, <2>3, <2>4 DEF StopInv
<1>2. CASE Returns
  <2>1. /\ br' = Over(br, actor.act, actor.ok)
        /\ actor' = [at |-> "idle", act |-> NoAct, ok |-> FALSE]
        /\ graph' = graph /\ ~graph.sim /\ actor.at = "returned" /\ dev' = dev
    BY <1>2 DEF Returns, Over, ActorAt, Real
  <2>2. BrShape(br') /\ br'.acting = FALSE /\ br'.committed = FALSE /\ br'.epoch = br.epoch
    <3>1. PICK a, ok : br' = Over(br, a, ok)
      BY <2>1
    <3> QED
      BY <1>0, <3>1, CallOver
  <2> QED
    BY <1>0, <2>1, <2>2 DEF StopInv
<1>3. CASE SessionLostActing \/ SessionLostReading
  <2>1. /\ graph' = graph /\ ~graph.sim
        /\ SessionLostReading => actor.at = "idle"
    BY <1>3 DEF SessionLostActing, SessionLostReading, ActorAt, Real
  <2>2. PICK v : v = Unsampled(Voided(br))
    OBVIOUS
  <2>3. BrShape(v) /\ Rest(br, v) /\ v.epoch = br.epoch + 1
    <3>1. BrShape(Voided(br)) /\ Rest(br, Voided(br)) /\ Voided(br).epoch = br.epoch + 1
      BY <1>0, BridgeOps
    <3> QED
      BY <2>2, <3>1, BridgeOps DEF Rest
  <2>4. CASE SessionLostActing
    <3>1. /\ br' = [v EXCEPT !.acting = FALSE, !.committed = FALSE, !.conn = FALSE]
          /\ actor' = [at |-> "away", act |-> NoAct, ok |-> FALSE]
          /\ dev' = OutOf(dev, actor.act, FALSE)
      BY <2>2, <2>4 DEF SessionLostActing
    <3>2. BrShape(br') /\ ~br'.acting /\ ~br'.committed /\ br'.epoch = br.epoch + 1
      BY <2>3, <3>1 DEF BrShape
    <3>3. dev'.act = NoAct
          /\ DevShape(dev')
      BY <1>0, <3>1, OutIs
    <3> QED
      BY <1>0, <2>1, <3>1, <3>2, <3>3 DEF StopInv, DevShape
  <2>5. CASE SessionLostReading
    <3>1. /\ br' = [v EXCEPT !.conn = FALSE] /\ actor' = [actor EXCEPT !.at = "away"]
          /\ dev' = dev
      BY <2>2, <2>5 DEF SessionLostReading
    <3>2. BrShape(br') /\ br'.acting = br.acting /\ br'.committed = br.committed
          /\ br'.epoch = br.epoch + 1
      BY <2>3, <3>1 DEF BrShape, Rest
    <3>3. actor' = [at |-> "away", act |-> actor.act, ok |-> actor.ok]
      BY <1>0, <3>1
    <3> QED
      BY <1>0, <2>1, <2>5, <3>1, <3>2, <3>3 DEF StopInv
  <2> QED
    BY <1>3, <2>4, <2>5
<1>4. CASE StopCalls
  <2>1. graph' = graph /\ br' = br
    BY <1>4 DEF StopCalls
  <2>2. \/ UNCHANGED <<dev, actor>>
        \/ /\ dev' = [dev EXCEPT !.act = NoAct, !.held = FALSE,
                                 !.there = IF dev.act.id # 0 THEN 0 ELSE @]
           /\ actor' = IF actor.at = "inside" THEN [actor EXCEPT !.at = "returned", !.ok = FALSE]
                       ELSE actor
    BY <1>4, Zenon DEF StopCalls
  <2>3. CASE UNCHANGED <<dev, actor>>
    BY <2>1, <2>3 DEF StopInv
  <2>4. ASSUME dev' = [dev EXCEPT !.act = NoAct, !.held = FALSE,
                                  !.there = IF dev.act.id # 0 THEN 0 ELSE @],
               actor' = IF actor.at = "inside" THEN [actor EXCEPT !.at = "returned", !.ok = FALSE]
                        ELSE actor
        PROVE  StopInv'
    <3> DEFINE t == IF dev.act.id # 0 THEN 0 ELSE dev.there
    <3>0. dev' = [dev EXCEPT !.act = NoAct, !.held = FALSE, !.there = t]
      BY <2>4
    <3> HIDE DEF t
    <3>1. dev' = [act |-> NoAct, held |-> FALSE, there |-> t, fin |-> dev.fin]
      BY <1>0, <3>0
    <3>2. actor' = [at |-> IF actor.at = "inside" THEN "returned" ELSE actor.at,
                    act |-> actor.act, ok |-> IF actor.at = "inside" THEN FALSE ELSE actor.ok]
      BY <1>0, <2>4
    <3>3. CASE actor.at = "inside"
      BY <1>0, <2>1, <3>1, <3>2, <3>3 DEF StopInv, DevShape
    <3>4. CASE actor.at # "inside"
      BY <1>0, <2>1, <2>4, <3>1, <3>4 DEF StopInv, DevShape
    <3> QED
      BY <3>3, <3>4
  <2> QED
    BY <2>2, <2>3, <2>4
<1>5. CASE ObjectDrops
  <2>1. graph' = graph /\ br' = br /\ actor' = actor /\ dev' = [dev EXCEPT !.held = FALSE]
    BY <1>5 DEF ObjectDrops
  <2>2. dev' = [act |-> dev.act, held |-> FALSE, there |-> dev.there, fin |-> dev.fin]
    BY <1>0, <2>1
  <2> QED
    BY <2>1, <2>2 DEF StopInv, DevShape
<1> QED
  BY <1>1, <1>2, <1>3, <1>4, <1>5

(* The simulated bridge.                                                   *)
LEMMA SimKeeps ==
  ASSUME StopInv, SimStops \/ SimSamples
  PROVE  StopInv'
<1>0. /\ BrShape(br) /\ br.epoch \in Nat
      /\ actor = [at |-> actor.at, act |-> actor.act, ok |-> actor.ok]
      /\ dev = [act |-> dev.act, held |-> dev.held, there |-> dev.there, fin |-> dev.fin]
      /\ DevShape(dev)
      /\ NoAct.id = 0
  BY DEF StopInv, DevShape, NoAct
<1>1. graph' = graph /\ graph.sim /\ actor.at = "idle" /\ (br.acting <=> br.committed)
  BY DEF SimStops, SimSamples, StopInv
<1>2. CASE SimStops
  <2>1. /\ br' = [Unsampled(br) EXCEPT !.acting = FALSE, !.committed = FALSE, !.stopping = FALSE]
        /\ actor' = [actor EXCEPT !.act = NoAct]
        /\ dev' = [dev EXCEPT !.act = NoAct, !.held = FALSE,
                              !.there = IF dev.act.id # 0 THEN 0 ELSE @]
    BY <1>2 DEF SimStops
  <2>2. BrShape(Unsampled(br)) /\ Unsampled(br).epoch = br.epoch
    BY <1>0, BridgeOps
  <2>3. BrShape(br') /\ br'.acting = FALSE /\ br'.committed = FALSE /\ br'.epoch = br.epoch
    BY <2>1, <2>2 DEF BrShape
  <2>4. actor' = [at |-> "idle", act |-> NoAct, ok |-> actor.ok]
    BY <1>0, <1>1, <2>1
  <2> DEFINE t == IF dev.act.id # 0 THEN 0 ELSE dev.there
  <2>6. dev' = [dev EXCEPT !.act = NoAct, !.held = FALSE, !.there = t]
    BY <2>1
  <2> HIDE DEF t
  <2>5. dev' = [act |-> NoAct, held |-> FALSE, there |-> t, fin |-> dev.fin]
    BY <1>0, <2>6
  <2> QED
    BY <1>0, <1>1, <2>3, <2>4, <2>5 DEF StopInv, DevShape
<1>3. CASE SimSamples
  <2>0. ~br.stopping
    BY <1>3 DEF SimSamples
  <2>1. CASE br' = Sampled(br) /\ UNCHANGED <<dev, actor>>
    BY <1>0, <1>1, <2>1, BridgeOps, QuietKeeps DEF Rest
  <2>2. CASE /\ actor' = [actor EXCEPT !.act = NoAct]
             /\ \E ok : /\ dev' = OutOf(dev, actor.act, ok)
                        /\ br' = Over(br, actor.act, ok)
    <3>1. PICK ok : /\ dev' = OutOf(dev, actor.act, ok)
                    /\ br' = Over(br, actor.act, ok)
      BY <2>2
    <3>2. BrShape(br') /\ br'.acting = FALSE /\ br'.committed = FALSE /\ br'.epoch = br.epoch
      BY <1>0, <3>1, CallOver
    <3>4. dev'.act = NoAct
          /\ DevShape(dev')
      BY <1>0, <3>1, OutIs
    <3>5. actor' = [at |-> "idle", act |-> NoAct, ok |-> actor.ok]
      BY <1>0, <1>1, <2>2
    <3> QED
      BY <1>0, <1>1, <3>2, <3>4, <3>5 DEF StopInv
  <2>3. CASE /\ ~br.acting /\ br.client /\ Current(br, br.pend)
             /\ br' = [Sampled(br) EXCEPT !.pend = NoAct, !.acting = TRUE, !.committed = TRUE]
             /\ dev' = Into(dev, br.pend) /\ actor' = [actor EXCEPT !.act = br.pend]
    <3>1. BrShape(Sampled(br)) /\ Rest(br, Sampled(br)) /\ Sampled(br).epoch = br.epoch
      BY <1>0, BridgeOps
    <3>2. /\ BrShape(br') /\ br'.acting = TRUE /\ br'.committed = TRUE /\ br'.epoch = br.epoch
          /\ br'.conn = br.conn /\ br'.client = br.client
      BY <2>3, <3>1 DEF BrShape, Rest
    <3>3. Current(br', br.pend)
      BY <2>3, <3>2 DEF Current
    <3>4. actor' = [at |-> "idle", act |-> br.pend, ok |-> actor.ok]
      BY <1>0, <1>1, <2>3
    <3>5. dev' = [act |-> br.pend, held |-> FALSE, there |-> 0, fin |-> dev.fin]
      BY <1>0, <2>3 DEF Into
    <3> QED
      BY <1>0, <1>1, <3>2, <3>3, <3>4, <3>5 DEF StopInv, DevShape
  <2>4. CASE /\ \E p : br' = [Sampled(br) EXCEPT !.pend = p]
             /\ UNCHANGED <<dev, actor>>
    <3>1. /\ BrShape(Sampled(br)) /\ Rest(br, Sampled(br)) /\ Sampled(br).epoch = br.epoch
          /\ Sampled(br).stopping = br.stopping
      BY <1>0, BridgeOps
    <3>2. BrShape(br') /\ Rest(br, br') /\ br'.epoch = br.epoch /\ br'.stopping = br.stopping
      BY <2>4, <3>1 DEF BrShape, Rest
    <3> QED
      BY <1>0, <1>1, <2>4, <3>2, QuietKeeps DEF Rest
  <2> QED
    BY <1>3, <2>1, <2>2, <2>3, <2>4 DEF SimSamples, Over
<1> QED
  BY <1>2, <1>3

-----------------------------------------------------------------------------
(* Client and node, which touch neither the bridge nor the device.         *)
LEMMA AboveKeeps ==
  ASSUME StopInv,
         \/ Client \/ NodeTick \/ DeadlinePasses \/ Requests \/ AuthorityLost \/ AuthorityBack
         \/ LinkLost \/ UNCHANGED handVars
  PROVE  StopInv'
<1>1. graph' = graph /\ br' = br /\ actor' = actor /\ dev' = dev
  <2>1. CASE Client
    BY <2>1 DEF Client, ClientConnects, ClientReceives, ClientWants, ClientSends
  <2>2. CASE Requests
    <3>1. CASE AskMove
      BY <3>1 DEF AskMove, Asked
    <3>2. ASSUME NEW k, AskGrasp(k) PROVE graph' = graph /\ br' = br /\ actor' = actor /\ dev' = dev
      BY <3>2, Zenon DEF AskGrasp, Asked
    <3>3. ASSUME NEW k, AskPlain(k) PROVE graph' = graph /\ br' = br /\ actor' = actor /\ dev' = dev
      BY <3>3, Zenon DEF AskPlain
    <3> QED
      BY <2>2, <3>1, <3>2, <3>3 DEF Requests
  <2>3. CASE NodeTick \/ DeadlinePasses \/ AuthorityLost \/ AuthorityBack \/ LinkLost
             \/ UNCHANGED handVars
    BY <2>3 DEF NodeTick, DeadlinePasses, AuthorityLost, AuthorityBack, LinkLost, handVars
  <2> QED
    BY <2>1, <2>2, <2>3
<1> QED
  BY <1>1 DEF StopInv

(* Nothing is under way at the start.                                      *)
LEMMA StopStarts ==
  ASSUME HandInit
  PROVE  StopInv
<1>1. BrShape(br) /\ br.epoch = 1 /\ br.acting = FALSE /\ br.committed = FALSE
  BY DEF HandInit, BrShape
<1>2. actor = [at |-> IF graph.sim THEN "idle" ELSE "away", act |-> NoAct, ok |-> FALSE]
      /\ dev = [act |-> NoAct, held |-> FALSE, there |-> 0, fin |-> {}] /\ NoAct.id = 0
  BY DEF HandInit, NoAct
<1>5. DevShape(dev) /\ dev.act.id = 0
  BY <1>2 DEF DevShape
<1>3. CASE graph.sim
  <2>1. actor = [at |-> "idle", act |-> NoAct, ok |-> FALSE]
    BY <1>2, <1>3
  <2>2. actor.at = "idle" /\ actor = [at |-> actor.at, act |-> actor.act, ok |-> actor.ok]
    BY <2>1
  <2>3. br.epoch \in Nat /\ ~br.acting /\ ~br.committed /\ (graph.sim => (br.acting <=> br.committed))
    BY <1>1
  <2> QED
    BY <1>1, <1>3, <1>5, <2>2, <2>3, Zenon DEF StopInv
<1>4. CASE ~graph.sim
  <2>1. actor = [at |-> "away", act |-> NoAct, ok |-> FALSE]
    BY <1>2, <1>4
  <2> QED
    BY <1>1, <1>2, <1>4, <2>1 DEF StopInv, DevShape
<1> QED
  BY <1>3, <1>4

(* What the device is doing is what the bridge stands for, or is being     *)
(* stopped: hand_admission.hpp takes no stop for final while an action it  *)
(* has committed to may still enter the device, though actor and stopper   *)
(* call the SDK side by side; nor does the simulated bridge.               *)
THEOREM HandStopMeansStopped == HandSpec => []StopMeansStopped
<1>1. HandInit => StopInv
  BY StopStarts
<1>2. StopInv /\ [HandNext]_handVars => StopInv'
  BY ServerKeeps, ActorKeeps, CallKeeps, SimKeeps, AboveKeeps DEF HandNext, Actor, Stopper
<1>3. StopInv => StopMeansStopped
  BY DEF StopInv, StopMeansStopped
<1> QED
  BY <1>1, <1>2, <1>3, PTL DEF HandSpec

-----------------------------------------------------------------------------
(* The lines between the Hand's client and its bridge.                     *)

Acts == [id : Nat, kind : Kinds \cup {"none"}, ep : Nat]
Views == [avail : BOOLEAN, busy : BOOLEAN, meas : BOOLEAN, held : BOOLEAN, there : Nat]
Lines == [op : {"CMD", "GSTOP", "EOF", "REJECT", "STOPPING", "DONE", "META"}, ep : Nat,
          ok : BOOLEAN, act : Acts, st : Views, new : BOOLEAN]
Dones == [some : BOOLEAN, ep : Nat, ok : BOOLEAN]

(* What is read of a line is typed.                                        *)
LEMMA LinesAre ==
  /\ \A m \in Lines : m.ep \in Nat /\ m.act \in Acts /\ m.act.ep \in Nat /\ m.act.id \in Nat
  /\ \A s \in Seq(Lines) : \A i \in DOMAIN s : s[i] \in Lines /\ s[i].ep \in Nat /\ i \in Nat
<1>1. \A m \in Lines : m.ep \in Nat /\ m.act \in Acts /\ m.act.ep \in Nat /\ m.act.id \in Nat
  BY DEF Lines, Acts
<1>2. \A s \in Seq(Lines) : \A i \in DOMAIN s : s[i] \in Lines /\ i \in Nat
  OBVIOUS
<1> QED
  BY <1>1, <1>2

(* A line is added at the end and taken from the front.                    *)
LEMMA Added ==
  ASSUME NEW s \in Seq(Lines), NEW m \in Lines
  PROVE  /\ Append(s, m) \in Seq(Lines) /\ Append(s, m) # <<>>
         /\ Len(s) + 1 \in DOMAIN Append(s, m) /\ Append(s, m)[Len(s) + 1] = m
         /\ \A i \in DOMAIN s : i \in DOMAIN Append(s, m) /\ Append(s, m)[i] = s[i]
         /\ \A i \in DOMAIN Append(s, m) : i = Len(s) + 1 \/ i \in DOMAIN s
         /\ \A i \in DOMAIN s : i \in Nat /\ i < Len(s) + 1
         /\ Len(s) + 1 \in Nat
  OBVIOUS

(* What is left behind the first line is what was behind it.               *)
LEMMA Removed ==
  ASSUME NEW s \in Seq(Lines), s # <<>>
  PROVE  /\ Tail(s) \in Seq(Lines) /\ Head(s) = s[1] /\ 1 \in DOMAIN s /\ s[1] \in Lines
         /\ \A i \in DOMAIN Tail(s) : i \in Nat /\ i + 1 \in DOMAIN s /\ Tail(s)[i] = s[i + 1] /\ i + 1 > 1
         /\ \A i \in DOMAIN s : i \in Nat /\ i >= 1 /\ (i # 1 => i - 1 \in DOMAIN Tail(s) /\ Tail(s)[i - 1] = s[i])
  OBVIOUS

-----------------------------------------------------------------------------
(* What was true of the bridge when it was measured, and stays true.       *)

Ready(b) == b.conn /\ ~b.fault /\ ~b.stopping /\ ~b.acting /\ b.pend.id = 0

(* Epoch e was seen ready: the bridge is ready in it, and whatever it does *)
(* later was admitted in e or after; a is the action under way.            *)
Quiet(b, a, e) ==
  /\ e <= b.epoch
  /\ b.epoch = e => Ready(b)
  /\ b.acting => a.ep >= e

(* Epoch e was seen ready with no object held (h: one is held).            *)
Empty(b, h, e) == e <= b.epoch /\ (b.epoch = e => Ready(b) /\ ~h)

(* What every step of the system does to the admission at most.            *)
Evolves(b, a, h, b2, a2, h2) ==
  /\ b2.epoch \in Nat /\ b2.epoch >= b.epoch
  /\ b2.epoch = b.epoch /\ Ready(b) => Ready(b2)
  /\ b2.acting => (b.acting /\ a2 = a) \/ (b.pend.id # 0 /\ a2 = b.pend /\ b2.epoch = b.epoch)
  /\ h2 => h \/ b.acting

(* A measured epoch is measured for good.                                  *)
LEMMA MeasuredStays ==
  ASSUME NEW b, NEW a, NEW h, NEW b2, NEW a2, NEW h2, Evolves(b, a, h, b2, a2, h2),
         b.epoch \in Nat, b.pend \in Acts, a \in Acts,
         b.pend.id # 0 => b.pend.ep + 1 = b.epoch,
         NEW e \in Nat
  PROVE  /\ Quiet(b, a, e) => Quiet(b2, a2, e)
         /\ Empty(b, h, e) => Empty(b2, h2, e)
<1>1. b.pend.ep \in Nat /\ a.ep \in Nat /\ b2.epoch \in Nat
  BY DEF Acts, Evolves
<1>2. ASSUME Quiet(b, a, e) PROVE Quiet(b2, a2, e)
  <2>1. e <= b2.epoch
    BY <1>1, <1>2 DEF Quiet, Evolves
  <2>2. b2.epoch = e => Ready(b2)
    BY <1>1, <1>2 DEF Quiet, Evolves
  <2>3. b2.acting => a2.ep >= e
    <3>1. CASE b.acting /\ a2 = a
      BY <1>2, <3>1 DEF Quiet
    <3>2. CASE b.pend.id # 0 /\ a2 = b.pend
      <4>1. b.epoch # e
        BY <1>2, <3>2 DEF Quiet, Ready
      <4> QED
        BY <1>1, <1>2, <3>2, <4>1 DEF Quiet
    <3> QED
      BY <3>1, <3>2 DEF Evolves
  <2> QED
    BY <2>1, <2>2, <2>3 DEF Quiet
<1>3. ASSUME Empty(b, h, e) PROVE Empty(b2, h2, e)
  BY <1>1, <1>3 DEF Empty, Evolves, Ready
<1> QED
  BY <1>2, <1>3

-----------------------------------------------------------------------------
(* An admitted command on its way: the line that carries it, then pending, *)
(* under way, its report, and the line that answers it.  Below: every one  *)
(* has an epoch before n.  AllBut: every one but the client's own, fly,    *)
(* which is at w (k: its place in the lines), and a success reported for   *)
(* it is one of fin.                                                       *)
Below(u, d, b, a, n) ==
  /\ \A i \in DOMAIN u : u[i].op = "CMD" => u[i].ep < n
  /\ b.pend.id # 0 => b.pend.ep < n
  /\ b.acting => a.ep < n
  /\ b.done.some => b.done.ep < n
  /\ \A i \in DOMAIN d : d[i].op \in {"DONE", "REJECT"} => d[i].ep < n

UpBut(u, fly, n, w, k) ==
  \A i \in DOMAIN u : u[i].op = "CMD" => u[i].ep < n \/ (w = "up" /\ i = k /\ u[i].act = fly)
AtBut(b, a, fin, fly, n, w) ==
  /\ b.pend.id # 0 => b.pend.ep < n \/ (w = "pend" /\ b.pend = fly)
  /\ b.acting => a.ep < n \/ (w = "actor" /\ a = fly)
  /\ b.done.some => b.done.ep < n \/ (w = "done" /\ b.done.ep = fly.ep /\ (b.done.ok => fly.id \in fin))
DownBut(d, fin, fly, n, w, k) ==
  \A i \in DOMAIN d : d[i].op \in {"DONE", "REJECT"} =>
    \/ d[i].ep < n
    \/ w = "down" /\ i = k /\ d[i].ep = fly.ep /\ (d[i].op = "DONE" /\ d[i].ok => fly.id \in fin)
AllBut(u, d, b, a, fin, fly, n, w, k) ==
  UpBut(u, fly, n, w, k) /\ AtBut(b, a, fin, fly, n, w) /\ DownBut(d, fin, fly, n, w, k)

(* What the bridge's threads do with a command.                            *)
HandsOn(b, a, b2, a2, fin, fin2) ==
  /\ b2.pend.id # 0 => b2.pend = b.pend
  /\ b2.acting => \/ b.acting /\ a2 = a
                  \/ ~b.acting /\ b.pend.id # 0 /\ a2 = b.pend /\ b2.pend.id = 0
  /\ b2.done.some => \/ b2.done = b.done
                     \/ b.acting /\ ~b2.acting /\ b2.done.ep = a.ep
                        /\ (b2.done.ok => a.id \in fin2)
  /\ fin \subseteq fin2

(* They pass it on.                                                        *)
LEMMA PassedOn ==
  ASSUME NEW u, NEW d, NEW b, NEW a, NEW b2, NEW a2, NEW fin, NEW fin2,
         HandsOn(b, a, b2, a2, fin, fin2), b.pend.id # 0 => ~b.acting, NEW n
  PROVE  /\ Below(u, d, b, a, n) => Below(u, d, b2, a2, n)
         /\ \A fly, w, k : AllBut(u, d, b, a, fin, fly, n, w, k) =>
              \E w2 : AllBut(u, d, b2, a2, fin2, fly, n, w2, k)
<1>1. Below(u, d, b, a, n) => Below(u, d, b2, a2, n)
  BY DEF Below, HandsOn
<1>2. ASSUME NEW fly, NEW w, NEW k, AllBut(u, d, b, a, fin, fly, n, w, k)
      PROVE  \E w2 : AllBut(u, d, b2, a2, fin2, fly, n, w2, k)
  <2>0. DownBut(d, fin2, fly, n, w, k)
    BY <1>2 DEF AllBut, DownBut, HandsOn
  <2>1. ASSUME w \in {"pend", "actor", "done"}, NEW w2 \in {"pend", "actor", "done"},
               AtBut(b2, a2, fin2, fly, n, w2)
        PROVE  AllBut(u, d, b2, a2, fin2, fly, n, w2, k)
    BY <1>2, <2>0, <2>1 DEF AllBut, UpBut, DownBut
  <2>2. CASE w = "pend"
    <3>1. CASE ~b.acting /\ b.pend.id # 0 /\ a2 = b.pend /\ b2.pend.id = 0
      <4>1. AtBut(b2, a2, fin2, fly, n, "actor")
        BY <1>2, <2>2, <3>1 DEF AllBut, AtBut, HandsOn
      <4> QED
        BY <2>1, <2>2, <4>1
    <3>2. CASE ~(~b.acting /\ b.pend.id # 0 /\ a2 = b.pend /\ b2.pend.id = 0)
      <4>1. AtBut(b2, a2, fin2, fly, n, "pend")
        BY <1>2, <2>2, <3>2 DEF AllBut, AtBut, HandsOn
      <4> QED
        BY <2>1, <2>2, <4>1
    <3> QED
      BY <3>1, <3>2
  <2>3. CASE w = "actor"
    <3>1. CASE b.acting /\ ~b2.acting
      <4>1. AtBut(b2, a2, fin2, fly, n, "done")
        BY <1>2, <2>3, <3>1 DEF AllBut, AtBut, HandsOn
      <4> QED
        BY <2>1, <2>3, <4>1
    <3>2. CASE ~(b.acting /\ ~b2.acting)
      <4>1. AtBut(b2, a2, fin2, fly, n, "actor")
        BY <1>2, <2>3, <3>2 DEF AllBut, AtBut, HandsOn
      <4> QED
        BY <2>1, <2>3, <4>1
    <3> QED
      BY <3>1, <3>2
  <2>4. CASE w = "done"
    <3>1. AtBut(b2, a2, fin2, fly, n, "done")
      BY <1>2, <2>4 DEF AllBut, AtBut, HandsOn
    <3> QED
      BY <2>1, <2>4, <3>1
  <2>5. CASE w \notin {"pend", "actor", "done"}
    <3>1. AtBut(b2, a2, fin2, fly, n, w)
      BY <1>2, <2>5 DEF AllBut, AtBut, HandsOn
    <3> QED
      BY <1>2, <2>0, <3>1 DEF AllBut
  <2> QED
    BY <2>2, <2>3, <2>4, <2>5
<1> QED
  BY <1>1, <1>2

-----------------------------------------------------------------------------
(* The invariant of the client, the lines and the bridge.                  *)

CliShape(c) ==
  c = [conn |-> c.conn, epoch |-> c.epoch, fly |-> c.fly, cmd |-> c.cmd, cancel |-> c.cancel,
       waiting |-> c.waiting, stopEp |-> c.stopEp, caps |-> c.caps, since |-> c.since,
       fresh |-> c.fresh, st |-> c.st, gdone |-> c.gdone, fails |-> c.fails,
       moved |-> c.moved, want |-> c.want]

CliTyped(c) == CliShape(c) /\ c.epoch \in Nat /\ c.stopEp \in Nat /\ c.fly \in Acts
BrTyped(b) == b.pend \in Acts /\ b.done \in Dones /\ b.there \in Nat /\ b.news \in BOOLEAN

Typed ==
  /\ CliTyped(cli) /\ BrTyped(br)
  /\ up \in Seq(Lines) /\ down \in Seq(Lines)
  /\ actor.act \in Acts /\ actor.ok \in BOOLEAN /\ dev.there \in Nat
  /\ stopper = [at |-> stopper.at, was |-> stopper.was, same |-> stopper.same, ok |-> stopper.ok]

(* The bridge alone: what is pending was admitted last; a stop call is one *)
(* for a stop asked for; a sample is true while nothing is under way; and  *)
(* a move never meets a held object.                                       *)
BridgeInv ==
  /\ br.pend.id # 0 => br.pend.ep + 1 = br.epoch /\ ~br.acting
  /\ br.pend.id = 0 => br.pend = NoAct
  /\ br.epoch # 0 /\ (br.client => br.epoch > 1)
  /\ stopper.at # "idle" => br.stopping /\ ~graph.sim
  /\ br.real /\ (~br.acting \/ actor.at = "taken") /\ dev.held => br.held
  /\ br.acting => actor.act.id # 0
  /\ br.acting /\ actor.at = "returned" /\ actor.ok => actor.act.id \in dev.fin
  /\ dev.act.id = 0 => dev.act = NoAct
  /\ br.pend.id # 0 /\ br.pend.kind = "move" => ~dev.held
  /\ br.acting /\ actor.act.kind = "move" => ~dev.held

(* The bridge serves the very connection the client is on.                 *)
Joined(u, b, c) == b.client /\ c.conn /\ \A i \in DOMAIN u : u[i].op # "EOF"

Replies == {"REJECT", "STOPPING", "DONE", "META"}

(* A line is read, and an epoch known, only on a connection that is served.*)
LinkInv ==
  /\ br.client => cli.conn \/ \E i \in DOMAIN up : up[i].op = "EOF"
  /\ down # <<>> \/ cli.epoch # 0 => Joined(up, br, cli)
  /\ \A i \in DOMAIN down : down[i].op \in Replies

ViewOK(b, a, h, e, st) == st.meas => Quiet(b, a, e) /\ st.avail /\ (~st.held => Empty(b, h, e))
MetaOK(b, a, h, c, m) ==
  /\ m.ep # 0 /\ c.epoch <= m.ep /\ m.ep <= b.epoch
  /\ ViewOK(b, a, h, m.ep, m.st)
  /\ c.st.meas /\ m.ep = c.epoch => m.st.avail
  /\ c.fly.id # 0 /\ m.ep = c.fly.ep => m.st.avail
CmdOK(b, h, m) == m.act.ep = m.ep /\ m.act.id # 0 /\ (m.act.kind = "move" => Empty(b, h, m.ep))
FlyOK(b, a, h, c) ==
  /\ c.fly.id # 0 => /\ ~c.waiting /\ c.epoch # 0 /\ c.fly.ep <= c.epoch
                     /\ Quiet(b, a, c.fly.ep)
                     /\ c.cmd /\ c.fly.kind = "move" => Empty(b, h, c.fly.ep)
  /\ c.fly.id = 0 => ~c.cmd

(* What was measured, wherever the measurement now is.                     *)
ViewInv ==
  /\ cli.epoch <= br.epoch /\ (cli.st.meas => cli.epoch # 0)
  /\ ViewOK(br, actor.act, dev.held, cli.epoch, cli.st)
  /\ FlyOK(br, actor.act, dev.held, cli)
  /\ \A i \in DOMAIN down : down[i].op = "META" =>
       /\ MetaOK(br, actor.act, dev.held, cli, down[i])
       /\ \A k \in DOMAIN down : down[k].op = "META" => k = i
  /\ \A i \in DOMAIN up : up[i].op = "CMD" => CmdOK(br, dev.held, up[i])

(* The stop line of the connection the client is on.                       *)
LastStop(u, i) == u[i].op = "GSTOP" /\ \A k \in DOMAIN u : k > i => u[k].op # "EOF"

(* One stop at a time: unsent, on its way, acknowledged on its way, or     *)
(* acknowledged; then every command is one of an earlier epoch.            *)
StopLines ==
  /\ cli.cancel => cli.waiting /\ cli.stopEp = 0
  /\ cli.stopEp # 0 => /\ cli.waiting /\ cli.stopEp <= br.epoch
                       /\ Below(up, down, br, actor.act, cli.stopEp)
  /\ \A i \in DOMAIN up : LastStop(up, i) =>
       /\ cli.conn /\ cli.waiting /\ cli.stopEp = 0 /\ ~cli.cancel
       /\ \A k \in DOMAIN down : down[k].op # "STOPPING"
       /\ \A k \in DOMAIN up : LastStop(up, k) => k = i
  /\ \A i \in DOMAIN down : down[i].op = "STOPPING" =>
       /\ cli.waiting /\ cli.stopEp = 0 /\ ~cli.cancel
       /\ down[i].ep # 0 /\ down[i].ep <= br.epoch
       /\ Below(up, down, br, actor.act, down[i].ep)
       /\ \A k \in DOMAIN down : down[k].op = "STOPPING" => k = i

(* At most the command in flight is of the epoch it was sent in; with none *)
(* in flight, and no stop, every one is of an epoch before the client's.   *)
TokenInv ==
  /\ Below(up, down, br, actor.act, br.epoch + 1)
  /\ Joined(up, br, cli) /\ cli.epoch = 0 =>
       /\ Below(up, down, br, actor.act, br.epoch)
       /\ \A i \in DOMAIN down : down[i].op = "META" => Below(up, down, br, actor.act, down[i].ep)
  /\ cli.epoch # 0 /\ cli.fly.id = 0 /\ ~cli.waiting => Below(up, down, br, actor.act, cli.epoch)
  /\ cli.fly.id # 0 /\ cli.cmd => Below(up, down, br, actor.act, cli.fly.ep)
  /\ cli.fly.id # 0 /\ ~cli.cmd =>
       \E w : \E k \in Nat \ {0} : AllBut(up, down, br, actor.act, dev.fin, cli.fly, cli.fly.ep, w, k)

HandInv == StopInv /\ Typed /\ BridgeInv /\ LinkInv /\ ViewInv /\ StopLines /\ TokenInv

(* What was measured stays so under every step.                            *)
LEMMA SeenStays ==
  ASSUME StopInv, Typed, BridgeInv,
         Evolves(br, actor.act, dev.held, br', actor'.act, dev'.held)
  PROVE  /\ \A e \in Nat : /\ Quiet(br, actor.act, e) => Quiet(br', actor'.act, e)
                           /\ Empty(br, dev.held, e) => Empty(br', dev'.held, e)
         /\ \A st : \A e \in Nat : ViewOK(br, actor.act, dev.held, e, st)
                               => ViewOK(br', actor'.act, dev'.held, e, st)
         /\ \A m \in Lines : CmdOK(br, dev.held, m) => CmdOK(br', dev'.held, m)
         /\ \A c : c.fly \in Acts /\ FlyOK(br, actor.act, dev.held, c)
                   => FlyOK(br', actor'.act, dev'.held, c)
         /\ \A c : \A m \in Lines : MetaOK(br, actor.act, dev.held, c, m)
                               => MetaOK(br', actor'.act, dev'.held, c, m)
         /\ br'.epoch \in Nat /\ br.epoch \in Nat /\ br'.epoch >= br.epoch
<1>1. br.epoch \in Nat /\ br.pend \in Acts /\ actor.act \in Acts
      /\ (br.pend.id # 0 => br.pend.ep + 1 = br.epoch)
  BY DEF StopInv, Typed, BrTyped, BridgeInv
<1>2. \A e \in Nat : /\ Quiet(br, actor.act, e) => Quiet(br', actor'.act, e)
                     /\ Empty(br, dev.held, e) => Empty(br', dev'.held, e)
  BY <1>1, MeasuredStays
<1>3. br'.epoch \in Nat /\ br'.epoch >= br.epoch
  BY DEF Evolves
<1>4. \A m \in Lines : m.ep \in Nat
  BY DEF Lines
<1>5. \A c : c.fly \in Acts => c.fly.ep \in Nat
  BY DEF Acts
<1>6. ASSUME NEW e \in Nat, NEW st, ViewOK(br, actor.act, dev.held, e, st)
      PROVE  ViewOK(br', actor'.act, dev'.held, e, st)
  BY <1>2, <1>6 DEF ViewOK
<1>7. ASSUME NEW m \in Lines, CmdOK(br, dev.held, m) PROVE CmdOK(br', dev'.held, m)
  BY <1>2, <1>4, <1>7 DEF CmdOK
<1>8. ASSUME NEW c, c.fly \in Acts, FlyOK(br, actor.act, dev.held, c)
      PROVE  FlyOK(br', actor'.act, dev'.held, c)
  BY <1>2, <1>5, <1>8 DEF FlyOK
<1>9. ASSUME NEW m \in Lines, NEW c, MetaOK(br, actor.act, dev.held, c, m)
      PROVE  MetaOK(br', actor'.act, dev'.held, c, m)
  <2>1. m.ep <= br'.epoch
    BY <1>1, <1>3, <1>4, <1>9 DEF MetaOK
  <2>2. ViewOK(br', actor'.act, dev'.held, m.ep, m.st)
    BY <1>4, <1>6, <1>9 DEF MetaOK
  <2> QED
    BY <1>9, <2>1, <2>2 DEF MetaOK
<1> QED
  BY <1>1, <1>2, <1>3, <1>6, <1>7, <1>8, <1>9

(* A step of the bridge that touches neither the client nor the lines.     *)
LEMMA InnerKeeps ==
  ASSUME HandInv, cli' = cli, up' = up, down' = down, br'.client = br.client,
         Evolves(br, actor.act, dev.held, br', actor'.act, dev'.held),
         HandsOn(br, actor.act, br', actor'.act, dev.fin, dev'.fin),
         StopInv', Typed', BridgeInv'
  PROVE  HandInv'
<1>0. StopInv /\ Typed /\ BridgeInv /\ LinkInv /\ ViewInv /\ StopLines /\ TokenInv
  BY DEF HandInv
<1>1. /\ \A st : \A e \in Nat : ViewOK(br, actor.act, dev.held, e, st)
                              => ViewOK(br', actor'.act, dev'.held, e, st)
      /\ \A m \in Lines : CmdOK(br, dev.held, m) => CmdOK(br', dev'.held, m)
      /\ \A c : c.fly \in Acts /\ FlyOK(br, actor.act, dev.held, c)
                => FlyOK(br', actor'.act, dev'.held, c)
      /\ \A c : \A m \in Lines : MetaOK(br, actor.act, dev.held, c, m)
                              => MetaOK(br', actor'.act, dev'.held, c, m)
      /\ br'.epoch \in Nat /\ br.epoch \in Nat /\ br'.epoch >= br.epoch
  BY <1>0, SeenStays
<1>2. /\ \A n : Below(up, down, br, actor.act, n) => Below(up, down, br', actor'.act, n)
      /\ \A n, fly, w, k : AllBut(up, down, br, actor.act, dev.fin, fly, n, w, k) =>
           \E w2 : AllBut(up, down, br', actor'.act, dev'.fin, fly, n, w2, k)
  <2>1. br.pend.id # 0 => ~br.acting
    BY <1>0 DEF BridgeInv
  <2> QED
    BY <2>1, PassedOn
<1>3. /\ \A i \in DOMAIN up : up[i] \in Lines /\ up[i].ep \in Nat
      /\ \A i \in DOMAIN down : down[i] \in Lines /\ down[i].ep \in Nat
      /\ cli.fly \in Acts /\ cli.epoch \in Nat /\ cli.stopEp \in Nat
  <2>1. up \in Seq(Lines) /\ down \in Seq(Lines)
        /\ cli.fly \in Acts /\ cli.epoch \in Nat /\ cli.stopEp \in Nat
    BY <1>0 DEF Typed, CliTyped
  <2> QED
    BY <2>1, LinesAre
<1>4. LinkInv'
  BY <1>0 DEF LinkInv, Joined
<1>5. ViewInv'
  <2>1. cli'.epoch <= br'.epoch /\ (cli'.st.meas => cli'.epoch # 0)
    BY <1>0, <1>1, <1>3 DEF ViewInv
  <2>2. /\ ViewOK(br', actor'.act, dev'.held, cli'.epoch, cli'.st)
        /\ FlyOK(br', actor'.act, dev'.held, cli')
    BY <1>0, <1>1, <1>3 DEF ViewInv
  <2>3. \A i \in DOMAIN down' : down'[i].op = "META" =>
          /\ MetaOK(br', actor'.act, dev'.held, cli', down'[i])
          /\ \A k \in DOMAIN down' : down'[k].op = "META" => k = i
    BY <1>0, <1>1, <1>3 DEF ViewInv
  <2>4. \A i \in DOMAIN up' : up'[i].op = "CMD" => CmdOK(br', dev'.held, up'[i])
    BY <1>0, <1>1, <1>3 DEF ViewInv
  <2> QED
    BY <2>1, <2>2, <2>3, <2>4 DEF ViewInv
<1>6. StopLines'
  <2>1. cli'.stopEp # 0 => /\ cli'.waiting /\ cli'.stopEp <= br'.epoch
                           /\ Below(up', down', br', actor'.act, cli'.stopEp)
    BY <1>0, <1>1, <1>2, <1>3 DEF StopLines
  <2>2. \A i \in DOMAIN down : down[i].op = "STOPPING" =>
          down[i].ep <= br'.epoch /\ Below(up, down, br', actor'.act, down[i].ep)
    BY <1>0, <1>1, <1>2, <1>3 DEF StopLines
  <2> QED
    BY <1>0, <2>1, <2>2 DEF StopLines
<1>7. TokenInv'
  <2>1. Below(up', down', br', actor'.act, br'.epoch + 1)
    <3>1. Below(up, down, br', actor'.act, br.epoch + 1)
      BY <1>0, <1>2 DEF TokenInv
    <3>2. BrTyped(br') /\ actor'.act \in Acts
      BY DEF Typed
    <3> QED
      BY <1>1, <1>3, <3>1, <3>2 DEF Below, BrTyped, Acts, Dones
  <2>2. ASSUME Joined(up', br', cli'), cli'.epoch = 0
        PROVE  /\ Below(up', down', br', actor'.act, br'.epoch)
               /\ \A i \in DOMAIN down' : down'[i].op = "META" =>
                    Below(up', down', br', actor'.act, down'[i].ep)
    <3>0. Joined(up, br, cli)
      BY <2>2 DEF Joined
    <3>1. /\ Below(up, down, br', actor'.act, br.epoch)
          /\ \A i \in DOMAIN down : down[i].op = "META" => Below(up, down, br', actor'.act, down[i].ep)
      BY <1>0, <1>2, <2>2, <3>0 DEF TokenInv
    <3>2. BrTyped(br') /\ actor'.act \in Acts
      BY DEF Typed
    <3>3. Below(up', down', br', actor'.act, br'.epoch)
      BY <1>1, <1>3, <3>1, <3>2 DEF Below, BrTyped, Acts, Dones
    <3> QED
      BY <3>1, <3>3
  <2>3. cli'.epoch # 0 /\ cli'.fly.id = 0 /\ ~cli'.waiting
          => Below(up', down', br', actor'.act, cli'.epoch)
    BY <1>0, <1>2 DEF TokenInv
  <2>4. cli'.fly.id # 0 /\ cli'.cmd => Below(up', down', br', actor'.act, cli'.fly.ep)
    BY <1>0, <1>2 DEF TokenInv
  <2>5. cli'.fly.id # 0 /\ ~cli'.cmd =>
          \E w : \E k \in Nat \ {0} :
            AllBut(up', down', br', actor'.act, dev'.fin, cli'.fly, cli'.fly.ep, w, k)
    BY <1>0, <1>2 DEF TokenInv
  <2> QED
    BY <2>1, <2>2, <2>3, <2>4, <2>5 DEF TokenInv
<1> QED
  BY <1>4, <1>5, <1>6, <1>7 DEF HandInv

-----------------------------------------------------------------------------
(* The steps of the bridge's threads.                                      *)

(* The fields of the admission, one by one.                                *)
BrIs(b, epoch, conn, client, pend, acting, stopping, fault, real, news, held, there, done) ==
  /\ b.epoch = epoch /\ (b.conn <=> conn) /\ b.client = client /\ b.pend = pend
  /\ (b.acting <=> acting) /\ (b.stopping <=> stopping) /\ (b.fault <=> fault) /\ (b.real <=> real)
  /\ b.news = news /\ b.held = held /\ b.there = there /\ b.done = done

(* What its helpers make of them.                                          *)
LEMMA HelperFields ==
  ASSUME NEW b, BrShape(b)
  PROVE  /\ BrShape(Voided(b))
         /\ BrIs(Voided(b), b.epoch + 1, b.conn, b.client, NoAct, b.acting, b.stopping, b.fault,
                 b.real, b.news, b.held, b.there, b.done)
         /\ BrShape(StopRequested(b))
         /\ BrIs(StopRequested(b), b.epoch + 1, b.conn, b.client, NoAct, b.acting, TRUE, b.fault,
                 b.real, b.news, b.held, b.there, b.done)
         /\ BrShape(Unsampled(b))
         /\ BrIs(Unsampled(b), b.epoch, b.conn, b.client, b.pend, b.acting, b.stopping, b.fault,
                 FALSE, TRUE, FALSE, 0, b.done)
         /\ BrShape(Sampled(b))
         /\ BrIs(Sampled(b), b.epoch, b.conn, b.client, b.pend, b.acting, b.stopping, b.fault,
                 TRUE, TRUE, dev.held, dev.there, b.done)
<1> DEFINE n == b.epoch + 1
<1>1. ASSUME NEW c, c = Voided(b)
      PROVE  BrShape(c) /\ BrIs(c, b.epoch + 1, b.conn, b.client, NoAct, b.acting, b.stopping, b.fault,
                 b.real, b.news, b.held, b.there, b.done)
  <2>1. c = [b EXCEPT !.pend = NoAct, !.epoch = n] /\ n = b.epoch + 1
    BY <1>1 DEF Voided
  <2> HIDE DEF n
  <2> QED
    BY <2>1 DEF BrShape, BrIs
<1>2. ASSUME NEW c, c = StopRequested(b)
      PROVE  BrShape(c) /\ BrIs(c, b.epoch + 1, b.conn, b.client, NoAct, b.acting, TRUE, b.fault,
                 b.real, b.news, b.held, b.there, b.done)
  <2>1. PICK v : v = Voided(b)
    OBVIOUS
  <2>2. c = [v EXCEPT !.stopping = TRUE, !.retried = FALSE]
    BY <1>2, <2>1 DEF StopRequested
  <2>3. BrShape(v) /\ BrIs(v, b.epoch + 1, b.conn, b.client, NoAct, b.acting, b.stopping, b.fault,
                 b.real, b.news, b.held, b.there, b.done)
    BY <1>1, <2>1
  <2> QED
    BY <2>2, <2>3 DEF BrShape, BrIs
<1>3. ASSUME NEW c, c = Unsampled(b)
      PROVE  BrShape(c) /\ BrIs(c, b.epoch, b.conn, b.client, b.pend, b.acting, b.stopping, b.fault,
                 FALSE, TRUE, FALSE, 0, b.done)
  BY <1>3 DEF Unsampled, BrShape, BrIs
<1>4. ASSUME NEW c, c = Sampled(b)
      PROVE  BrShape(c) /\ BrIs(c, b.epoch, b.conn, b.client, b.pend, b.acting, b.stopping, b.fault,
                 TRUE, TRUE, dev.held, dev.there, b.done)
  BY <1>4 DEF Sampled, BrShape, BrIs
<1> QED
  BY <1>1, <1>2, <1>3, <1>4

(* What a step of the bridge's threads leaves to be shown.                 *)
Within ==
  /\ cli' = cli /\ up' = up /\ down' = down /\ graph' = graph /\ br'.client = br.client
  /\ Evolves(br, actor.act, dev.held, br', actor'.act, dev'.held)
  /\ HandsOn(br, actor.act, br', actor'.act, dev.fin, dev'.fin)
  /\ Typed' /\ BridgeInv'

(* The facts every such step starts from.                                  *)
StopperShape(t) == t = [at |-> t.at, was |-> t.was, same |-> t.same, ok |-> t.ok]
Based ==
  /\ StopInv /\ Typed /\ BridgeInv /\ BrShape(br) /\ br.epoch \in Nat
  /\ DevShape(dev) /\ actor = [at |-> actor.at, act |-> actor.act, ok |-> actor.ok]
  /\ BrTyped(br) /\ actor.act \in Acts /\ dev.there \in Nat /\ StopperShape(stopper)
  /\ NoAct \in Acts /\ NoAct.id = 0 /\ NoAct.kind = "none"

(* The invariant gives them.                                               *)
LEMMA Basis == HandInv => Based
  BY DEF HandInv, StopInv, Typed, NoAct, Acts, Based, StopperShape

(* The action under way and the device go on as they were.                 *)
LEMMA QuietWithin ==
  ASSUME Based, cli' = cli, up' = up, down' = down, graph' = graph,
         br.acting => actor'.act = actor.act, actor'.act \in Acts, actor'.ok = actor.ok,
         actor'.at = actor.at \/ actor'.at # "returned",
         dev'.act = dev.act, dev'.fin = dev.fin, dev'.held => dev.held, dev'.there \in Nat,
         StopperShape(stopper'), stopper'.at # "idle" => br'.stopping /\ ~graph.sim,
         BrTyped(br'), br'.client = br.client, (br'.acting <=> br.acting), br'.done = br.done,
         \/ br'.epoch = br.epoch /\ br'.pend \in {br.pend, NoAct}
         \/ br'.epoch = br.epoch + 1 /\ br'.pend = NoAct,
         br'.epoch = br.epoch /\ Ready(br) => Ready(br'),
         br'.real /\ (~br.acting \/ actor'.at = "taken") /\ dev'.held => br'.held
  PROVE  Within
<1>1. Evolves(br, actor.act, dev.held, br', actor'.act, dev'.held)
  BY DEF Evolves, Based
<1>2. HandsOn(br, actor.act, br', actor'.act, dev.fin, dev'.fin)
  BY DEF HandsOn, Based
<1>3. Typed'
  BY DEF Typed, Based, StopperShape
<1>4. BridgeInv'
  BY DEF BridgeInv, Based
<1> QED
  BY <1>1, <1>2, <1>3, <1>4 DEF Within

(* Sessions come and go; nothing is under way.                             *)
LEMMA SessionWithin ==
  ASSUME HandInv, SessionOpens \/ SessionLostReading
  PROVE  Within
<1>0. Based
  BY Basis
<1>b. BrShape(br) /\ BrTyped(br) /\ StopperShape(stopper) /\ StopInv /\ BridgeInv /\ NoAct \in Acts
      /\ DevShape(dev) /\ actor = [at |-> actor.at, act |-> actor.act, ok |-> actor.ok] /\ dev.there \in Nat
      /\ br.epoch \in Nat /\ actor.act \in Acts
  BY <1>0 DEF Based
<1>1. CASE SessionOpens
  <2>1. /\ cli' = cli /\ up' = up /\ down' = down /\ graph' = graph /\ dev' = dev
        /\ ~graph.sim /\ actor.at = "away" /\ ~br.stopping
        /\ actor'.at = "idle" /\ actor'.act = actor.act /\ actor'.ok = actor.ok
    BY <1>1, <1>b DEF SessionOpens, ActorAt, Real
  <2>2. stopper.at = "idle" /\ ~br.acting
    BY <1>b, <2>1 DEF StopInv, BridgeInv
  <2>3. stopper'.at = stopper.at /\ StopperShape(stopper')
    BY <1>1, <1>b DEF SessionOpens, Outdated, StopperShape
  <2>4. \/ BrIs(br', br.epoch + 1, TRUE, br.client, NoAct, br.acting, TRUE, br.fault,
                br.real, br.news, br.held, br.there, br.done)
        \/ BrIs(br', br.epoch, TRUE, br.client, br.pend, br.acting, br.stopping, br.fault,
                br.real, br.news, br.held, br.there, br.done)
    <3>1. CASE br' = [StopRequested(br) EXCEPT !.conn = TRUE]
      <4>1. PICK v : v = StopRequested(br)
        OBVIOUS
      <4>2. BrShape(v) /\ BrIs(v, br.epoch + 1, br.conn, br.client, NoAct, br.acting, TRUE, br.fault,
                   br.real, br.news, br.held, br.there, br.done)
        BY <1>b, <4>1, HelperFields
      <4>3. br' = [v EXCEPT !.conn = TRUE]
        BY <3>1, <4>1
      <4> QED
        BY <4>2, <4>3 DEF BrShape, BrIs
    <3>2. CASE br' = [br EXCEPT !.conn = TRUE]
      BY <1>b, <3>2 DEF BrShape, BrIs
    <3> QED
      BY <1>1, <3>1, <3>2 DEF SessionOpens
  <2>5. /\ BrTyped(br') /\ br'.client = br.client /\ (br'.acting <=> br.acting) /\ br'.done = br.done
        /\ \/ br'.epoch = br.epoch /\ br'.pend \in {br.pend, NoAct}
           \/ br'.epoch = br.epoch + 1 /\ br'.pend = NoAct
        /\ (br'.real <=> br.real) /\ br'.held = br.held
    BY <1>b, <2>4 DEF BrTyped, BrIs
  <2>6. br'.epoch = br.epoch /\ Ready(br) => Ready(br')
    BY <1>b, <2>4 DEF Ready, BrIs
  <2>7. br'.real /\ (~br.acting \/ actor'.at = "taken") /\ dev'.held => br'.held
    BY <1>b, <2>1, <2>5 DEF BridgeInv
  <2> QED
    BY <1>0, <1>b, <2>1, <2>2, <2>3, <2>5, <2>6, <2>7, QuietWithin
<1>2. CASE SessionLostReading
  <2>1. /\ cli' = cli /\ up' = up /\ down' = down /\ graph' = graph /\ dev' = dev /\ stopper' = stopper
        /\ ~graph.sim /\ actor.at = "idle" /\ br' = [Unsampled(Voided(br)) EXCEPT !.conn = FALSE]
        /\ actor'.at = "away" /\ actor'.act = actor.act /\ actor'.ok = actor.ok
    BY <1>2, <1>b DEF SessionLostReading, ActorAt, Real
  <2>2. PICK v : v = Voided(br)
    OBVIOUS
  <2>3. BrShape(v) /\ BrIs(v, br.epoch + 1, br.conn, br.client, NoAct, br.acting, br.stopping, br.fault,
                           br.real, br.news, br.held, br.there, br.done)
    BY <1>b, <2>2, HelperFields
  <2>4. PICK u : u = Unsampled(v)
    OBVIOUS
  <2>5. BrShape(u) /\ BrIs(u, v.epoch, v.conn, v.client, v.pend, v.acting, v.stopping, v.fault,
                           FALSE, TRUE, FALSE, 0, v.done)
    BY <2>3, <2>4, HelperFields
  <2>6. br' = [u EXCEPT !.conn = FALSE]
    BY <2>1, <2>2, <2>4
  <2>7. BrIs(br', br.epoch + 1, FALSE, br.client, NoAct, br.acting, br.stopping, br.fault,
             FALSE, TRUE, FALSE, 0, br.done)
    BY <2>3, <2>5, <2>6 DEF BrShape, BrIs
  <2>8. /\ BrTyped(br') /\ br'.client = br.client /\ (br'.acting <=> br.acting) /\ br'.done = br.done
        /\ br'.epoch = br.epoch + 1 /\ br'.pend = NoAct /\ ~br'.real
    <3>1. /\ br'.there = 0 /\ br'.news = TRUE /\ br'.pend = NoAct /\ br'.done = br.done
          /\ br'.client = br.client /\ br'.epoch = br.epoch + 1
      BY <2>7 DEF BrIs
    <3>2. ~br'.real /\ (br'.acting <=> br.acting)
      BY <2>7 DEF BrIs
    <3>3. br'.news \in BOOLEAN
      BY <3>1
    <3>4. BrTyped(br')
      BY <1>b, <3>1, <3>3 DEF BrTyped
    <3> QED
      BY <3>1, <3>2, <3>4
  <2>9. StopperShape(stopper') /\ (stopper'.at # "idle" => br'.stopping /\ ~graph.sim)
    <3>1. (br'.stopping <=> br.stopping) /\ stopper' = stopper
      BY <2>1, <2>7 DEF BrIs
    <3>2. StopperShape(stopper) /\ (stopper.at # "idle" => br.stopping /\ ~graph.sim)
      BY <1>b DEF BridgeInv
    <3> QED
      BY <3>1, <3>2
  <2>10. ~(br'.epoch = br.epoch)
    BY <1>b, <2>8
  <2> QED
    BY <1>0, <1>b, <2>1, <2>8, <2>9, <2>10, QuietWithin
<1> QED
  BY <1>1, <1>2

(* Samples, the stopper's call, and an object that drops.                  *)
LEMMA WatchWithin ==
  ASSUME HandInv, Reads \/ StopBegins \/ StopFinishes \/ ObjectDrops
  PROVE  Within
<1>0. Based
  BY Basis
<1>b. BrShape(br) /\ BrTyped(br) /\ StopperShape(stopper) /\ StopInv /\ BridgeInv /\ NoAct \in Acts
      /\ DevShape(dev) /\ dev.there \in Nat /\ br.epoch \in Nat /\ actor.act \in Acts
  BY <1>0 DEF Based
<1>1. CASE Reads
  <2>1. /\ cli' = cli /\ up' = up /\ down' = down /\ graph' = graph /\ dev' = dev /\ stopper' = stopper
        /\ actor' = actor /\ ~br.stopping
    BY <1>1 DEF Reads
  <2>2. PICK u : u = Sampled(br)
    OBVIOUS
  <2>3. BrShape(u) /\ BrIs(u, br.epoch, br.conn, br.client, br.pend, br.acting, br.stopping, br.fault,
                           TRUE, TRUE, dev.held, dev.there, br.done)
    BY <1>b, <2>2, HelperFields
  <2>4. br' = u \/ br' = [u EXCEPT !.fault = FALSE, !.retried = FALSE]
    BY <1>1, <2>2 DEF Reads
  <2>5. /\ BrIs(br', br.epoch, br.conn, br.client, br.pend, br.acting, br.stopping, br'.fault,
                TRUE, TRUE, dev.held, dev.there, br.done)
        /\ br.fault \/ ~br'.fault
    BY <2>3, <2>4 DEF BrShape, BrIs
  <2>6. /\ BrTyped(br') /\ br'.client = br.client /\ (br'.acting <=> br.acting) /\ br'.done = br.done
        /\ br'.epoch = br.epoch /\ br'.pend = br.pend
        /\ (dev'.held => br'.held)
    BY <1>b, <2>1, <2>5 DEF BrTyped, BrIs
  <2>7. Ready(br) => Ready(br')
    BY <2>5 DEF Ready, BrIs
  <2>8. StopperShape(stopper') /\ (stopper'.at # "idle" => br'.stopping /\ ~graph.sim)
    BY <1>b, <2>1, <2>5 DEF BridgeInv, BrIs
  <2> QED
    BY <1>0, <1>b, <2>1, <2>6, <2>7, <2>8, QuietWithin
<1>2. CASE StopBegins
  <2>1. /\ cli' = cli /\ up' = up /\ down' = down /\ graph' = graph /\ dev' = dev /\ br' = br
        /\ actor' = actor /\ br.stopping /\ ~graph.sim
        /\ stopper' = [at |-> "calling", was |-> br.acting, same |-> TRUE, ok |-> br.conn]
    BY <1>2 DEF StopBegins, Real
  <2>2. StopperShape(stopper') /\ (stopper'.at # "idle" => br'.stopping /\ ~graph.sim)
    BY <2>1 DEF StopperShape
  <2>3. br'.real /\ (~br.acting \/ actor'.at = "taken") /\ dev'.held => br'.held
    BY <1>b, <2>1 DEF BridgeInv
  <2>4. Ready(br) => Ready(br')
    BY <2>1
  <2>5. dev'.act = dev.act /\ dev'.fin = dev.fin /\ (dev'.held => dev.held) /\ dev'.there \in Nat
        /\ BrTyped(br') /\ br'.client = br.client /\ (br'.acting <=> br.acting) /\ br'.done = br.done
        /\ br'.epoch = br.epoch /\ br'.pend = br.pend
    BY <1>b, <2>1
  <2> QED
    BY <1>0, <1>b, <2>1, <2>2, <2>3, <2>4, <2>5, QuietWithin
<1>3. CASE StopFinishes
  <2>1. /\ cli' = cli /\ up' = up /\ down' = down /\ graph' = graph /\ dev' = dev /\ actor' = actor
        /\ stopper.at = "called"
        /\ stopper' = [stopper EXCEPT !.at = "idle", !.was = FALSE, !.same = FALSE, !.ok = FALSE]
    BY <1>3 DEF StopFinishes
  <2>2. StopperShape(stopper') /\ stopper'.at = "idle" /\ br.stopping
    BY <1>b, <2>1 DEF StopperShape, BridgeInv
  <2>3. PICK u : u = Unsampled(br)
    OBVIOUS
  <2>4. BrShape(u) /\ BrIs(u, br.epoch, br.conn, br.client, br.pend, br.acting, br.stopping, br.fault,
                           FALSE, TRUE, FALSE, 0, br.done)
    BY <1>b, <2>3, HelperFields
  <2> DEFINE g == stopper.ok /\ br.fault
             h == u.fault \/ ~stopper.ok
  <2>5. br' = u \/ br' = [u EXCEPT !.stopping = FALSE, !.fault = h, !.retried = g]
    BY <1>3, <2>3 DEF StopFinishes
  <2> HIDE DEF g, h
  <2>6. /\ BrTyped(br') /\ br'.client = br.client /\ (br'.acting <=> br.acting) /\ br'.done = br.done
        /\ br'.epoch = br.epoch /\ br'.pend = br.pend /\ ~br'.real
    <3>1. /\ br'.client = u.client /\ (br'.acting <=> u.acting) /\ br'.done = u.done
          /\ br'.epoch = u.epoch /\ br'.pend = u.pend /\ (br'.real <=> u.real)
          /\ br'.there = u.there /\ br'.news = u.news
      BY <2>4, <2>5 DEF BrShape
    <3>2. /\ u.client = br.client /\ u.done = br.done /\ u.epoch = br.epoch /\ u.pend = br.pend
          /\ u.there = 0 /\ u.news = TRUE
      BY <2>4 DEF BrIs
    <3>3. (u.acting <=> br.acting) /\ ~u.real
      BY <2>4 DEF BrIs
    <3>4. br'.news \in BOOLEAN
      BY <3>1, <3>2
    <3>5. BrTyped(br')
      BY <1>b, <3>1, <3>2, <3>4 DEF BrTyped
    <3> QED
      BY <3>1, <3>2, <3>3, <3>5
  <2>7. ~Ready(br)
    BY <2>2 DEF Ready
  <2> QED
    BY <1>0, <1>b, <2>1, <2>2, <2>6, <2>7, QuietWithin
<1>4. CASE ObjectDrops
  <2>1. /\ cli' = cli /\ up' = up /\ down' = down /\ graph' = graph /\ br' = br /\ actor' = actor
        /\ stopper' = stopper /\ dev' = [dev EXCEPT !.held = FALSE]
    BY <1>4 DEF ObjectDrops
  <2>2. dev'.act = dev.act /\ dev'.fin = dev.fin /\ ~dev'.held /\ dev'.there \in Nat
    BY <1>b, <2>1 DEF DevShape
  <2>3. StopperShape(stopper') /\ (stopper'.at # "idle" => br'.stopping /\ ~graph.sim)
    BY <1>b, <2>1 DEF BridgeInv
  <2>4. Ready(br) => Ready(br')
    BY <2>1
  <2>5. BrTyped(br') /\ br'.client = br.client /\ (br'.acting <=> br.acting) /\ br'.done = br.done
        /\ br'.epoch = br.epoch /\ br'.pend = br.pend
    BY <1>b, <2>1
  <2> QED
    BY <1>0, <1>b, <2>1, <2>2, <2>3, <2>4, <2>5, QuietWithin
<1> QED
  BY <1>1, <1>2, <1>3, <1>4

(* The device changes, the admission does not.                             *)
LEMMA DeviceWithin ==
  ASSUME Based, cli' = cli, up' = up, down' = down, graph' = graph, br' = br,
         actor'.act = actor.act, actor'.ok \in BOOLEAN, dev.fin \subseteq dev'.fin, dev'.there \in Nat,
         br.acting /\ actor'.at = "returned" /\ actor'.ok => actor.act.id \in dev'.fin,
         dev'.held => dev.held \/ (br.acting /\ actor.act.kind # "move"),
         br.real /\ (~br.acting \/ actor'.at = "taken") /\ dev'.held => br.held,
         dev'.act.id = 0 => dev'.act = NoAct,
         StopperShape(stopper'), stopper'.at # "idle" => br.stopping /\ ~graph.sim
  PROVE  Within
<1>0. StopInv /\ Typed /\ BridgeInv /\ BrTyped(br) /\ actor.act \in Acts /\ br.epoch \in Nat
  BY DEF Based
<1>1. Evolves(br, actor.act, dev.held, br', actor'.act, dev'.held)
  BY <1>0 DEF Evolves
<1>2. HandsOn(br, actor.act, br', actor'.act, dev.fin, dev'.fin)
  BY <1>0 DEF HandsOn
<1>3. Typed'
  BY <1>0 DEF Typed, StopperShape
<1>4. BridgeInv'
  BY <1>0 DEF BridgeInv
<1> QED
  BY <1>1, <1>2, <1>3, <1>4 DEF Within

(* What ends in the device.                                                *)
LEMMA OutFields ==
  ASSUME NEW e, DevShape(e), NEW a \in Acts, NEW ok \in BOOLEAN
  PROVE  /\ OutOf(e, a, ok).act = NoAct /\ OutOf(e, a, ok).there \in Nat
         /\ OutOf(e, a, ok).held => ok /\ a.kind = "close"
         /\ e.fin \subseteq OutOf(e, a, ok).fin /\ (ok => a.id \in OutOf(e, a, ok).fin)
<1>0. PICK d : d = OutOf(e, a, ok)
  OBVIOUS
<1> DEFINE h == ok /\ a.kind = "close"
           t == IF ok /\ a.kind # "close" THEN a.id ELSE 0
           f == IF ok THEN e.fin \cup {a.id} ELSE e.fin
<1>1. d = [e EXCEPT !.act = NoAct, !.held = h, !.there = t, !.fin = f]
  BY <1>0 DEF OutOf
<1>2. t \in Nat /\ e.fin \subseteq f /\ (ok => a.id \in f) /\ (h => ok /\ a.kind = "close")
  BY DEF Acts
<1> HIDE DEF h, t, f
<1>3. d.act = NoAct /\ d.held = h /\ d.there = t /\ d.fin = f
  BY <1>1 DEF DevShape
<1> QED
  BY <1>0, <1>2, <1>3

(* The device's own steps, and the stop call that reaches it.              *)
LEMMA CallWithin ==
  ASSUME HandInv, Enters \/ ActionEnds \/ StopCalls
  PROVE  Within
<1>0. Based
  BY Basis
<1>b. BrShape(br) /\ BrTyped(br) /\ StopperShape(stopper) /\ StopInv /\ BridgeInv /\ NoAct \in Acts
      /\ DevShape(dev) /\ dev.there \in Nat /\ br.epoch \in Nat /\ NoAct.id = 0
      /\ actor = [at |-> actor.at, act |-> actor.act, ok |-> actor.ok] /\ actor.act \in Acts
      /\ actor.ok \in BOOLEAN
  BY <1>0 DEF Based, Typed
<1>1. CASE Enters
  <2>1. /\ cli' = cli /\ up' = up /\ down' = down /\ graph' = graph /\ br' = br
        /\ stopper' = stopper /\ dev' = Into(dev, actor.act) /\ ~graph.sim /\ actor.at = "begun"
        /\ actor' = [actor EXCEPT !.at = "inside"]
    BY <1>1 DEF Enters, ActorAt, Real
  <2>2. dev'.act = actor.act /\ ~dev'.held /\ dev'.there = 0 /\ dev'.fin = dev.fin
    BY <1>b, <2>1 DEF Into, DevShape
  <2>3. actor'.act = actor.act /\ actor'.at = "inside" /\ actor'.ok \in BOOLEAN
    BY <1>b, <2>1
  <2>4. actor.act.id # 0
    BY <1>b, <2>1 DEF StopInv, BridgeInv
  <2>5. stopper'.at # "idle" => br.stopping /\ ~graph.sim
    BY <1>b, <2>1 DEF BridgeInv
  <2> QED
    BY <1>0, <1>b, <2>1, <2>2, <2>3, <2>4, <2>5, DeviceWithin
<1>2. CASE ActionEnds
  <2>1. /\ cli' = cli /\ up' = up /\ down' = down /\ graph' = graph /\ br' = br /\ stopper' = stopper
        /\ ~graph.sim /\ actor.at = "inside"
    BY <1>2 DEF ActionEnds, ActorAt, Real
  <2>2. PICK ok \in BOOLEAN : /\ dev' = OutOf(dev, actor.act, ok)
                             /\ actor' = [actor EXCEPT !.at = "returned", !.ok = ok]
    BY <1>2 DEF ActionEnds
  <2>3. /\ dev'.act = NoAct /\ dev'.there \in Nat /\ (dev'.held => ok /\ actor.act.kind = "close")
        /\ dev.fin \subseteq dev'.fin /\ (ok => actor.act.id \in dev'.fin)
    BY <1>b, <2>2, OutFields
  <2>4. actor'.act = actor.act /\ actor'.ok = ok
    BY <1>b, <2>2
  <2>5. br.acting /\ (dev'.held => actor.act.kind # "move")
    BY <1>b, <2>1, <2>3 DEF StopInv
  <2>6. stopper'.at # "idle" => br.stopping /\ ~graph.sim
    BY <1>b, <2>1 DEF BridgeInv
  <2>7. actor'.at = "returned" /\ (br.acting /\ actor'.ok => actor.act.id \in dev'.fin)
    BY <1>b, <2>2, <2>3, <2>4
  <2> QED
    BY <1>0, <1>b, <2>1, <2>3, <2>4, <2>5, <2>6, <2>7, DeviceWithin
<1>3. CASE StopCalls
  <2>1. /\ cli' = cli /\ up' = up /\ down' = down /\ graph' = graph /\ br' = br
        /\ stopper.at = "calling"
    BY <1>3 DEF StopCalls
  <2>2. br.stopping /\ ~graph.sim
    BY <1>b, <2>1 DEF BridgeInv
  <2>3. CASE \E ok \in BOOLEAN : stopper' = [stopper EXCEPT !.at = "called", !.ok = ok]
                                /\ dev' = dev /\ actor' = actor
    <3>1. StopperShape(stopper')
      BY <1>b, <2>3 DEF StopperShape
    <3>2. /\ br.acting /\ actor'.at = "returned" /\ actor'.ok => actor.act.id \in dev'.fin
          /\ dev'.act.id = 0 => dev'.act = NoAct
          /\ br.real /\ (~br.acting \/ actor'.at = "taken") /\ dev'.held => br.held
          /\ dev'.held => dev.held
          /\ dev.fin \subseteq dev'.fin
      BY <1>b, <2>3 DEF BridgeInv
    <3> QED
      BY <1>0, <1>b, <2>1, <2>2, <2>3, <3>1, <3>2, DeviceWithin
  <2>4. CASE /\ stopper' = [stopper EXCEPT !.at = "called", !.ok = TRUE]
             /\ dev' = [dev EXCEPT !.act = NoAct, !.held = FALSE,
                                   !.there = IF dev.act.id # 0 THEN 0 ELSE @]
             /\ actor' = IF actor.at = "inside" THEN [actor EXCEPT !.at = "returned", !.ok = FALSE]
                         ELSE actor
    <3> DEFINE t == IF dev.act.id # 0 THEN 0 ELSE dev.there
    <3>1. dev' = [dev EXCEPT !.act = NoAct, !.held = FALSE, !.there = t]
      BY <2>4
    <3>2. t \in Nat
      BY <1>b
    <3> HIDE DEF t
    <3>3. dev'.act = NoAct /\ ~dev'.held /\ dev'.there \in Nat /\ dev'.fin = dev.fin
      BY <1>b, <3>1, <3>2 DEF DevShape
    <3>4. StopperShape(stopper')
      BY <1>b, <2>4 DEF StopperShape
    <3>5. actor'.act = actor.act /\ actor'.ok \in BOOLEAN /\ (actor' = actor \/ ~actor'.ok)
      BY <1>b, <2>4
    <3>6. br.acting /\ actor'.at = "returned" /\ actor'.ok => actor.act.id \in dev'.fin
      BY <1>b, <3>3, <3>5 DEF BridgeInv
    <3> QED
      BY <1>0, <2>1, <2>2, <3>3, <3>4, <3>5, <3>6, DeviceWithin
  <2> QED
    BY <1>3, <2>3, <2>4 DEF StopCalls
<1> QED
  BY <1>1, <1>2, <1>3

(* What is pending is taken.                                               *)
LEMMA TakeWithin ==
  ASSUME Based, cli' = cli, up' = up, down' = down, graph' = graph, stopper' = stopper,
         br.pend.id # 0, actor'.act = br.pend, actor'.at # "returned", actor'.ok \in BOOLEAN,
         dev'.fin = dev.fin, dev'.held => dev.held, dev'.there \in Nat, dev'.act.id = 0 => dev'.act = NoAct,
         br'.acting, br'.pend = NoAct, br'.epoch = br.epoch, br'.client = br.client,
         br'.done = br.done, br'.stopping <=> br.stopping, BrTyped(br'),
         br'.real /\ dev'.held => br.real /\ br'.held = br.held
  PROVE  Within
<1>0. /\ StopInv /\ Typed /\ BridgeInv /\ BrTyped(br) /\ actor.act \in Acts /\ br.epoch \in Nat
      /\ NoAct.id = 0 /\ ~br.acting /\ br.pend \in Acts
  BY DEF Based, BridgeInv, BrTyped
<1>1. Evolves(br, actor.act, dev.held, br', actor'.act, dev'.held)
  BY <1>0 DEF Evolves, Ready
<1>2. HandsOn(br, actor.act, br', actor'.act, dev.fin, dev'.fin)
  BY <1>0 DEF HandsOn
<1>3. Typed'
  BY <1>0 DEF Typed
<1>4. BridgeInv'
  BY <1>0 DEF BridgeInv
<1> QED
  BY <1>1, <1>2, <1>3, <1>4 DEF Within

(* What was under way is over.                                             *)
LEMMA OverWithin ==
  ASSUME Based, cli' = cli, up' = up, down' = down, graph' = graph, stopper' = stopper,
         br.acting, actor'.act = NoAct, actor'.ok \in BOOLEAN,
         dev.fin \subseteq dev'.fin, dev'.there \in Nat, dev'.act.id = 0 => dev'.act = NoAct,
         ~br'.acting, br'.client = br.client, BrTyped(br'), stopper.at # "idle" => br'.stopping,
         \/ br'.epoch = br.epoch /\ br'.pend = br.pend
         \/ br'.epoch = br.epoch + 1 /\ br'.pend = NoAct,
         \/ br'.done = br.done
         \/ br'.done.ep = actor.act.ep /\ (br'.done.ok => actor.act.id \in dev'.fin),
         br'.real => (dev'.held => br'.held)
  PROVE  Within
<1>0. /\ StopInv /\ Typed /\ BridgeInv /\ BrTyped(br) /\ actor.act \in Acts /\ br.epoch \in Nat
      /\ NoAct.id = 0 /\ br.pend.id = 0 /\ NoAct \in Acts
  BY DEF Based, BridgeInv, BrTyped
<1>1. Evolves(br, actor.act, dev.held, br', actor'.act, dev'.held)
  BY <1>0 DEF Evolves, Ready
<1>2. HandsOn(br, actor.act, br', actor'.act, dev.fin, dev'.fin)
  BY <1>0 DEF HandsOn
<1>3. Typed'
  BY <1>0 DEF Typed
<1>4. BridgeInv'
  BY <1>0 DEF BridgeInv
<1> QED
  BY <1>1, <1>2, <1>3, <1>4 DEF Within

(* The fields once the call is over.                                       *)
LEMMA OverFields ==
  ASSUME NEW b, BrShape(b), BrTyped(b), NEW a \in Acts, NEW ok \in BOOLEAN
  PROVE  /\ ~Over(b, a, ok).acting /\ ~Over(b, a, ok).real
         /\ (Over(b, a, ok).stopping <=> b.stopping)
         /\ Over(b, a, ok).epoch = b.epoch /\ Over(b, a, ok).pend = b.pend
         /\ Over(b, a, ok).client = b.client /\ BrTyped(Over(b, a, ok))
         /\ \/ Over(b, a, ok).done = b.done
            \/ Over(b, a, ok).done.ep = a.ep /\ (Over(b, a, ok).done.ok <=> ok)
<1>0. PICK c : c = Over(b, a, ok)
  OBVIOUS
<1>1. PICK u : u = Unsampled(b)
  OBVIOUS
<1>2. BrShape(u) /\ BrIs(u, b.epoch, b.conn, b.client, b.pend, b.acting, b.stopping, b.fault,
                         FALSE, TRUE, FALSE, 0, b.done)
  BY <1>1, HelperFields
<1>3. PICK v : v = [u EXCEPT !.acting = FALSE, !.committed = FALSE]
  OBVIOUS
<1>4. BrShape(v) /\ BrIs(v, b.epoch, b.conn, b.client, b.pend, FALSE, b.stopping, b.fault,
                         FALSE, TRUE, FALSE, 0, b.done)
  BY <1>2, <1>3 DEF BrShape, BrIs
<1> DEFINE d == [some |-> TRUE, ep |-> a.ep, ok |-> ok]
<1>5. c = v \/ c = [v EXCEPT !.done = d]
  BY <1>0, <1>1, <1>3 DEF Reported, Over
<1>6. d \in Dones /\ d.ep = a.ep /\ (d.ok <=> ok)
  BY DEF Dones, Acts
<1> HIDE DEF d
<1>7. /\ c.epoch = v.epoch /\ c.pend = v.pend /\ c.client = v.client /\ c.news = v.news
      /\ c.there = v.there /\ (c.acting <=> v.acting) /\ (c.real <=> v.real)
      /\ (c.stopping <=> v.stopping) /\ (c.done = v.done \/ c.done = d)
  BY <1>4, <1>5 DEF BrShape
<1>8. /\ v.epoch = b.epoch /\ v.pend = b.pend /\ v.client = b.client /\ v.news = TRUE
      /\ v.there = 0 /\ v.done = b.done
  BY <1>4 DEF BrIs
<1>9. ~v.acting /\ ~v.real /\ (v.stopping <=> b.stopping)
  BY <1>4 DEF BrIs
<1>10. c.news \in BOOLEAN
  BY <1>7, <1>8
<1>11. BrTyped(c)
  BY <1>6, <1>7, <1>8, <1>10 DEF BrTyped
<1> QED
  BY <1>0, <1>6, <1>7, <1>8, <1>9, <1>11

(* The actor.                                                              *)
LEMMA ActorWithin ==
  ASSUME HandInv, Takes \/ Begins \/ Returns \/ SessionLostActing
  PROVE  Within
<1>0. Based
  BY Basis
<1>b. BrShape(br) /\ BrTyped(br) /\ StopperShape(stopper) /\ StopInv /\ BridgeInv /\ NoAct \in Acts
      /\ DevShape(dev) /\ dev.there \in Nat /\ br.epoch \in Nat /\ NoAct.id = 0
      /\ actor = [at |-> actor.at, act |-> actor.act, ok |-> actor.ok] /\ actor.act \in Acts
      /\ actor.ok \in BOOLEAN
  BY <1>0 DEF Based, Typed
<1>s. stopper.at # "idle" => br.stopping /\ ~graph.sim
  BY <1>b DEF BridgeInv
<1>1. CASE Takes
  <2>1. /\ cli' = cli /\ up' = up /\ down' = down /\ graph' = graph /\ dev' = dev /\ stopper' = stopper
        /\ br.pend.id # 0 /\ br.conn /\ br.client /\ ~br.acting
    BY <1>1 DEF Takes
  <2>2. Current(br, br.pend)
    BY <1>b, <2>1 DEF BridgeInv, Current
  <2>3. /\ br' = [br EXCEPT !.pend = NoAct, !.acting = Current(br, br.pend), !.committed = FALSE]
        /\ actor' = [at |-> "taken", act |-> br.pend, ok |-> FALSE]
    BY <1>1, <2>2 DEF Takes
  <2> DEFINE cur == Current(br, br.pend)
  <2>4. cur /\ br' = [br EXCEPT !.pend = NoAct, !.acting = cur, !.committed = FALSE]
    BY <2>2, <2>3
  <2> HIDE DEF cur
  <2>5. /\ br'.pend = NoAct /\ br'.epoch = br.epoch /\ br'.client = br.client /\ br'.done = br.done
        /\ (br'.stopping <=> br.stopping) /\ br'.held = br.held /\ (br'.real <=> br.real)
        /\ br'.there = br.there /\ br'.news = br.news
    BY <1>b, <2>4 DEF BrShape
  <2>6. br'.acting
    BY <1>b, <2>4 DEF BrShape
  <2>7. BrTyped(br')
    BY <1>b, <2>5 DEF BrTyped
  <2>8. dev'.act.id = 0 => dev'.act = NoAct
    BY <1>b, <2>1 DEF BridgeInv
  <2>9. actor'.act = br.pend /\ actor'.at # "returned" /\ actor'.ok \in BOOLEAN
    BY <2>3
  <2> QED
    BY <1>0, <1>b, <2>1, <2>5, <2>6, <2>7, <2>8, <2>9, TakeWithin
<1>2. CASE Begins
  <2>1. /\ cli' = cli /\ up' = up /\ down' = down /\ graph' = graph /\ dev' = dev /\ stopper' = stopper
        /\ ~graph.sim /\ actor.at = "taken"
    BY <1>2 DEF Begins, ActorAt, Real
  <2>2. br.acting /\ (dev.act.id = 0 => dev.act = NoAct)
    BY <1>b, <2>1 DEF StopInv, BridgeInv
  <2>3. CASE Current(br, actor.act)
    <3>1. br' = [br EXCEPT !.committed = TRUE] /\ actor' = [actor EXCEPT !.at = "begun"]
      BY <1>2, <2>3 DEF Begins
    <3>2. /\ br'.pend = br.pend /\ br'.epoch = br.epoch /\ br'.client = br.client /\ br'.done = br.done
          /\ (br'.stopping <=> br.stopping) /\ br'.held = br.held /\ (br'.real <=> br.real)
          /\ br'.there = br.there /\ br'.news = br.news /\ (br'.acting <=> br.acting)
      BY <1>b, <3>1 DEF BrShape
    <3>3. actor'.at = "begun" /\ actor'.act = actor.act /\ actor'.ok = actor.ok
      BY <1>b, <3>1
    <3>4. BrTyped(br') /\ ~Ready(br)
      BY <1>b, <2>2, <3>2 DEF BrTyped, Ready
    <3>5. StopperShape(stopper') /\ (stopper'.at # "idle" => br'.stopping /\ ~graph.sim)
      BY <1>b, <1>s, <2>1, <3>2
    <3> QED
      BY <1>0, <1>b, <2>1, <2>2, <3>2, <3>3, <3>4, <3>5, QuietWithin
  <2>4. CASE ~Current(br, actor.act)
    <3>1. /\ br' = [br EXCEPT !.acting = FALSE, !.committed = FALSE]
          /\ actor' = [actor EXCEPT !.at = "idle", !.act = NoAct]
      BY <1>2, <2>4 DEF Begins
    <3>2. /\ br'.pend = br.pend /\ br'.epoch = br.epoch /\ br'.client = br.client /\ br'.done = br.done
          /\ (br'.stopping <=> br.stopping) /\ br'.held = br.held /\ (br'.real <=> br.real)
          /\ br'.there = br.there /\ br'.news = br.news /\ ~br'.acting
      BY <1>b, <3>1 DEF BrShape
    <3>3. actor'.act = NoAct /\ actor'.ok = actor.ok
      BY <1>b, <3>1
    <3>4. BrTyped(br')
      BY <1>b, <3>2 DEF BrTyped
    <3>5. br'.real => (dev'.held => br'.held)
      BY <1>b, <2>1, <3>2 DEF BridgeInv
    <3> QED
      BY <1>0, <1>b, <1>s, <2>1, <2>2, <3>2, <3>3, <3>4, <3>5, OverWithin
  <2> QED
    BY <2>3, <2>4
<1>3. CASE Returns
  <2>1. /\ cli' = cli /\ up' = up /\ down' = down /\ graph' = graph /\ dev' = dev /\ stopper' = stopper
        /\ ~graph.sim /\ actor.at = "returned" /\ actor' = [at |-> "idle", act |-> NoAct, ok |-> FALSE]
        /\ br' = Over(br, actor.act, actor.ok)
    BY <1>3 DEF Returns, ActorAt, Real, Over
  <2>2. /\ br.acting /\ (dev.act.id = 0 => dev.act = NoAct)
        /\ (actor.ok => actor.act.id \in dev.fin)
    BY <1>b, <2>1 DEF StopInv, BridgeInv
  <2>3. PICK a \in Acts : a = actor.act
    BY <1>b
  <2>4. PICK ok \in BOOLEAN : ok = actor.ok
    BY <1>b
  <2>5. /\ ~br'.acting /\ ~br'.real /\ (br'.stopping <=> br.stopping) /\ br'.epoch = br.epoch
        /\ br'.pend = br.pend /\ br'.client = br.client /\ BrTyped(br')
        /\ (br'.done = br.done \/ (br'.done.ep = a.ep /\ (br'.done.ok <=> ok)))
    <3>1. br' = Over(br, a, ok)
      BY <2>1, <2>3, <2>4
    <3> QED
      BY <1>b, <3>1, OverFields
  <2>6. actor'.act = NoAct /\ actor'.ok \in BOOLEAN
    BY <2>1
  <2>7. \/ br'.done = br.done
        \/ br'.done.ep = actor.act.ep /\ (br'.done.ok => actor.act.id \in dev'.fin)
    BY <2>1, <2>2, <2>3, <2>4, <2>5
  <2> QED
    BY <1>0, <1>b, <1>s, <2>1, <2>2, <2>5, <2>6, <2>7, OverWithin
<1>4. CASE SessionLostActing
  <2>1. /\ cli' = cli /\ up' = up /\ down' = down /\ graph' = graph /\ stopper' = stopper
        /\ ~graph.sim /\ actor.at \in {"begun", "inside"}
        /\ actor' = [at |-> "away", act |-> NoAct, ok |-> FALSE]
        /\ dev' = OutOf(dev, actor.act, FALSE)
        /\ br' = [Unsampled(Voided(br)) EXCEPT !.acting = FALSE, !.committed = FALSE, !.conn = FALSE]
    BY <1>4 DEF SessionLostActing, ActorAt, Real
  <2>2. br.acting
    BY <1>b, <2>1 DEF StopInv
  <2>3. PICK v : v = Voided(br)
    OBVIOUS
  <2>4. BrShape(v) /\ BrIs(v, br.epoch + 1, br.conn, br.client, NoAct, br.acting, br.stopping, br.fault,
                           br.real, br.news, br.held, br.there, br.done)
    BY <1>b, <2>3, HelperFields
  <2>5. PICK u : u = Unsampled(v)
    OBVIOUS
  <2>6. BrShape(u) /\ BrIs(u, v.epoch, v.conn, v.client, v.pend, v.acting, v.stopping, v.fault,
                           FALSE, TRUE, FALSE, 0, v.done)
    BY <2>4, <2>5, HelperFields
  <2>7. br' = [u EXCEPT !.acting = FALSE, !.committed = FALSE, !.conn = FALSE]
    BY <2>1, <2>3, <2>5
  <2>8. /\ br'.epoch = u.epoch /\ br'.pend = u.pend /\ br'.client = u.client /\ br'.done = u.done
        /\ br'.there = u.there /\ br'.news = u.news
    BY <2>6, <2>7 DEF BrShape
  <2>9. ~br'.acting /\ (br'.real <=> u.real) /\ (br'.stopping <=> u.stopping)
    BY <2>6, <2>7 DEF BrShape
  <2>10. /\ u.epoch = br.epoch + 1 /\ u.pend = NoAct /\ u.client = br.client /\ u.done = br.done
         /\ u.there = 0 /\ u.news = TRUE
    BY <2>4, <2>6 DEF BrIs
  <2>11. ~u.real /\ (u.stopping <=> br.stopping)
    BY <2>4, <2>6 DEF BrIs
  <2>12. br'.news \in BOOLEAN
    BY <2>8, <2>10
  <2>13. BrTyped(br')
    BY <1>b, <2>8, <2>10, <2>12 DEF BrTyped
  <2>14. dev'.act = NoAct /\ dev'.there \in Nat /\ dev.fin \subseteq dev'.fin
    BY <1>b, <2>1, OutFields
  <2>15. actor'.act = NoAct /\ actor'.ok \in BOOLEAN
    BY <2>1
  <2> QED
    BY <1>0, <1>s, <2>1, <2>2, <2>8, <2>9, <2>10, <2>11, <2>13, <2>14, <2>15, OverWithin
<1> QED
  BY <1>1, <1>2, <1>3, <1>4

(* The simulated bridge.                                                   *)
LEMMA SimWithin ==
  ASSUME HandInv, SimStops \/ SimSamples
  PROVE  Within
<1>0. Based
  BY Basis
<1>b. BrShape(br) /\ BrTyped(br) /\ StopperShape(stopper) /\ StopInv /\ BridgeInv /\ NoAct \in Acts
      /\ DevShape(dev) /\ dev.there \in Nat /\ br.epoch \in Nat /\ NoAct.id = 0
      /\ actor = [at |-> actor.at, act |-> actor.act, ok |-> actor.ok] /\ actor.act \in Acts
      /\ actor.ok \in BOOLEAN
  BY <1>0 DEF Based, Typed
<1>c. /\ cli' = cli /\ up' = up /\ down' = down /\ graph' = graph /\ stopper' = stopper /\ graph.sim
  BY DEF SimStops, SimSamples
<1>s. stopper.at = "idle" /\ (dev.act.id = 0 => dev.act = NoAct) /\ (dev.act.id # 0 => br.acting)
      /\ actor.at = "idle"
  BY <1>b, <1>c DEF BridgeInv, StopInv
<1>1. CASE SimStops
  <2>1. /\ br.stopping
        /\ dev' = [dev EXCEPT !.act = NoAct, !.held = FALSE, !.there = IF dev.act.id # 0 THEN 0 ELSE @]
        /\ br' = [Unsampled(br) EXCEPT !.acting = FALSE, !.committed = FALSE, !.stopping = FALSE]
        /\ actor' = [actor EXCEPT !.act = NoAct]
    BY <1>1 DEF SimStops
  <2> DEFINE t == IF dev.act.id # 0 THEN 0 ELSE dev.there
  <2>2. dev' = [dev EXCEPT !.act = NoAct, !.held = FALSE, !.there = t] /\ t \in Nat
    BY <1>b, <2>1
  <2> HIDE DEF t
  <2>3. dev'.act = NoAct /\ ~dev'.held /\ dev'.there \in Nat /\ dev'.fin = dev.fin
    BY <1>b, <2>2 DEF DevShape
  <2>4. actor'.act = NoAct /\ actor'.ok = actor.ok /\ actor'.at = actor.at
    BY <1>b, <2>1
  <2>5. PICK u : u = Unsampled(br)
    OBVIOUS
  <2>6. BrShape(u) /\ BrIs(u, br.epoch, br.conn, br.client, br.pend, br.acting, br.stopping, br.fault,
                           FALSE, TRUE, FALSE, 0, br.done)
    BY <1>b, <2>5, HelperFields
  <2>7. br' = [u EXCEPT !.acting = FALSE, !.committed = FALSE, !.stopping = FALSE]
    BY <2>1, <2>5
  <2>8. /\ br'.epoch = u.epoch /\ br'.pend = u.pend /\ br'.client = u.client /\ br'.done = u.done
        /\ br'.there = u.there /\ br'.news = u.news
    BY <2>6, <2>7 DEF BrShape
  <2>9. ~br'.acting /\ (br'.real <=> u.real)
    BY <2>6, <2>7 DEF BrShape
  <2>10. /\ u.epoch = br.epoch /\ u.pend = br.pend /\ u.client = br.client /\ u.done = br.done
         /\ u.there = 0 /\ u.news = TRUE
    BY <2>6 DEF BrIs
  <2>11. ~u.real
    BY <2>6 DEF BrIs
  <2>12. br'.news \in BOOLEAN
    BY <2>8, <2>10
  <2>13. BrTyped(br') /\ ~Ready(br)
    BY <1>b, <2>1, <2>8, <2>10, <2>12 DEF BrTyped, Ready
  <2>14. CASE br.acting
    BY <1>0, <1>b, <1>c, <1>s, <2>3, <2>4, <2>8, <2>9, <2>10, <2>11, <2>13, <2>14, OverWithin
  <2>15. CASE ~br.acting
    BY <1>0, <1>b, <1>c, <1>s, <2>3, <2>4, <2>8, <2>9, <2>10, <2>11, <2>13, <2>15, QuietWithin
  <2> QED
    BY <2>14, <2>15
<1>2. CASE SimSamples
  <2>1. PICK u : u = Sampled(br)
    OBVIOUS
  <2>2. BrShape(u) /\ BrIs(u, br.epoch, br.conn, br.client, br.pend, br.acting, br.stopping, br.fault,
                           TRUE, TRUE, dev.held, dev.there, br.done)
    BY <1>b, <2>1, HelperFields
  <2>3. /\ u.epoch = br.epoch /\ u.pend = br.pend /\ u.client = br.client /\ u.done = br.done
        /\ u.there = dev.there /\ u.news = TRUE /\ u.held = dev.held
    BY <2>2 DEF BrIs
  <2>4. (u.acting <=> br.acting) /\ (Ready(br) => Ready(u)) /\ (u.stopping <=> br.stopping)
    BY <2>2 DEF BrIs, Ready
  <2>5. u.news \in BOOLEAN
    BY <2>3
  <2>6. BrTyped(u)
    BY <1>b, <2>3, <2>5 DEF BrTyped
  <2>7. CASE br' = u /\ dev' = dev /\ actor' = actor
    BY <1>0, <1>b, <1>c, <1>s, <2>3, <2>4, <2>6, <2>7, QuietWithin
  <2>8. CASE /\ br.acting
             /\ \E ok \in BOOLEAN : dev' = OutOf(dev, actor.act, ok) /\ br' = Over(br, actor.act, ok)
             /\ actor' = [actor EXCEPT !.act = NoAct]
    <3>1. PICK ok \in BOOLEAN : dev' = OutOf(dev, actor.act, ok) /\ br' = Over(br, actor.act, ok)
      BY <2>8
    <3>2. PICK a \in Acts : a = actor.act
      BY <1>b
    <3>3. /\ ~br'.acting /\ ~br'.real /\ br'.epoch = br.epoch
          /\ br'.pend = br.pend /\ br'.client = br.client /\ BrTyped(br')
          /\ (br'.done = br.done \/ (br'.done.ep = a.ep /\ (br'.done.ok <=> ok)))
      <4>1. br' = Over(br, a, ok)
        BY <3>1, <3>2
      <4> QED
        BY <1>b, <4>1, OverFields
    <3>4. /\ dev'.act = NoAct /\ dev'.there \in Nat /\ dev.fin \subseteq dev'.fin
          /\ (ok => a.id \in dev'.fin)
      <4>1. dev' = OutOf(dev, a, ok)
        BY <3>1, <3>2
      <4> QED
        BY <1>b, <4>1, OutFields
    <3>5. actor'.act = NoAct /\ actor'.ok \in BOOLEAN
      BY <1>b, <2>8
    <3>6. \/ br'.done = br.done
          \/ br'.done.ep = actor.act.ep /\ (br'.done.ok => actor.act.id \in dev'.fin)
      BY <3>2, <3>3, <3>4
    <3> QED
      BY <1>0, <1>b, <1>c, <1>s, <2>8, <3>3, <3>4, <3>5, <3>6, OverWithin
  <2>9. CASE /\ ~br.acting /\ br.client /\ Current(br, br.pend)
             /\ br' = [u EXCEPT !.pend = NoAct, !.acting = TRUE, !.committed = TRUE]
             /\ dev' = Into(dev, br.pend) /\ actor' = [actor EXCEPT !.act = br.pend]
    <3>1. br.pend.id # 0
      <4>1. br.epoch > 1 /\ (br.pend.id = 0 => br.pend = NoAct) /\ br.pend.ep + 1 = br.epoch
        BY <1>b, <2>9 DEF BridgeInv, Current
      <4> QED
        BY <1>b, <4>1 DEF NoAct
    <3>2. /\ br'.pend = NoAct /\ br'.epoch = u.epoch /\ br'.client = u.client /\ br'.done = u.done
          /\ br'.there = u.there /\ br'.news = u.news
      BY <2>2, <2>9 DEF BrShape
    <3>3. br'.acting /\ (br'.stopping <=> u.stopping)
      BY <2>2, <2>9 DEF BrShape
    <3>4. BrTyped(br')
      BY <1>b, <2>6, <3>2 DEF BrTyped
    <3>5. dev'.act = br.pend /\ ~dev'.held /\ dev'.there = 0 /\ dev'.fin = dev.fin
      BY <1>b, <2>9 DEF Into, DevShape
    <3>6. actor'.act = br.pend /\ actor'.at = actor.at /\ actor'.ok = actor.ok
      BY <1>b, <2>9
    <3> QED
      BY <1>0, <1>b, <1>c, <1>s, <2>3, <2>4, <3>1, <3>2, <3>3, <3>4, <3>5, <3>6, TakeWithin
  <2>10. CASE /\ ~br.acting /\ dev' = dev /\ actor' = actor
              /\ br' = [u EXCEPT !.pend = IF br.client THEN NoAct ELSE @]
    <3> DEFINE p == IF br.client THEN NoAct ELSE u.pend
    <3>1. br' = [u EXCEPT !.pend = p] /\ p \in {br.pend, NoAct}
      BY <2>3, <2>10
    <3> HIDE DEF p
    <3>2. /\ br'.pend = p /\ br'.epoch = u.epoch /\ br'.client = u.client /\ br'.done = u.done
          /\ br'.there = u.there /\ br'.news = u.news /\ br'.held = u.held
      BY <2>2, <3>1 DEF BrShape
    <3>3. /\ (br'.acting <=> u.acting) /\ (br'.stopping <=> u.stopping)
          /\ (br'.conn <=> u.conn) /\ (br'.fault <=> u.fault)
      BY <2>2, <3>1 DEF BrShape
    <3>4. BrTyped(br')
      BY <1>b, <2>6, <3>1, <3>2 DEF BrTyped
    <3>5. Ready(br) => Ready(br')
      BY <1>b, <2>3, <2>4, <3>1, <3>2, <3>3 DEF Ready
    <3> QED
      BY <1>0, <1>b, <1>c, <1>s, <2>3, <2>4, <2>10, <3>1, <3>2, <3>3, <3>4, <3>5, QuietWithin
  <2> QED
    BY <1>2, <2>1, <2>7, <2>8, <2>9, <2>10 DEF SimSamples, Over
<1> QED
  BY <1>1, <1>2

(* So the bridge's threads keep the invariant.                             *)
LEMMA ThreadsKeep ==
  ASSUME HandInv, \/ Actor \/ SessionOpens \/ ActionEnds \/ Stopper \/ SimStops \/ SimSamples
                  \/ SessionLostActing \/ SessionLostReading \/ ObjectDrops
  PROVE  HandInv'
<1>1. StopInv
  BY DEF HandInv
<1>2. StopInv'
  BY <1>1, ServerKeeps, ActorKeeps, CallKeeps, SimKeeps DEF Actor, Stopper
<1>3. Within
  BY SessionWithin, WatchWithin, CallWithin, ActorWithin, SimWithin DEF Actor, Stopper
<1> QED
  BY <1>2, <1>3, InnerKeeps DEF Within

-----------------------------------------------------------------------------
(* The bridge's server thread, which reads and writes the lines.           *)

(* An epoch further on, everything is still below it.                      *)
LEMMA BelowMore ==
  ASSUME NEW u \in Seq(Lines), NEW d \in Seq(Lines), NEW b, BrTyped(b), NEW a \in Acts,
         NEW n \in Nat, NEW m \in Nat, n <= m, Below(u, d, b, a, n)
  PROVE  Below(u, d, b, a, m)
<1>1. /\ b.pend.ep \in Nat /\ a.ep \in Nat /\ b.done.ep \in Nat
      /\ \A i \in DOMAIN u : u[i].ep \in Nat
      /\ \A i \in DOMAIN d : d[i].ep \in Nat
  BY LinesAre DEF BrTyped, Acts, Dones
<1> QED
  BY <1>1 DEF Below

(* The clause about the measurements on their way.                         *)
MetasInv ==
  \A i \in DOMAIN down : down[i].op = "META" =>
    /\ MetaOK(br, actor.act, dev.held, cli, down[i])
    /\ \A k \in DOMAIN down : down[k].op = "META" => k = i

(* A step of the server, from what it does to the lines.                   *)
LEMMA LinesKeep ==
  ASSUME HandInv, cli' = cli, actor' = actor, dev' = dev, StopInv', Typed', BridgeInv', LinkInv',
         Evolves(br, actor.act, dev.held, br', actor.act, dev.held),
         \A n \in Nat : Below(up, down, br, actor.act, n) => Below(up', down', br', actor.act, n),
         cli.fly.id # 0 /\ ~cli.cmd =>
           \E w : \E k \in Nat \ {0} :
             AllBut(up', down', br', actor.act, dev.fin, cli.fly, cli.fly.ep, w, k),
         \A i \in DOMAIN up' : up'[i].op = "CMD" => \E j \in DOMAIN up : up'[i] = up[j],
         \A i \in DOMAIN down' : down'[i].op = "META" =>
           (\E j \in DOMAIN down : down'[i] = down[j]) \/ down'[i].ep = br'.epoch,
         Joined(up', br', cli) =>
           Joined(up, br, cli) \/ (Below(up', down', br', actor.act, br'.epoch) /\ down' = <<>>),
         MetasInv', StopLines'
  PROVE  HandInv'
<1>0. StopInv /\ Typed /\ BridgeInv /\ LinkInv /\ ViewInv /\ StopLines /\ TokenInv
  BY DEF HandInv
<1>1. /\ \A st : \A e \in Nat : ViewOK(br, actor.act, dev.held, e, st)
                              => ViewOK(br', actor'.act, dev'.held, e, st)
      /\ \A m \in Lines : CmdOK(br, dev.held, m) => CmdOK(br', dev'.held, m)
      /\ \A c : c.fly \in Acts /\ FlyOK(br, actor.act, dev.held, c)
                => FlyOK(br', actor'.act, dev'.held, c)
      /\ br'.epoch \in Nat /\ br.epoch \in Nat /\ br'.epoch >= br.epoch
  <2>1. Evolves(br, actor.act, dev.held, br', actor'.act, dev'.held)
    OBVIOUS
  <2> QED
    BY <1>0, <2>1, SeenStays
<1>2. /\ up \in Seq(Lines) /\ down \in Seq(Lines) /\ up' \in Seq(Lines) /\ down' \in Seq(Lines)
      /\ cli.fly \in Acts /\ cli.epoch \in Nat /\ BrTyped(br') /\ actor.act \in Acts
  BY <1>0 DEF Typed, CliTyped
<1>3. ViewInv'
  <2>1. cli'.epoch <= br'.epoch /\ (cli'.st.meas => cli'.epoch # 0)
    BY <1>0, <1>1, <1>2 DEF ViewInv
  <2>2. /\ ViewOK(br', actor'.act, dev'.held, cli'.epoch, cli'.st)
        /\ FlyOK(br', actor'.act, dev'.held, cli')
    BY <1>0, <1>1, <1>2 DEF ViewInv
  <2>3. \A i \in DOMAIN up' : up'[i].op = "CMD" => CmdOK(br', dev'.held, up'[i])
    <3>1. \A j \in DOMAIN up : up[j] \in Lines /\ (up[j].op = "CMD" => CmdOK(br', dev'.held, up[j]))
      BY <1>0, <1>1, <1>2, LinesAre DEF ViewInv
    <3> QED
      BY <3>1
  <2> QED
    BY <2>1, <2>2, <2>3 DEF ViewInv, MetasInv
<1>4. TokenInv'
  <2>1. Below(up', down', br', actor'.act, br'.epoch + 1)
    <3>1. br.epoch + 1 \in Nat /\ br'.epoch + 1 \in Nat /\ br.epoch + 1 <= br'.epoch + 1
      BY <1>1
    <3>2. Below(up', down', br', actor.act, br.epoch + 1)
      BY <1>0, <3>1 DEF TokenInv
    <3> QED
      BY <1>2, <3>1, <3>2, BelowMore
  <2>2. ASSUME Joined(up', br', cli'), cli'.epoch = 0
        PROVE  /\ Below(up', down', br', actor'.act, br'.epoch)
               /\ \A i \in DOMAIN down' : down'[i].op = "META" =>
                    Below(up', down', br', actor'.act, down'[i].ep)
    <3>1. CASE Joined(up, br, cli)
      <4>1. /\ Below(up, down, br, actor.act, br.epoch)
            /\ \A i \in DOMAIN down : down[i].op = "META" => Below(up, down, br, actor.act, down[i].ep)
        BY <1>0, <2>2, <3>1 DEF TokenInv
      <4>2. Below(up', down', br', actor.act, br.epoch)
        BY <1>1, <4>1
      <4>3. Below(up', down', br', actor.act, br'.epoch)
        BY <1>1, <1>2, <4>2, BelowMore
      <4>4. \A j \in DOMAIN down : down[j].ep \in Nat
        BY <1>2, LinesAre
      <4>5. \A j \in DOMAIN down : down[j].op = "META" => Below(up', down', br', actor.act, down[j].ep)
        BY <4>1, <4>4
      <4> QED
        BY <4>3, <4>5
    <3>2. CASE Below(up', down', br', actor.act, br'.epoch) /\ down' = <<>>
      BY <3>2
    <3> QED
      BY <2>2, <3>1, <3>2
  <2>3. cli'.epoch # 0 /\ cli'.fly.id = 0 /\ ~cli'.waiting
          => Below(up', down', br', actor'.act, cli'.epoch)
    BY <1>0, <1>2 DEF TokenInv
  <2>4. cli'.fly.id # 0 /\ cli'.cmd => Below(up', down', br', actor'.act, cli'.fly.ep)
    BY <1>0, <1>2 DEF TokenInv, Acts
  <2> QED
    BY <2>1, <2>2, <2>3, <2>4 DEF TokenInv
<1> QED
  BY <1>3, <1>4 DEF HandInv

(* The measurements on their way, when none is added.                      *)
LEMMA MetasKeep ==
  ASSUME HandInv, cli' = cli, actor' = actor, dev' = dev,
         Evolves(br, actor.act, dev.held, br', actor.act, dev.held),
         down' = down \/ (\E m \in Lines : down' = Append(down, m) /\ m.op # "META")
  PROVE  MetasInv'
<1>0. StopInv /\ Typed /\ BridgeInv /\ ViewInv
  BY DEF HandInv
<1>1. \A c : \A m \in Lines : MetaOK(br, actor.act, dev.held, c, m)
                            => MetaOK(br', actor'.act, dev'.held, c, m)
  <2>1. Evolves(br, actor.act, dev.held, br', actor'.act, dev'.held)
    OBVIOUS
  <2> QED
    BY <1>0, <2>1, SeenStays
<1>2. down \in Seq(Lines)
  BY <1>0 DEF Typed
<1>3. \A i \in DOMAIN down : down[i] \in Lines
  BY <1>2, LinesAre
<1>4. \A i \in DOMAIN down' : down'[i].op = "META" => i \in DOMAIN down /\ down'[i] = down[i]
  BY <1>2, Added
<1>5. \A i \in DOMAIN down : down[i].op = "META" =>
        /\ MetaOK(br', actor'.act, dev'.held, cli', down[i])
        /\ \A k \in DOMAIN down : down[k].op = "META" => k = i
  BY <1>0, <1>1, <1>3 DEF ViewInv
<1> QED
  BY <1>4, <1>5 DEF MetasInv

(* A stop line further up the lines is one of the connection still.        *)
LEMMA LastOfTail ==
  ASSUME NEW u \in Seq(Lines), u # <<>>, NEW i \in DOMAIN Tail(u), LastStop(Tail(u), i)
  PROVE  i \in Nat /\ i + 1 \in DOMAIN u /\ i + 1 > 1 /\ LastStop(u, i + 1)
<1>1. i \in Nat /\ i + 1 \in DOMAIN u /\ i + 1 > 1 /\ Tail(u)[i] = u[i + 1]
  BY Removed
<1>2. \A k \in DOMAIN u : k > i + 1 =>
        k \in Nat /\ k - 1 \in DOMAIN Tail(u) /\ Tail(u)[k - 1] = u[k] /\ k - 1 > i
  BY <1>1, Removed
<1> QED
  BY <1>1, <1>2 DEF LastStop

(* What the stop lines make of a line the server reads, and one it sends   *)
(* that is no stop.                                                        *)
LEMMA StopsKeep ==
  ASSUME HandInv, cli' = cli, actor' = actor, dev' = dev,
         Evolves(br, actor.act, dev.held, br', actor.act, dev.held),
         \A n \in Nat : Below(up, down, br, actor.act, n) => Below(up', down', br', actor.act, n),
         up' = up \/ (up # <<>> /\ up' = Tail(up)),
         down' = down \/ (\E m \in Lines : down' = Append(down, m) /\ m.op # "STOPPING")
  PROVE  StopLines'
<1>0. StopInv /\ Typed /\ BridgeInv /\ LinkInv /\ ViewInv /\ StopLines /\ TokenInv
  BY DEF HandInv
<1>1. br'.epoch \in Nat /\ br.epoch \in Nat /\ br'.epoch >= br.epoch
  <2>1. Evolves(br, actor.act, dev.held, br', actor'.act, dev'.held)
    OBVIOUS
  <2> QED
    BY <1>0, <2>1, SeenStays
<1>2. up \in Seq(Lines) /\ down \in Seq(Lines) /\ cli.stopEp \in Nat
  BY <1>0 DEF Typed, CliTyped
<1>3. \A i \in DOMAIN down : down[i] \in Lines /\ down[i].ep \in Nat
  BY <1>2, LinesAre
<1>4. \A i \in DOMAIN down' : down'[i].op = "STOPPING" =>
        i \in DOMAIN down /\ down'[i] = down[i]
  BY <1>2, Added
<1>5. StopLines'
  <2>1. cli'.stopEp # 0 => /\ cli'.waiting /\ cli'.stopEp <= br'.epoch
                           /\ Below(up', down', br', actor'.act, cli'.stopEp)
    BY <1>0, <1>1, <1>2 DEF StopLines
  <2>2. \A i \in DOMAIN down : down[i].op = "STOPPING" =>
          down[i].ep <= br'.epoch /\ Below(up', down', br', actor'.act, down[i].ep)
    BY <1>0, <1>1, <1>3 DEF StopLines
  <2>3. \A i \in DOMAIN down' : down'[i].op = "STOPPING" =>
          /\ cli'.waiting /\ cli'.stopEp = 0 /\ ~cli'.cancel
          /\ down'[i].ep # 0 /\ down'[i].ep <= br'.epoch
          /\ Below(up', down', br', actor'.act, down'[i].ep)
          /\ \A k \in DOMAIN down' : down'[k].op = "STOPPING" => k = i
    <3>1. \A i \in DOMAIN down : down[i].op = "STOPPING" =>
            /\ cli.waiting /\ cli.stopEp = 0 /\ ~cli.cancel /\ down[i].ep # 0
            /\ \A k \in DOMAIN down : down[k].op = "STOPPING" => k = i
      BY <1>0 DEF StopLines
    <3> QED
      BY <1>4, <2>2, <3>1
  <2>4. \A i \in DOMAIN up : LastStop(up, i) =>
          /\ cli.conn /\ cli.waiting /\ cli.stopEp = 0 /\ ~cli.cancel
          /\ \A k \in DOMAIN down : down[k].op # "STOPPING"
          /\ \A k \in DOMAIN up : LastStop(up, k) => k = i
    BY <1>0 DEF StopLines
  <2>5. \A k \in DOMAIN down' : down'[k].op = "STOPPING" => k \in DOMAIN down /\ down[k].op = "STOPPING"
    BY <1>4
  <2>6. \A i \in DOMAIN up' : LastStop(up', i) =>
          /\ cli'.conn /\ cli'.waiting /\ cli'.stopEp = 0 /\ ~cli'.cancel
          /\ \A k \in DOMAIN down' : down'[k].op # "STOPPING"
          /\ \A k \in DOMAIN up' : LastStop(up', k) => k = i
    <3>1. CASE up' = up
      BY <2>4, <2>5, <3>1
    <3>2. CASE up # <<>> /\ up' = Tail(up)
      <4>1. \A i \in DOMAIN up' : LastStop(up', i) => i \in Nat /\ i + 1 \in DOMAIN up /\ LastStop(up, i + 1)
        BY <1>2, <3>2, LastOfTail
      <4> QED
        BY <2>4, <2>5, <4>1
    <3> QED
      BY <3>1, <3>2
  <2> QED
    BY <1>0, <2>1, <2>3, <2>6 DEF StopLines
<1> QED
  BY <1>5

(* The first line up is read.                                              *)
LEMMA ReadUp ==
  ASSUME NEW u \in Seq(Lines), u # <<>>, NEW fly, NEW n, NEW w, NEW k \in Nat \ {0},
         UpBut(u, fly, n, w, k)
  PROVE  /\ w # "up" \/ k = 1 => \A w2, k2 : UpBut(Tail(u), fly, n, w2, k2)
         /\ w = "up" /\ k # 1 => k - 1 \in Nat \ {0} /\ UpBut(Tail(u), fly, n, w, k - 1)
         /\ u[1].op = "CMD" => u[1].ep < n \/ (w = "up" /\ k = 1 /\ u[1].act = fly)
<1>1. /\ 1 \in DOMAIN u
      /\ \A i \in DOMAIN Tail(u) : i \in Nat /\ i + 1 \in DOMAIN u /\ Tail(u)[i] = u[i + 1] /\ i + 1 > 1
  BY Removed
<1>2. ASSUME w # "up" \/ k = 1, NEW w2, NEW k2 PROVE UpBut(Tail(u), fly, n, w2, k2)
  BY <1>1, <1>2 DEF UpBut
<1>3. ASSUME w = "up", k # 1 PROVE k - 1 \in Nat \ {0} /\ UpBut(Tail(u), fly, n, w, k - 1)
  BY <1>1, <1>3 DEF UpBut
<1>4. ASSUME u[1].op = "CMD" PROVE u[1].ep < n \/ (w = "up" /\ k = 1 /\ u[1].act = fly)
  BY <1>1, <1>4 DEF UpBut
<1> QED
  BY <1>2, <1>3, <1>4

(* A line is sent down: no answer, an old command's, or the one's.         *)
LEMMA SentDown ==
  ASSUME NEW d \in Seq(Lines), NEW m \in Lines, NEW fin, NEW fly, NEW n, NEW w, NEW k \in Nat \ {0},
         DownBut(d, fin, fly, n, w, k)
  PROVE  /\ m.op \notin {"DONE", "REJECT"} \/ m.ep < n => DownBut(Append(d, m), fin, fly, n, w, k)
         /\ w # "down" /\ m.ep = fly.ep /\ (m.op = "DONE" /\ m.ok => fly.id \in fin) =>
              DownBut(Append(d, m), fin, fly, n, "down", Len(d) + 1)
         /\ Len(d) + 1 \in Nat \ {0}
<1>1. /\ Append(d, m)[Len(d) + 1] = m
      /\ \A i \in DOMAIN d : Append(d, m)[i] = d[i]
      /\ \A i \in DOMAIN Append(d, m) : i = Len(d) + 1 \/ i \in DOMAIN d
      /\ Len(d) + 1 \in Nat \ {0}
  BY Added
<1> DEFINE a == Append(d, m)
<1>2. /\ a[Len(d) + 1] = m
      /\ \A i \in DOMAIN d : a[i] = d[i]
      /\ \A i \in DOMAIN a : i = Len(d) + 1 \/ i \in DOMAIN d
  BY <1>1
<1> HIDE DEF a
<1>3. ASSUME m.op \notin {"DONE", "REJECT"} \/ m.ep < n PROVE DownBut(a, fin, fly, n, w, k)
  BY <1>2, <1>3 DEF DownBut
<1>4. ASSUME w # "down", m.ep = fly.ep, m.op = "DONE" /\ m.ok => fly.id \in fin
      PROVE  DownBut(a, fin, fly, n, "down", Len(d) + 1)
  BY <1>2, <1>4 DEF DownBut
<1> QED
  BY <1>1, <1>3, <1>4 DEF a

(* Below, line by line.                                                    *)
LEMMA BelowLines ==
  /\ \A u \in Seq(Lines) : \A d, b, a, n : u # <<>> /\ Below(u, d, b, a, n) =>
       Below(Tail(u), d, b, a, n) /\ (u[1].op = "CMD" => u[1].ep < n)
  /\ \A d \in Seq(Lines) : \A u, b, a, n : d # <<>> /\ Below(u, d, b, a, n) =>
       Below(u, Tail(d), b, a, n)
  /\ \A d \in Seq(Lines) : \A m \in Lines : \A u, b, a, n :
       Below(u, d, b, a, n) /\ (m.op \notin {"DONE", "REJECT"} \/ m.ep < n) => Below(u, Append(d, m), b, a, n)
  /\ \A u \in Seq(Lines) : \A m \in Lines : \A d, b, a, n :
       Below(u, d, b, a, n) /\ (m.op # "CMD" \/ m.ep < n) => Below(Append(u, m), d, b, a, n)
<1>1. ASSUME NEW u \in Seq(Lines), NEW d, NEW b, NEW a, NEW n, u # <<>>, Below(u, d, b, a, n)
      PROVE  Below(Tail(u), d, b, a, n) /\ (u[1].op = "CMD" => u[1].ep < n)
  BY <1>1, Removed DEF Below
<1>2. ASSUME NEW d \in Seq(Lines), NEW u, NEW b, NEW a, NEW n, d # <<>>, Below(u, d, b, a, n)
      PROVE  Below(u, Tail(d), b, a, n)
  BY <1>2, Removed DEF Below
<1>3. ASSUME NEW d \in Seq(Lines), NEW m \in Lines, NEW u, NEW b, NEW a, NEW n,
             Below(u, d, b, a, n), m.op \notin {"DONE", "REJECT"} \/ m.ep < n
      PROVE  Below(u, Append(d, m), b, a, n)
  <2>1. /\ Append(d, m)[Len(d) + 1] = m
        /\ \A i \in DOMAIN d : Append(d, m)[i] = d[i]
        /\ \A i \in DOMAIN Append(d, m) : i = Len(d) + 1 \/ i \in DOMAIN d
    BY Added
  <2>2. \A i \in DOMAIN Append(d, m) : Append(d, m)[i].op \in {"DONE", "REJECT"} => Append(d, m)[i].ep < n
    BY <1>3, <2>1 DEF Below
  <2> QED
    BY <1>3, <2>2 DEF Below
<1>4. ASSUME NEW u \in Seq(Lines), NEW m \in Lines, NEW d, NEW b, NEW a, NEW n,
             Below(u, d, b, a, n), m.op # "CMD" \/ m.ep < n
      PROVE  Below(Append(u, m), d, b, a, n)
  <2>1. /\ Append(u, m)[Len(u) + 1] = m
        /\ \A i \in DOMAIN u : Append(u, m)[i] = u[i]
        /\ \A i \in DOMAIN Append(u, m) : i = Len(u) + 1 \/ i \in DOMAIN u
    BY Added
  <2>2. \A i \in DOMAIN Append(u, m) : Append(u, m)[i].op = "CMD" => Append(u, m)[i].ep < n
    BY <1>4, <2>1 DEF Below
  <2> QED
    BY <1>4, <2>2 DEF Below
<1> QED
  BY <1>1, <1>2, <1>3, <1>4

(* A line with this opcode and epoch.                                      *)
IsLine(m, op, ep) == m \in Lines /\ m.op = op /\ m.ep = ep

(* What a line carries when it carries nothing is typed.                   *)
LEMMA LineParts == NoAct \in Acts /\ NoState \in Views
  BY DEF NoAct, NoState, Acts, Views

(* A refusal.                                                              *)
LEMMA RejectLine == \A ep \in Nat : IsLine(Msg("REJECT", ep, FALSE), "REJECT", ep)
  BY LineParts DEF Msg, IsLine, Lines

(* The answer to a stop.                                                   *)
LEMMA StoppingLine == \A ep \in Nat : IsLine(Msg("STOPPING", ep, TRUE), "STOPPING", ep)
  BY LineParts DEF Msg, IsLine, Lines

(* The stop.                                                               *)
LEMMA StopLine == IsLine(Msg("GSTOP", 0, TRUE), "GSTOP", 0)
  BY LineParts DEF Msg, IsLine, Lines

(* The end of a connection.                                                *)
LEMMA EofLine == IsLine(Msg("EOF", 0, TRUE), "EOF", 0)
  BY LineParts DEF Msg, IsLine, Lines

(* A verdict.                                                              *)
LEMMA DoneLine ==
  \A ep \in Nat : \A ok \in BOOLEAN :
    IsLine(Msg("DONE", ep, ok), "DONE", ep) /\ Msg("DONE", ep, ok).ok = ok
  BY LineParts DEF Msg, IsLine, Lines

(* A command.                                                              *)
LEMMA CommandLine ==
  \A ep \in Nat : \A a \in Acts :
    /\ IsLine([Msg("CMD", ep, TRUE) EXCEPT !.act = a], "CMD", ep)
    /\ [Msg("CMD", ep, TRUE) EXCEPT !.act = a].act = a
  BY LineParts DEF Msg, IsLine, Lines

(* The bridge's state.                                                     *)
LEMMA MetaLine ==
  \A ep \in Nat : \A s \in Views : \A new \in BOOLEAN :
    /\ IsLine([Msg("META", ep, TRUE) EXCEPT !.st = s, !.new = new], "META", ep)
    /\ [Msg("META", ep, TRUE) EXCEPT !.st = s, !.new = new].st = s
  BY LineParts DEF Msg, IsLine, Lines

(* A line that does not end the connection is read.                        *)
LEMMA TailLink ==
  ASSUME HandInv, up # <<>>, up' = Tail(up), up[1].op # "EOF", cli' = cli, br'.client = br.client,
         down' = down \/ (Joined(up, br, cli) /\ \E r \in Lines : down' = Append(down, r) /\ r.op \in Replies)
  PROVE  /\ LinkInv' /\ (Joined(up', br', cli') <=> Joined(up, br, cli))
         /\ \A i \in DOMAIN up' : \E j \in DOMAIN up : up'[i] = up[j]
<1>1. LinkInv /\ up \in Seq(Lines) /\ down \in Seq(Lines)
  BY DEF HandInv, Typed
<1>2. /\ \A i \in DOMAIN up' : i + 1 \in DOMAIN up /\ up'[i] = up[i + 1]
      /\ \A i \in DOMAIN up : i # 1 => i - 1 \in DOMAIN up' /\ up'[i - 1] = up[i]
  BY <1>1, Removed
<1>3. (\A i \in DOMAIN up' : up'[i].op # "EOF") <=> (\A i \in DOMAIN up : up[i].op # "EOF")
  <2>1. ASSUME \A i \in DOMAIN up' : up'[i].op # "EOF", NEW i \in DOMAIN up PROVE up[i].op # "EOF"
    BY <1>2, <2>1
  <2>2. ASSUME \A i \in DOMAIN up : up[i].op # "EOF", NEW i \in DOMAIN up' PROVE up'[i].op # "EOF"
    BY <1>2, <2>2
  <2> QED
    BY <2>1, <2>2
<1>4. Joined(up', br', cli') <=> Joined(up, br, cli)
  BY <1>3 DEF Joined
<1>5. \A i \in DOMAIN down' : down'[i].op \in Replies
  <2>1. CASE down' = down
    BY <1>1, <2>1 DEF LinkInv
  <2>2. CASE \E r \in Lines : down' = Append(down, r) /\ r.op \in Replies
    <3>1. PICK r \in Lines : down' = Append(down, r) /\ r.op \in Replies
      BY <2>2
    <3>2. \A i \in DOMAIN down' : down'[i] = r \/ (i \in DOMAIN down /\ down'[i] = down[i])
      BY <1>1, <3>1, Added
    <3> QED
      BY <1>1, <3>1, <3>2 DEF LinkInv
  <2> QED
    BY <2>1, <2>2
<1>6. LinkInv'
  BY <1>1, <1>3, <1>4, <1>5 DEF LinkInv
<1> QED
  BY <1>2, <1>4, <1>6

(* A command is admitted, or refused.                                      *)
LEMMA CommandKeeps ==
  ASSUME HandInv, ServesCommand
  PROVE  HandInv'
<1>0. StopInv /\ Typed /\ BridgeInv /\ LinkInv /\ ViewInv /\ StopLines /\ TokenInv /\ Based
  BY Basis DEF HandInv
<1>b. BrShape(br) /\ BrTyped(br) /\ br.epoch \in Nat /\ up \in Seq(Lines) /\ down \in Seq(Lines)
      /\ actor.act \in Acts /\ cli.fly \in Acts
  BY <1>0 DEF Based, Typed, CliTyped
<1>1. /\ cli' = cli /\ actor' = actor /\ dev' = dev /\ stopper' = stopper /\ graph' = graph
      /\ up # <<>> /\ up' = Tail(up) /\ Head(up).op = "CMD" /\ br.client
  BY DEF ServesCommand
<1>2. PICK m \in Lines : m = Head(up) /\ m = up[1] /\ 1 \in DOMAIN up
  BY <1>b, <1>1, Removed
<1>3. m.op = "CMD" /\ m.ep \in Nat /\ m.act \in Acts /\ up' \in Seq(Lines)
  BY <1>b, <1>1, <1>2, LinesAre, Removed
<1>4. m.act.ep = m.ep /\ m.act.id # 0 /\ (m.act.kind = "move" => Empty(br, dev.held, m.ep))
  BY <1>0, <1>2, <1>3 DEF ViewInv, CmdOK
<1>5. StopInv'
  BY <1>0, ServerKeeps DEF Server
<1>6. CASE Refused(br, m.act)
  <2>1. PICK r \in Lines : r = Msg("REJECT", m.ep, FALSE) /\ r.op = "REJECT" /\ r.ep = m.ep
    <3>1. IsLine(Msg("REJECT", m.ep, FALSE), "REJECT", m.ep)
      BY <1>3, RejectLine
    <3> QED
      BY <3>1 DEF IsLine
  <2>2. br' = br /\ (down' = down \/ (Joined(up, br, cli) /\ down' = Append(down, r)))
    <3>1. br' = br /\ down' = Sent(r)
      BY <1>2, <1>6, <2>1 DEF ServesCommand
    <3> QED
      BY <1>1, <3>1 DEF Sent, Closed, Joined
  <2>3. Evolves(br, actor.act, dev.held, br', actor.act, dev.held)
    BY <1>b, <2>2 DEF Evolves
  <2>4. Typed'
    <3>1. down' \in Seq(Lines)
      BY <1>b, <2>1, <2>2, Added
    <3> QED
      BY <1>0, <1>1, <1>3, <2>2, <3>1 DEF Typed
  <2>5. BridgeInv'
    BY <1>0, <1>1, <2>2 DEF BridgeInv
  <2>6. /\ LinkInv' /\ (Joined(up', br', cli') <=> Joined(up, br, cli))
        /\ \A i \in DOMAIN up' : \E j \in DOMAIN up : up'[i] = up[j]
    <3>1. r.op \in Replies
      BY <2>1 DEF Replies
    <3> QED
      BY <1>1, <1>2, <1>3, <2>2, <3>1, TailLink
  <2>7. ASSUME NEW n \in Nat, Below(up, down, br, actor.act, n)
        PROVE  Below(up', down', br', actor.act, n)
    <3>1. Below(Tail(up), down, br, actor.act, n) /\ m.ep < n
      BY <1>b, <1>1, <1>2, <1>3, <2>7, BelowLines
    <3>2. Below(Tail(up), Append(down, r), br, actor.act, n)
      BY <1>b, <2>1, <3>1, BelowLines
    <3> QED
      BY <1>1, <2>2, <3>1, <3>2
  <2>8. ASSUME cli.fly.id # 0 /\ ~cli.cmd
        PROVE  \E w : \E k \in Nat \ {0} :
                 AllBut(up', down', br', actor.act, dev.fin, cli.fly, cli.fly.ep, w, k)
    <3> DEFINE n == cli.fly.ep
    <3>1. PICK w : \E k \in Nat \ {0} : AllBut(up, down, br, actor.act, dev.fin, cli.fly, n, w, k)
      BY <1>0, <2>8 DEF TokenInv
    <3>2. PICK k \in Nat \ {0} : AllBut(up, down, br, actor.act, dev.fin, cli.fly, n, w, k)
      BY <3>1
    <3> HIDE DEF n
    <3>3. /\ UpBut(up, cli.fly, n, w, k) /\ AtBut(br, actor.act, dev.fin, cli.fly, n, w)
          /\ DownBut(down, dev.fin, cli.fly, n, w, k)
      BY <3>2 DEF AllBut
    <3>4. /\ w # "up" \/ k = 1 => \A w2, k2 : UpBut(Tail(up), cli.fly, n, w2, k2)
          /\ w = "up" /\ k # 1 => k - 1 \in Nat \ {0} /\ UpBut(Tail(up), cli.fly, n, w, k - 1)
          /\ m.ep < n \/ (w = "up" /\ k = 1 /\ m.act = cli.fly)
      BY <1>b, <1>1, <1>2, <1>3, <3>3, ReadUp
    <3>5. /\ m.ep < n => DownBut(Append(down, r), dev.fin, cli.fly, n, w, k)
          /\ w # "down" /\ m.ep = cli.fly.ep =>
               DownBut(Append(down, r), dev.fin, cli.fly, n, "down", Len(down) + 1)
          /\ Len(down) + 1 \in Nat \ {0}
      BY <1>b, <2>1, <3>3, SentDown
    <3>6. CASE w = "up" /\ k = 1
      <4>1. \A w2 \in {"none", "down"} : AtBut(br, actor.act, dev.fin, cli.fly, n, w2)
        BY <3>3, <3>6 DEF AtBut
      <4>2. \A k2 : DownBut(down, dev.fin, cli.fly, n, "none", k2)
        BY <3>3, <3>6 DEF DownBut
      <4>5. m.ep = cli.fly.ep \/ m.ep < n
        BY <1>4, <3>4
      <4>3. CASE down' = down
        <5>1. AllBut(up', down', br', actor.act, dev.fin, cli.fly, n, "none", 1)
          BY <1>1, <2>2, <3>4, <3>6, <4>1, <4>2, <4>3 DEF AllBut
        <5> QED
          BY <5>1 DEF n
      <4>4. CASE down' = Append(down, r)
        <5>1. AllBut(up', down', br', actor.act, dev.fin, cli.fly, n, "down", Len(down) + 1)
          <6>1. DownBut(Append(down, r), dev.fin, cli.fly, n, "down", Len(down) + 1)
            <7>1. CASE m.ep < n
              BY <3>5, <3>6, <7>1 DEF DownBut
            <7> QED
              BY <3>5, <3>6, <4>5, <7>1
          <6> QED
            BY <1>1, <2>2, <3>4, <3>6, <4>1, <4>4, <6>1 DEF AllBut
        <5> QED
          BY <3>5, <5>1 DEF n
      <4> QED
        BY <2>2, <4>3, <4>4
    <3>7. CASE ~(w = "up" /\ k = 1)
      <4>1. DownBut(down', dev.fin, cli.fly, n, w, k)
        BY <2>2, <3>3, <3>4, <3>5, <3>7
      <4>2. CASE w = "up"
        <5>1. DownBut(down', dev.fin, cli.fly, n, w, k - 1)
          BY <4>1, <4>2 DEF DownBut
        <5>2. AllBut(up', down', br', actor.act, dev.fin, cli.fly, n, w, k - 1) /\ k - 1 \in Nat \ {0}
          BY <1>1, <2>2, <3>3, <3>4, <3>7, <4>2, <5>1 DEF AllBut
        <5> QED
          BY <5>2 DEF n
      <4>3. CASE w # "up"
        <5>1. AllBut(up', down', br', actor.act, dev.fin, cli.fly, n, w, k)
          BY <1>1, <2>2, <3>3, <3>4, <4>1, <4>3 DEF AllBut
        <5> QED
          BY <5>1 DEF n
      <4> QED
        BY <4>2, <4>3
    <3> QED
      BY <3>6, <3>7
  <2>9. \A i \in DOMAIN down' : down'[i].op = "META" => \E j \in DOMAIN down : down'[i] = down[j]
    <3>1. CASE down' = Append(down, r)
      <4>1. \A i \in DOMAIN down' : down'[i] = r \/ (i \in DOMAIN down /\ down'[i] = down[i])
        BY <1>b, <3>1, Added
      <4> QED
        BY <2>1, <4>1
    <3> QED
      BY <2>2, <3>1
  <2>10. StopLines' /\ MetasInv'
    <3>1. \/ down' = down
          \/ \E x \in Lines : down' = Append(down, x) /\ x.op # "STOPPING" /\ x.op # "META"
      BY <2>1, <2>2
    <3> QED
      BY <1>1, <2>3, <2>7, <3>1, StopsKeep, MetasKeep
  <2> QED
    BY <1>1, <1>5, <2>3, <2>4, <2>5, <2>6, <2>7, <2>8, <2>9, <2>10, LinesKeep
<1>7. CASE ~Refused(br, m.act)
  <2>1. /\ down' = down /\ br' = [br EXCEPT !.epoch = br.epoch + 1, !.pend = m.act]
        /\ ~br.acting /\ m.act.ep = br.epoch /\ br.pend.id = 0
    BY <1>2, <1>7 DEF ServesCommand, Refused
  <2> DEFINE e == br.epoch + 1
  <2>2. e = br.epoch + 1 /\ br' = [br EXCEPT !.epoch = e, !.pend = m.act]
    BY <2>1
  <2> HIDE DEF e
  <2>3. /\ br'.epoch = e /\ br'.pend = m.act /\ br'.client = br.client /\ br'.done = br.done
        /\ br'.there = br.there /\ br'.news = br.news /\ br'.held = br.held
    BY <1>b, <2>2 DEF BrShape
  <2>4. (br'.acting <=> br.acting) /\ (br'.stopping <=> br.stopping) /\ (br'.real <=> br.real)
    BY <1>b, <2>2 DEF BrShape
  <2>5. BrTyped(br')
    BY <1>b, <1>3, <2>3 DEF BrTyped
  <2>6. Evolves(br, actor.act, dev.held, br', actor.act, dev.held)
    BY <1>b, <2>1, <2>2, <2>3, <2>4 DEF Evolves
  <2>7. Typed'
    BY <1>0, <1>1, <1>3, <2>1, <2>5 DEF Typed
  <2>8. BridgeInv'
    <3>1. m.act.kind = "move" => ~dev.held
      BY <1>b, <1>4, <2>1 DEF Empty
    <3>2. br'.epoch # 0 /\ (br'.client => br'.epoch > 1)
      BY <1>0, <1>b, <2>2, <2>3 DEF BridgeInv
    <3> QED
      BY <1>0, <1>b, <1>1, <1>4, <2>1, <2>2, <2>3, <2>4, <3>1, <3>2 DEF BridgeInv
  <2>9. /\ LinkInv' /\ (Joined(up', br', cli') <=> Joined(up, br, cli))
        /\ \A i \in DOMAIN up' : \E j \in DOMAIN up : up'[i] = up[j]
    BY <1>1, <1>2, <1>3, <2>1, <2>3, TailLink
  <2>10. ASSUME NEW n \in Nat, Below(up, down, br, actor.act, n)
         PROVE  Below(up', down', br', actor.act, n)
    <3>1. Below(Tail(up), down, br, actor.act, n) /\ m.ep < n
      BY <1>b, <1>1, <1>2, <1>3, <2>10, BelowLines
    <3> QED
      BY <1>1, <1>4, <2>1, <2>3, <2>4, <3>1 DEF Below
  <2>11. ASSUME cli.fly.id # 0 /\ ~cli.cmd
         PROVE  \E w : \E k \in Nat \ {0} :
                  AllBut(up', down', br', actor.act, dev.fin, cli.fly, cli.fly.ep, w, k)
    <3> DEFINE n == cli.fly.ep
    <3>1. PICK w : \E k \in Nat \ {0} : AllBut(up, down, br, actor.act, dev.fin, cli.fly, n, w, k)
      BY <1>0, <2>11 DEF TokenInv
    <3>2. PICK k \in Nat \ {0} : AllBut(up, down, br, actor.act, dev.fin, cli.fly, n, w, k)
      BY <3>1
    <3> HIDE DEF n
    <3>3. /\ UpBut(up, cli.fly, n, w, k) /\ AtBut(br, actor.act, dev.fin, cli.fly, n, w)
          /\ DownBut(down, dev.fin, cli.fly, n, w, k)
      BY <3>2 DEF AllBut
    <3>4. /\ w # "up" \/ k = 1 => \A w2, k2 : UpBut(Tail(up), cli.fly, n, w2, k2)
          /\ w = "up" /\ k # 1 => k - 1 \in Nat \ {0} /\ UpBut(Tail(up), cli.fly, n, w, k - 1)
          /\ m.ep < n \/ (w = "up" /\ k = 1 /\ m.act = cli.fly)
      BY <1>b, <1>1, <1>2, <1>3, <3>3, ReadUp
    <3>5. CASE w = "up" /\ k = 1
      <4>1. AtBut(br', actor.act, dev.fin, cli.fly, n, "pend")
        BY <1>4, <2>1, <2>3, <3>3, <3>4, <3>5 DEF AtBut
      <4>2. DownBut(down', dev.fin, cli.fly, n, "pend", 1)
        BY <2>1, <3>3, <3>5 DEF DownBut
      <4>3. AllBut(up', down', br', actor.act, dev.fin, cli.fly, n, "pend", 1)
        BY <1>1, <3>4, <3>5, <4>1, <4>2 DEF AllBut
      <4> QED
        BY <4>3 DEF n
    <3>6. CASE ~(w = "up" /\ k = 1)
      <4>1. AtBut(br', actor.act, dev.fin, cli.fly, n, w)
        BY <1>4, <2>1, <2>3, <3>3, <3>4, <3>6 DEF AtBut
      <4>2. CASE w = "up"
        <5>1. DownBut(down', dev.fin, cli.fly, n, w, k - 1)
          BY <2>1, <3>3, <4>2 DEF DownBut
        <5>2. AllBut(up', down', br', actor.act, dev.fin, cli.fly, n, w, k - 1) /\ k - 1 \in Nat \ {0}
          BY <1>1, <3>4, <3>6, <4>1, <4>2, <5>1 DEF AllBut
        <5> QED
          BY <5>2 DEF n
      <4>3. CASE w # "up"
        <5>1. AllBut(up', down', br', actor.act, dev.fin, cli.fly, n, w, k)
          BY <1>1, <2>1, <3>3, <3>4, <4>1, <4>3 DEF AllBut
        <5> QED
          BY <5>1 DEF n
      <4> QED
        BY <4>2, <4>3
    <3> QED
      BY <3>5, <3>6
  <2>12. StopLines' /\ MetasInv'
    BY <1>1, <2>1, <2>6, <2>10, StopsKeep, MetasKeep
  <2> QED
    BY <1>1, <1>5, <2>1, <2>6, <2>7, <2>8, <2>9, <2>10, <2>11, <2>12, LinesKeep
<1> QED
  BY <1>6, <1>7

(* A line that is no command is read, and one that is no answer is sent.   *)
LEMMA PassedLines ==
  ASSUME NEW u \in Seq(Lines), NEW d \in Seq(Lines), NEW b, NEW a, NEW fin, NEW fly, NEW n, NEW w,
         NEW k \in Nat \ {0}, AllBut(u, d, b, a, fin, fly, n, w, k)
  PROVE  /\ u # <<>> /\ u[1].op # "CMD" =>
              \E w2 : \E k2 \in Nat \ {0} : AllBut(Tail(u), d, b, a, fin, fly, n, w2, k2)
         /\ \A m \in Lines : m.op \notin {"DONE", "REJECT"} =>
              AllBut(u, Append(d, m), b, a, fin, fly, n, w, k)
<1>0. /\ UpBut(u, fly, n, w, k) /\ AtBut(b, a, fin, fly, n, w) /\ DownBut(d, fin, fly, n, w, k)
  BY DEF AllBut
<1>1. ASSUME u # <<>>, u[1].op # "CMD"
      PROVE  \E w2 : \E k2 \in Nat \ {0} : AllBut(Tail(u), d, b, a, fin, fly, n, w2, k2)
  <2>1. /\ w # "up" \/ k = 1 => \A w2, k2 : UpBut(Tail(u), fly, n, w2, k2)
        /\ w = "up" /\ k # 1 => k - 1 \in Nat \ {0} /\ UpBut(Tail(u), fly, n, w, k - 1)
    BY <1>0, <1>1, ReadUp
  <2>2. CASE w # "up"
    <3>1. AllBut(Tail(u), d, b, a, fin, fly, n, w, k)
      BY <1>0, <2>1, <2>2 DEF AllBut
    <3> QED
      BY <3>1
  <2>3. CASE w = "up" /\ k = 1
    <3>1. AtBut(b, a, fin, fly, n, "none")
      BY <1>0, <2>3 DEF AtBut
    <3>2. DownBut(d, fin, fly, n, "none", 1)
      BY <1>0, <2>3 DEF DownBut
    <3>3. AllBut(Tail(u), d, b, a, fin, fly, n, "none", 1)
      BY <2>1, <2>3, <3>1, <3>2 DEF AllBut
    <3> QED
      BY <3>3
  <2>4. CASE w = "up" /\ k # 1
    <3>1. DownBut(d, fin, fly, n, w, k - 1)
      BY <1>0, <2>4 DEF DownBut
    <3>2. AllBut(Tail(u), d, b, a, fin, fly, n, w, k - 1) /\ k - 1 \in Nat \ {0}
      BY <1>0, <2>1, <2>4, <3>1 DEF AllBut
    <3> QED
      BY <3>2
  <2> QED
    BY <2>2, <2>3, <2>4
<1>2. ASSUME NEW m \in Lines, m.op \notin {"DONE", "REJECT"}
      PROVE  AllBut(u, Append(d, m), b, a, fin, fly, n, w, k)
  <2>1. DownBut(Append(d, m), fin, fly, n, w, k)
    BY <1>0, <1>2, SentDown
  <2> QED
    BY <1>0, <2>1 DEF AllBut
<1> QED
  BY <1>1, <1>2

(* The server reads a line that is no command: what is pending may be      *)
(* dropped, and a line that is no answer sent.                             *)
LEMMA TokenRead ==
  ASSUME HandInv, up # <<>>, up[1].op # "CMD",
         HandsOn(br, actor.act, br', actor.act, dev.fin, dev.fin),
         NEW d \in Seq(Lines),
         d = down \/ (\E m \in Lines : d = Append(down, m) /\ m.op \notin {"DONE", "REJECT"})
  PROVE  /\ \A n \in Nat : Below(up, down, br, actor.act, n) => Below(Tail(up), d, br', actor.act, n)
         /\ cli.fly.id # 0 /\ ~cli.cmd =>
              \E w : \E k \in Nat \ {0} :
                AllBut(Tail(up), d, br', actor.act, dev.fin, cli.fly, cli.fly.ep, w, k)
<1>0. Typed /\ BridgeInv /\ TokenInv
  BY DEF HandInv
<1>1. up \in Seq(Lines) /\ down \in Seq(Lines) /\ Tail(up) \in Seq(Lines)
      /\ (br.pend.id # 0 => ~br.acting)
  BY <1>0, Removed DEF Typed, BridgeInv
<1>2. ASSUME NEW n \in Nat, Below(up, down, br, actor.act, n)
      PROVE  Below(Tail(up), d, br', actor.act, n)
  <2>1. Below(up, down, br', actor.act, n)
    BY <1>1, <1>2, PassedOn
  <2>2. Below(Tail(up), down, br', actor.act, n)
    BY <1>1, <2>1, BelowLines
  <2> QED
    BY <1>1, <2>2, BelowLines
<1>3. ASSUME cli.fly.id # 0 /\ ~cli.cmd
      PROVE  \E w : \E k \in Nat \ {0} :
               AllBut(Tail(up), d, br', actor.act, dev.fin, cli.fly, cli.fly.ep, w, k)
  <2> DEFINE n == cli.fly.ep
  <2>1. PICK w : \E k \in Nat \ {0} : AllBut(up, down, br, actor.act, dev.fin, cli.fly, n, w, k)
    BY <1>0, <1>3 DEF TokenInv
  <2>2. PICK k \in Nat \ {0} : AllBut(up, down, br, actor.act, dev.fin, cli.fly, n, w, k)
    BY <2>1
  <2> HIDE DEF n
  <2>3. PICK w2 : AllBut(up, down, br', actor.act, dev.fin, cli.fly, n, w2, k)
    BY <1>1, <2>2, PassedOn
  <2>4. AllBut(up, d, br', actor.act, dev.fin, cli.fly, n, w2, k)
    BY <1>1, <2>3, PassedLines
  <2>5. \E w3 : \E k3 \in Nat \ {0} : AllBut(Tail(up), d, br', actor.act, dev.fin, cli.fly, n, w3, k3)
    BY <1>1, <2>4, PassedLines
  <2> QED
    BY <2>5 DEF n
<1> QED
  BY <1>2, <1>3

(* A stop is asked for, and acknowledged.                                  *)
LEMMA StopKeeps ==
  ASSUME HandInv, ServesStop
  PROVE  HandInv'
<1>0. StopInv /\ Typed /\ BridgeInv /\ LinkInv /\ ViewInv /\ StopLines /\ TokenInv /\ Based
  BY Basis DEF HandInv
<1>b. BrShape(br) /\ BrTyped(br) /\ br.epoch \in Nat /\ up \in Seq(Lines) /\ down \in Seq(Lines)
      /\ actor.act \in Acts /\ StopperShape(stopper) /\ NoAct \in Acts /\ NoAct.id = 0
  BY <1>0 DEF Based, Typed
<1>1. /\ cli' = cli /\ actor' = actor /\ dev' = dev /\ graph' = graph
      /\ up # <<>> /\ up' = Tail(up) /\ Head(up).op = "GSTOP" /\ br.client
      /\ stopper' = [stopper EXCEPT !.same = FALSE]
      /\ down' = Sent(Msg("STOPPING", br.epoch + 1, TRUE))
      /\ br' = Unsampled(StopRequested(br))
  BY DEF ServesStop, Outdated
<1>2. up[1].op = "GSTOP" /\ 1 \in DOMAIN up /\ Tail(up) \in Seq(Lines)
  BY <1>b, <1>1, Removed
<1> DEFINE e == br.epoch + 1
<1>3. e \in Nat /\ e > br.epoch /\ e # 0 /\ e > 1
  BY <1>0, <1>b DEF BridgeInv
<1>4. BrIs(br', e, br.conn, br.client, NoAct, br.acting, TRUE, br.fault, FALSE, TRUE, FALSE, 0, br.done)
  <2>1. PICK v : v = StopRequested(br)
    OBVIOUS
  <2>2. BrShape(v) /\ BrIs(v, e, br.conn, br.client, NoAct, br.acting, TRUE, br.fault,
                           br.real, br.news, br.held, br.there, br.done)
    BY <1>b, <2>1, HelperFields
  <2>3. BrIs(br', v.epoch, v.conn, v.client, v.pend, v.acting, v.stopping, v.fault,
             FALSE, TRUE, FALSE, 0, v.done)
    BY <1>1, <2>1, <2>2, HelperFields
  <2> HIDE DEF e
  <2> QED
    BY <2>2, <2>3 DEF BrIs
<1>5. PICK r \in Lines : r = Msg("STOPPING", e, TRUE) /\ r.op = "STOPPING" /\ r.ep = e
  <2> HIDE DEF e
  <2>1. IsLine(Msg("STOPPING", e, TRUE), "STOPPING", e)
    <3>1. e \in Nat
      BY <1>3
    <3> QED
      BY <3>1, StoppingLine
  <2> QED
    BY <2>1 DEF IsLine
<1>6. /\ Joined(up, br, cli) => down' = Append(down, r)
      /\ ~Joined(up, br, cli) => down' = down /\ down = <<>>
  BY <1>0, <1>1, <1>5 DEF Sent, Closed, Joined, LinkInv
<1> HIDE DEF e
<1>7. StopInv'
  BY <1>0, ServerKeeps DEF Server
<1>8. /\ br'.epoch = e /\ br'.client = br.client /\ br'.pend = NoAct /\ br'.done = br.done
      /\ (br'.acting <=> br.acting) /\ br'.stopping /\ ~br'.real /\ br'.there = 0 /\ br'.news = TRUE
  BY <1>4 DEF BrIs
<1>9. BrTyped(br')
  <2>1. br'.news \in BOOLEAN
    BY <1>8
  <2> QED
    BY <1>b, <1>8, <2>1 DEF BrTyped
<1>10. Evolves(br, actor.act, dev.held, br', actor.act, dev.held)
  BY <1>b, <1>3, <1>8 DEF Evolves
<1>11. HandsOn(br, actor.act, br', actor.act, dev.fin, dev.fin)
  BY <1>b, <1>8 DEF HandsOn
<1>12. down' \in Seq(Lines)
  <2>1. Append(down, r) \in Seq(Lines)
    BY <1>b, Added
  <2> QED
    BY <1>b, <1>6, <2>1
<1>13. stopper'.at = stopper.at /\ StopperShape(stopper')
  BY <1>b, <1>1 DEF StopperShape
<1>14. Typed'
  BY <1>0, <1>1, <1>2, <1>9, <1>12, <1>13 DEF Typed, StopperShape
<1>15. BridgeInv'
  BY <1>0, <1>b, <1>1, <1>3, <1>8, <1>13 DEF BridgeInv
<1>16. /\ LinkInv' /\ (Joined(up', br', cli') <=> Joined(up, br, cli))
       /\ \A i \in DOMAIN up' : \E j \in DOMAIN up : up'[i] = up[j]
  <2>1. r.op \in Replies /\ up[1].op # "EOF"
    BY <1>2, <1>5 DEF Replies
  <2> QED
    BY <1>1, <1>6, <1>8, <2>1, TailLink
<1>17. /\ \A n \in Nat : Below(up, down, br, actor.act, n) => Below(up', down', br', actor.act, n)
       /\ cli.fly.id # 0 /\ ~cli.cmd =>
            \E w : \E k \in Nat \ {0} :
              AllBut(up', down', br', actor.act, dev.fin, cli.fly, cli.fly.ep, w, k)
  <2>1. down' = down \/ (\E m \in Lines : down' = Append(down, m) /\ m.op \notin {"DONE", "REJECT"})
    BY <1>5, <1>6
  <2> QED
    BY <1>1, <1>2, <1>11, <1>12, <2>1, TokenRead
<1>18. MetasInv'
  <2>1. down' = down \/ (\E m \in Lines : down' = Append(down, m) /\ m.op # "META")
    BY <1>5, <1>6
  <2> QED
    BY <1>1, <1>10, <2>1, MetasKeep
<1>19. StopLines'
  <2>1. CASE ~Joined(up, br, cli)
    BY <1>1, <1>6, <1>10, <1>17, <2>1, StopsKeep
  <2>2. CASE Joined(up, br, cli)
    <3>1. LastStop(up, 1)
      BY <1>2, <2>2 DEF LastStop, Joined
    <3>2. /\ cli.conn /\ cli.waiting /\ cli.stopEp = 0 /\ ~cli.cancel
          /\ \A k \in DOMAIN down : down[k].op # "STOPPING"
          /\ \A k \in DOMAIN up : LastStop(up, k) => k = 1
      BY <1>0, <1>2, <3>1 DEF StopLines
    <3>3. \A i \in DOMAIN up' : ~LastStop(up', i)
      <4>1. ASSUME NEW i \in DOMAIN up', LastStop(up', i) PROVE FALSE
        <5>1. i \in Nat /\ i + 1 \in DOMAIN up /\ i + 1 > 1 /\ LastStop(up, i + 1)
          BY <1>b, <1>1, <4>1, LastOfTail
        <5>2. i + 1 = 1
          BY <3>2, <5>1
        <5> QED
          BY <5>1, <5>2
      <4> QED
        BY <4>1
    <3>4. Below(up', down', br', actor.act, e)
      BY <1>0, <1>3, <1>17 DEF TokenInv, e
    <3>5. \A i \in DOMAIN down' : down'[i].op = "STOPPING" => i = Len(down) + 1 /\ down'[i] = r
      <4>1. /\ down'[Len(down) + 1] = r
            /\ \A i \in DOMAIN down' : i = Len(down) + 1 \/ (i \in DOMAIN down /\ down'[i] = down[i])
        BY <1>b, <1>6, <2>2, Added
      <4> QED
        BY <3>2, <4>1
    <3>6. \A i \in DOMAIN down' : down'[i].op = "STOPPING" =>
            /\ cli'.waiting /\ cli'.stopEp = 0 /\ ~cli'.cancel
            /\ down'[i].ep # 0 /\ down'[i].ep <= br'.epoch
            /\ Below(up', down', br', actor'.act, down'[i].ep)
            /\ \A k \in DOMAIN down' : down'[k].op = "STOPPING" => k = i
      <4>1. r.ep # 0 /\ r.ep <= br'.epoch /\ Below(up', down', br', actor'.act, r.ep)
        <5>1. r.ep = e
          BY <1>5
        <5>2. e # 0 /\ e <= br'.epoch
          BY <1>3, <1>8
        <5>3. Below(up', down', br', actor'.act, e)
          BY <1>1, <3>4
        <5> QED
          BY <5>1, <5>2, <5>3
      <4>2. \A i \in DOMAIN down' : down'[i].op = "STOPPING" =>
              \A k \in DOMAIN down' : down'[k].op = "STOPPING" => k = i
        BY <3>5
      <4> QED
        BY <1>1, <3>2, <3>5, <4>1, <4>2
    <3> QED
      BY <1>0, <1>1, <3>2, <3>3, <3>6 DEF StopLines
  <2> QED
    BY <2>1, <2>2
<1>20. \A i \in DOMAIN down' : down'[i].op = "META" => \E j \in DOMAIN down : down'[i] = down[j]
  <2>1. CASE down' = Append(down, r)
    <3>1. \A i \in DOMAIN down' : down'[i] = r \/ (i \in DOMAIN down /\ down'[i] = down[i])
      BY <1>b, <2>1, Added
    <3> QED
      BY <1>5, <3>1
  <2> QED
    BY <1>6, <2>1
<1> QED
  BY <1>1, <1>7, <1>10, <1>14, <1>15, <1>16, <1>17, <1>18, <1>19, <1>20, LinesKeep

(* A step of the server that only forgets: the lines down are as they were *)
(* and no command goes anywhere.                                           *)
LEMMA ForgetKeeps ==
  ASSUME HandInv, StopInv', cli' = cli, actor' = actor, dev' = dev, graph' = graph, down' = down,
         StopperShape(stopper'), stopper'.at = stopper.at,
         ~Joined(up, br, cli),
         up' = up \/ (up # <<>> /\ up[1].op # "CMD" /\ up' = Tail(up)),
         br'.client => cli.conn \/ \E i \in DOMAIN up' : up'[i].op = "EOF",
         br'.epoch = br.epoch + 1, br'.pend = NoAct, br'.done \in {br.done, NoDone},
         (br'.acting <=> br.acting), br.stopping => br'.stopping,
         br'.there \in {br.there, 0}, br'.news \in BOOLEAN,
         br'.real => br.real /\ br'.held = br.held
  PROVE  HandInv'
<1>0. StopInv /\ Typed /\ BridgeInv /\ LinkInv /\ ViewInv /\ StopLines /\ TokenInv /\ Based
  BY Basis DEF HandInv
<1>b. /\ BrTyped(br) /\ br.epoch \in Nat /\ up \in Seq(Lines) /\ down \in Seq(Lines)
      /\ actor.act \in Acts /\ NoAct \in Acts /\ NoAct.id = 0
      /\ NoDone \in Dones /\ NoDone.some = FALSE
  <2>1. NoDone \in Dones /\ NoDone.some = FALSE
    BY DEF NoDone, Dones
  <2> QED
    BY <1>0, <2>1 DEF Based, Typed
<1>1. down = <<>> /\ cli.epoch = 0
  BY <1>0 DEF LinkInv
<1>2. br'.epoch \in Nat /\ br'.epoch > br.epoch /\ br'.epoch > 1
  BY <1>0, <1>b DEF BridgeInv
<1>3. BrTyped(br')
  BY <1>b DEF BrTyped
<1>4. Evolves(br, actor.act, dev.held, br', actor.act, dev.held)
  BY <1>b, <1>2 DEF Evolves
<1>5. HandsOn(br, actor.act, br', actor.act, dev.fin, dev.fin)
  BY <1>b DEF HandsOn
<1>6. up' \in Seq(Lines) /\ \A i \in DOMAIN up' : \E j \in DOMAIN up : up'[i] = up[j]
  <2>1. CASE up # <<>> /\ up' = Tail(up)
    <3>1. up' \in Seq(Lines) /\ \A i \in DOMAIN up' : i + 1 \in DOMAIN up /\ up'[i] = up[i + 1]
      BY <1>b, <2>1, Removed
    <3> QED
      BY <3>1
  <2>2. CASE up' = up
    BY <1>b, <2>2
  <2> QED
    BY <2>1, <2>2
<1>7. Typed'
  BY <1>0, <1>3, <1>6 DEF Typed, StopperShape
<1>8. BridgeInv'
  BY <1>0, <1>b, <1>2 DEF BridgeInv
<1>9. LinkInv'
  BY <1>1 DEF LinkInv
<1>10. /\ \A n \in Nat : Below(up, down, br, actor.act, n) => Below(up', down', br', actor.act, n)
       /\ cli.fly.id # 0 /\ ~cli.cmd =>
            \E w : \E k \in Nat \ {0} :
              AllBut(up', down', br', actor.act, dev.fin, cli.fly, cli.fly.ep, w, k)
  <2>1. CASE up # <<>> /\ up[1].op # "CMD" /\ up' = Tail(up)
    BY <1>b, <1>5, <2>1, TokenRead
  <2>2. CASE up' = up
    <3>1. br.pend.id # 0 => ~br.acting
      BY <1>0 DEF BridgeInv
    <3>2. \A n \in Nat : Below(up, down, br, actor.act, n) => Below(up', down', br', actor.act, n)
      BY <1>5, <2>2, <3>1, PassedOn
    <3>3. ASSUME cli.fly.id # 0 /\ ~cli.cmd
          PROVE  \E w : \E k \in Nat \ {0} :
                   AllBut(up', down', br', actor.act, dev.fin, cli.fly, cli.fly.ep, w, k)
      <4>1. PICK w : \E k \in Nat \ {0} : AllBut(up, down, br, actor.act, dev.fin, cli.fly, cli.fly.ep, w, k)
        BY <1>0, <3>3 DEF TokenInv
      <4>2. PICK k \in Nat \ {0} : AllBut(up, down, br, actor.act, dev.fin, cli.fly, cli.fly.ep, w, k)
        BY <4>1
      <4>3. \E w2 : AllBut(up, down, br', actor.act, dev.fin, cli.fly, cli.fly.ep, w2, k)
        BY <1>5, <3>1, <4>2, PassedOn
      <4> QED
        BY <2>2, <4>3
    <3> QED
      BY <3>2, <3>3
  <2> QED
    BY <2>1, <2>2
<1>11. StopLines' /\ MetasInv'
  BY <1>4, <1>10, StopsKeep, MetasKeep
<1>12. Below(up', down', br', actor.act, br'.epoch)
  BY <1>0, <1>2, <1>10 DEF TokenInv
<1> QED
  BY <1>1, <1>4, <1>6, <1>7, <1>8, <1>9, <1>10, <1>11, <1>12, LinesKeep

(* A connection ends, and one begins.                                      *)
LEMMA DisconnectKeeps ==
  ASSUME HandInv, Disconnect \/ Accepts
  PROVE  HandInv'
<1>0. StopInv /\ Typed /\ LinkInv /\ Based
  BY Basis DEF HandInv
<1>b. BrShape(br) /\ BrTyped(br) /\ br.epoch \in Nat /\ up \in Seq(Lines) /\ StopperShape(stopper)
  BY <1>0 DEF Based, Typed
<1>1. StopInv'
  BY <1>0, ServerKeeps DEF Server
<1>2. PICK s : s = StopRequested(br)
  OBVIOUS
<1>3. BrShape(s) /\ BrIs(s, br.epoch + 1, br.conn, br.client, NoAct, br.acting, TRUE, br.fault,
                         br.real, br.news, br.held, br.there, br.done)
  BY <1>b, <1>2, HelperFields
<1>4. PICK u : u = Unsampled(s)
  OBVIOUS
<1>5. BrShape(u) /\ BrIs(u, s.epoch, s.conn, s.client, s.pend, s.acting, s.stopping, s.fault,
                         FALSE, TRUE, FALSE, 0, s.done)
  BY <1>3, <1>4, HelperFields
<1>6. PICK v : v = Voided(br)
  OBVIOUS
<1>7. BrShape(v) /\ BrIs(v, br.epoch + 1, br.conn, br.client, NoAct, br.acting, br.stopping, br.fault,
                         br.real, br.news, br.held, br.there, br.done)
  BY <1>b, <1>6, HelperFields
<1>8. TRUE \in BOOLEAN /\ br.news \in BOOLEAN
  BY <1>b DEF BrTyped
<1>9. ASSUME Disconnect PROVE HandInv'
  <2>1. /\ cli' = cli /\ actor' = actor /\ dev' = dev /\ graph' = graph /\ down' = down
        /\ up # <<>> /\ up' = Tail(up) /\ Head(up).op = "EOF"
    BY <1>9 DEF Disconnect
  <2>2. up[1].op = "EOF" /\ 1 \in DOMAIN up
    BY <1>b, <2>1, Removed
  <2>3. ~Joined(up, br, cli)
    BY <2>2 DEF Joined
  <2>4. CASE br' = [u EXCEPT !.client = FALSE] /\ stopper' = [stopper EXCEPT !.same = FALSE]
    <3>1. stopper'.at = stopper.at /\ StopperShape(stopper')
      BY <1>b, <2>4 DEF StopperShape
    <3>2. /\ ~br'.client /\ br'.epoch = u.epoch /\ br'.pend = u.pend /\ br'.done = u.done
          /\ br'.there = u.there /\ br'.news = u.news
      BY <1>5, <2>4 DEF BrShape
    <3>3. (br'.acting <=> u.acting) /\ (br'.stopping <=> u.stopping) /\ (br'.real <=> u.real)
      BY <1>5, <2>4 DEF BrShape
    <3>4. /\ br'.epoch = br.epoch + 1 /\ br'.pend = NoAct /\ br'.done = br.done /\ br'.there = 0
          /\ br'.news = TRUE /\ (br'.acting <=> br.acting) /\ br'.stopping /\ ~br'.real
      BY <1>3, <1>5, <3>2, <3>3 DEF BrIs
    <3>5. br'.news \in BOOLEAN
      BY <1>8, <3>4
    <3> QED
      BY <1>1, <2>1, <2>2, <2>3, <3>1, <3>2, <3>4, <3>5, ForgetKeeps
  <2>5. CASE br' = [v EXCEPT !.client = FALSE] /\ stopper' = stopper
    <3>2. /\ ~br'.client /\ br'.epoch = v.epoch /\ br'.pend = v.pend /\ br'.done = v.done
          /\ br'.there = v.there /\ br'.news = v.news /\ br'.held = v.held
      BY <1>7, <2>5 DEF BrShape
    <3>3. (br'.acting <=> v.acting) /\ (br'.stopping <=> v.stopping) /\ (br'.real <=> v.real)
      BY <1>7, <2>5 DEF BrShape
    <3>4. /\ br'.epoch = br.epoch + 1 /\ br'.pend = NoAct /\ br'.done = br.done /\ br'.there = br.there
          /\ br'.news = br.news /\ (br'.acting <=> br.acting) /\ (br'.stopping <=> br.stopping)
          /\ (br'.real <=> br.real) /\ br'.held = br.held
      BY <1>7, <3>2, <3>3 DEF BrIs
    <3>5. br'.news \in BOOLEAN
      BY <1>8, <3>4
    <3> QED
      BY <1>b, <1>1, <2>1, <2>2, <2>3, <2>5, <3>2, <3>4, <3>5, ForgetKeeps
  <2> QED
    BY <1>2, <1>4, <1>6, <1>9, <2>4, <2>5 DEF Disconnect, Outdated
<1>10. ASSUME Accepts PROVE HandInv'
  <2>1. /\ cli' = cli /\ actor' = actor /\ dev' = dev /\ graph' = graph /\ down' = down /\ up' = up
        /\ stopper' = stopper /\ ~br.client
        /\ br' = [v EXCEPT !.client = TRUE, !.done = NoDone, !.news = TRUE]
        /\ cli.conn \/ \E i \in DOMAIN up : up[i].op = "EOF"
    BY <1>6, <1>10 DEF Accepts, Closed
  <2>2. ~Joined(up, br, cli)
    BY <2>1 DEF Joined
  <2>3. /\ br'.done = NoDone /\ br'.news = TRUE /\ br'.epoch = v.epoch /\ br'.pend = v.pend
        /\ br'.there = v.there /\ br'.held = v.held
    BY <1>7, <2>1 DEF BrShape
  <2>4. (br'.acting <=> v.acting) /\ (br'.stopping <=> v.stopping) /\ (br'.real <=> v.real)
    BY <1>7, <2>1 DEF BrShape
  <2>5. /\ br'.epoch = br.epoch + 1 /\ br'.pend = NoAct /\ br'.there = br.there
        /\ (br'.acting <=> br.acting) /\ (br'.stopping <=> br.stopping)
        /\ (br'.real <=> br.real) /\ br'.held = br.held
    BY <1>7, <2>3, <2>4 DEF BrIs
  <2>6. br'.news \in BOOLEAN
    BY <1>8, <2>3
  <2> QED
    BY <1>b, <1>1, <2>1, <2>2, <2>3, <2>5, <2>6, ForgetKeeps
<1> QED
  BY <1>9, <1>10

(* The server writes a line while the client is on its connection.         *)
LEMMA PushKeeps ==
  ASSUME HandInv, StopInv', cli' = cli, actor' = actor, dev' = dev, graph' = graph, up' = up,
         stopper' = stopper, br'.epoch = br.epoch, br'.client = br.client, br'.pend = br.pend,
         (br'.acting <=> br.acting), (br'.stopping <=> br.stopping), (br'.conn <=> br.conn),
         (br'.fault <=> br.fault), (br'.real <=> br.real), br'.held = br.held, BrTyped(br'),
         NEW r \in Lines, r.op # "STOPPING", r.op \in Replies,
         down' = down \/ (Joined(up, br, cli) /\ down' = Append(down, r)),
         r.op = "META" => r.ep = br'.epoch,
         MetasInv',
         \A n \in Nat : Below(up, down, br, actor.act, n) => Below(up', down', br', actor.act, n),
         cli.fly.id # 0 /\ ~cli.cmd =>
           \E w : \E k \in Nat \ {0} :
             AllBut(up', down', br', actor.act, dev.fin, cli.fly, cli.fly.ep, w, k)
  PROVE  HandInv'
<1>0. StopInv /\ Typed /\ BridgeInv /\ LinkInv /\ Based
  BY Basis DEF HandInv
<1>b. br.epoch \in Nat /\ down \in Seq(Lines)
  BY <1>0 DEF Based, Typed
<1>1. Evolves(br, actor.act, dev.held, br', actor.act, dev.held)
  BY <1>b DEF Evolves, Ready
<1>2. down' \in Seq(Lines) /\ \A i \in DOMAIN down' : down'[i] = r \/ \E j \in DOMAIN down : down'[i] = down[j]
  <2>1. CASE down' = Append(down, r)
    <3>1. down' \in Seq(Lines) /\ \A i \in DOMAIN down' : down'[i] = r \/ (i \in DOMAIN down /\ down'[i] = down[i])
      BY <1>b, <2>1, Added
    <3> QED
      BY <3>1
  <2>2. CASE down' = down
    BY <1>b, <2>2
  <2> QED
    BY <2>1, <2>2
<1>3. Typed'
  BY <1>0, <1>2 DEF Typed
<1>4. BridgeInv'
  BY <1>0 DEF BridgeInv
<1>5. LinkInv' /\ (Joined(up', br', cli') <=> Joined(up, br, cli))
  <2>1. \A i \in DOMAIN down' : down'[i].op \in Replies
    BY <1>0, <1>2 DEF LinkInv
  <2> QED
    BY <1>0, <2>1 DEF LinkInv, Joined
<1>6. StopLines'
  BY <1>1, StopsKeep
<1> QED
  BY <1>1, <1>2, <1>3, <1>4, <1>5, <1>6, LinesKeep

(* The verdict of an action is sent.                                       *)
LEMMA DoneKeeps ==
  ASSUME HandInv, PushesDone
  PROVE  HandInv'
<1>0. StopInv /\ Typed /\ TokenInv /\ Based
  BY Basis DEF HandInv
<1>b. BrShape(br) /\ BrTyped(br) /\ up \in Seq(Lines) /\ down \in Seq(Lines)
      /\ NoDone \in Dones /\ NoDone.some = FALSE
  <2>1. NoDone \in Dones /\ NoDone.some = FALSE
    BY DEF NoDone, Dones
  <2> QED
    BY <1>0, <2>1 DEF Based, Typed
<1>1. /\ cli' = cli /\ actor' = actor /\ dev' = dev /\ graph' = graph /\ up' = up
      /\ stopper' = stopper /\ br.client /\ br.done.some
      /\ br' = [br EXCEPT !.done = NoDone]
      /\ down' = Sent(Msg("DONE", br.done.ep, br.done.ok))
  BY DEF PushesDone
<1>2. StopInv'
  BY <1>0, ServerKeeps DEF Server
<1>3. br.done.ep \in Nat /\ br.done.ok \in BOOLEAN
  BY <1>b DEF BrTyped, Dones
<1>4. PICK r \in Lines : /\ r = Msg("DONE", br.done.ep, br.done.ok) /\ r.op = "DONE"
                         /\ r.ep = br.done.ep /\ r.ok = br.done.ok
  <2>1. IsLine(Msg("DONE", br.done.ep, br.done.ok), "DONE", br.done.ep)
        /\ Msg("DONE", br.done.ep, br.done.ok).ok = br.done.ok
    BY <1>3, DoneLine
  <2> QED
    BY <2>1 DEF IsLine
<1>5. down' = down \/ (Joined(up, br, cli) /\ down' = Append(down, r))
  BY <1>1, <1>4 DEF Sent, Closed, Joined
<1>6. /\ br'.epoch = br.epoch /\ br'.client = br.client /\ br'.pend = br.pend /\ br'.held = br.held
      /\ br'.done = NoDone /\ br'.there = br.there /\ br'.news = br.news
  BY <1>b, <1>1 DEF BrShape
<1>7. /\ (br'.acting <=> br.acting) /\ (br'.stopping <=> br.stopping) /\ (br'.conn <=> br.conn)
      /\ (br'.fault <=> br.fault) /\ (br'.real <=> br.real)
  BY <1>b, <1>1 DEF BrShape
<1>8. BrTyped(br')
  BY <1>b, <1>6 DEF BrTyped
<1>9. MetasInv'
  <2>1. br.epoch \in Nat
    BY <1>0 DEF Based
  <2>2. Evolves(br, actor.act, dev.held, br', actor.act, dev.held)
    BY <1>6, <1>7, <2>1 DEF Evolves, Ready
  <2>3. down' = down \/ (\E m \in Lines : down' = Append(down, m) /\ m.op # "META")
    BY <1>4, <1>5
  <2> QED
    BY <1>1, <2>2, <2>3, MetasKeep
<1>10. ASSUME NEW n \in Nat, Below(up, down, br, actor.act, n)
       PROVE  Below(up', down', br', actor.act, n)
  <2>1. r.ep < n
    BY <1>1, <1>4, <1>10 DEF Below
  <2>2. Below(up, down, br', actor.act, n)
    BY <1>b, <1>6, <1>7, <1>10 DEF Below
  <2>3. Below(up, Append(down, r), br', actor.act, n)
    BY <1>b, <2>1, <2>2, BelowLines
  <2> QED
    BY <1>1, <1>5, <2>2, <2>3
<1>11. ASSUME cli.fly.id # 0 /\ ~cli.cmd
       PROVE  \E w : \E k \in Nat \ {0} :
                AllBut(up', down', br', actor.act, dev.fin, cli.fly, cli.fly.ep, w, k)
  <2> DEFINE n == cli.fly.ep
  <2>1. PICK w : \E k \in Nat \ {0} : AllBut(up, down, br, actor.act, dev.fin, cli.fly, n, w, k)
    BY <1>0, <1>11 DEF TokenInv
  <2>2. PICK k \in Nat \ {0} : AllBut(up, down, br, actor.act, dev.fin, cli.fly, n, w, k)
    BY <2>1
  <2> HIDE DEF n
  <2>3. /\ UpBut(up, cli.fly, n, w, k) /\ AtBut(br, actor.act, dev.fin, cli.fly, n, w)
        /\ DownBut(down, dev.fin, cli.fly, n, w, k)
    BY <2>2 DEF AllBut
  <2>4. AtBut(br', actor.act, dev.fin, cli.fly, n, w)
    BY <1>b, <1>6, <1>7, <2>3 DEF AtBut
  <2>5. r.ep < n \/ (w = "done" /\ r.ep = cli.fly.ep /\ (r.ok => cli.fly.id \in dev.fin))
    BY <1>1, <1>4, <2>3 DEF AtBut
  <2>6. CASE r.ep < n \/ down' = down
    <3>1. r.ep < n => DownBut(Append(down, r), dev.fin, cli.fly, n, w, k)
      BY <1>b, <2>3, SentDown
    <3>2. DownBut(down', dev.fin, cli.fly, n, w, k)
      BY <1>5, <2>3, <2>6, <3>1
    <3>3. AllBut(up', down', br', actor.act, dev.fin, cli.fly, n, w, k)
      BY <1>1, <2>3, <2>4, <3>2 DEF AllBut
    <3> QED
      BY <3>3 DEF n
  <2>7. CASE w = "done" /\ r.ep = cli.fly.ep /\ (r.ok => cli.fly.id \in dev.fin) /\ down' = Append(down, r)
    <3>1. /\ DownBut(Append(down, r), dev.fin, cli.fly, n, "down", Len(down) + 1)
          /\ Len(down) + 1 \in Nat \ {0}
      BY <1>b, <2>3, <2>7, SentDown
    <3>2. UpBut(up, cli.fly, n, "down", Len(down) + 1)
      BY <2>3, <2>7 DEF UpBut
    <3>3. AtBut(br', actor.act, dev.fin, cli.fly, n, "down")
      BY <1>b, <1>6, <2>4, <2>7 DEF AtBut
    <3>4. AllBut(up', down', br', actor.act, dev.fin, cli.fly, n, "down", Len(down) + 1)
      BY <1>1, <2>7, <3>1, <3>2, <3>3 DEF AllBut
    <3> QED
      BY <3>1, <3>4 DEF n
  <2> QED
    BY <1>5, <2>5, <2>6, <2>7
<1>12. r.op # "STOPPING" /\ r.op # "META" /\ r.op \in Replies
  BY <1>4 DEF Replies
<1> QED
  BY <1>1, <1>2, <1>5, <1>6, <1>7, <1>8, <1>9, <1>10, <1>11, <1>12, PushKeeps

(* The bridge's state is sent: what it calls measured is so.               *)
LEMMA MetaKeeps ==
  ASSUME HandInv, PushesMeta
  PROVE  HandInv'
<1>0. StopInv /\ Typed /\ BridgeInv /\ ViewInv /\ TokenInv /\ Based
  BY Basis DEF HandInv
<1>b. BrShape(br) /\ BrTyped(br) /\ br.epoch \in Nat /\ up \in Seq(Lines) /\ down \in Seq(Lines)
      /\ br.there \in Nat /\ br.news \in BOOLEAN
  BY <1>0 DEF Based, Typed, BrTyped
<1>1. /\ cli' = cli /\ actor' = actor /\ dev' = dev /\ graph' = graph /\ up' = up
      /\ stopper' = stopper /\ br.client /\ Joined(up, br, cli)
      /\ \A i \in DOMAIN down : down[i].op # "META"
  BY DEF PushesMeta, Closed, Joined
<1>2. StopInv'
  BY <1>0, ServerKeeps
<1>3. PICK st \in Views : /\ st = StateOf(br) /\ (st.avail <=> br.conn /\ ~br.fault)
                          /\ (st.meas <=> Seen(br)) /\ (st.held <=> Seen(br) /\ br.held)
  <2>1. /\ StateOf(br) \in Views /\ (StateOf(br).avail <=> br.conn /\ ~br.fault)
        /\ (StateOf(br).meas <=> Seen(br)) /\ (StateOf(br).held <=> Seen(br) /\ br.held)
    <3> DEFINE av == br.conn /\ ~br.fault
               bu == Busy(br)
               me == Seen(br)
               he == Seen(br) /\ br.held
               th == IF Seen(br) THEN br.there ELSE 0
    <3>1. av \in BOOLEAN /\ bu \in BOOLEAN /\ me \in BOOLEAN /\ he \in BOOLEAN /\ th \in Nat
      BY <1>b DEF Busy, Seen
    <3>2. StateOf(br) = [avail |-> av, busy |-> bu, meas |-> me, held |-> he, there |-> th]
      BY DEF StateOf
    <3> HIDE DEF av, bu, me, he, th
    <3>3. /\ StateOf(br) \in Views /\ (StateOf(br).avail <=> av)
          /\ (StateOf(br).meas <=> me) /\ (StateOf(br).held <=> he)
      BY <3>1, <3>2 DEF Views
    <3> QED
      BY <3>3 DEF av, me, he
  <2> QED
    BY <2>1
<1>4. PICK r \in Lines : /\ down' = Append(down, r) /\ r.op = "META" /\ r.ep = br.epoch /\ r.st = st
  <2>1. /\ IsLine([Msg("META", br.epoch, TRUE) EXCEPT !.st = st, !.new = br.news], "META", br.epoch)
        /\ [Msg("META", br.epoch, TRUE) EXCEPT !.st = st, !.new = br.news].st = st
    <3>1. br.epoch \in Nat /\ br.news \in BOOLEAN /\ st \in Views
      BY <1>b
    <3> QED
      BY <3>1, MetaLine, Zenon
  <2>2. down' = Append(down, [Msg("META", br.epoch, TRUE) EXCEPT !.st = st, !.new = br.news])
    BY <1>3 DEF PushesMeta
  <2> QED
    BY <2>1, <2>2 DEF IsLine
<1>5. br' = br \/ br' = [br EXCEPT !.news = FALSE]
  BY DEF PushesMeta
<1>6. /\ br'.epoch = br.epoch /\ br'.client = br.client /\ br'.pend = br.pend /\ br'.held = br.held
      /\ br'.done = br.done /\ br'.there = br.there
  BY <1>b, <1>5 DEF BrShape
<1>7. /\ (br'.acting <=> br.acting) /\ (br'.stopping <=> br.stopping) /\ (br'.conn <=> br.conn)
      /\ (br'.fault <=> br.fault) /\ (br'.real <=> br.real)
  BY <1>b, <1>5 DEF BrShape
<1>8. BrTyped(br')
  <2>1. br'.news \in BOOLEAN
    BY <1>b, <1>5 DEF BrShape
  <2> QED
    BY <1>b, <1>6, <2>1 DEF BrTyped
<1>9. MetasInv'
  <2>1. \A i \in DOMAIN down' : down'[i].op = "META" => i = Len(down) + 1 /\ down'[i] = r
    <3>1. /\ down'[Len(down) + 1] = r
          /\ \A i \in DOMAIN down' : i = Len(down) + 1 \/ (i \in DOMAIN down /\ down'[i] = down[i])
      BY <1>b, <1>4, Added
    <3> QED
      BY <1>1, <3>1
  <2>2. Ready(br) => Ready(br')
    BY <1>6, <1>7 DEF Ready
  <2>3. Seen(br) => Ready(br) /\ br.real /\ ~br.acting
    BY DEF Seen, Busy, Ready
  <2>4. ViewOK(br', actor'.act, dev'.held, r.ep, r.st)
    <3>1. ASSUME Seen(br) PROVE Quiet(br', actor'.act, br.epoch) /\ br.conn /\ ~br.fault
      BY <1>b, <1>6, <1>7, <2>2, <2>3, <3>1 DEF Quiet, Ready
    <3>2. ASSUME Seen(br), ~br.held PROVE Empty(br', dev'.held, br.epoch)
      <4>1. ~dev.held
        BY <1>0, <2>3, <3>2 DEF BridgeInv
      <4> QED
        BY <1>b, <1>1, <1>6, <2>2, <2>3, <3>2, <4>1 DEF Empty
    <3> QED
      BY <1>3, <1>4, <3>1, <3>2 DEF ViewOK
  <2>5. cli.st.meas /\ r.ep = cli.epoch => r.st.avail
    <3>1. cli.st.meas /\ r.ep = cli.epoch => Ready(br)
      BY <1>0, <1>4 DEF ViewInv, ViewOK, Quiet
    <3> QED
      BY <1>3, <1>4, <3>1 DEF Ready
  <2>6. cli.fly.id # 0 /\ r.ep = cli.fly.ep => r.st.avail
    <3>1. cli.fly.id # 0 /\ r.ep = cli.fly.ep => Ready(br)
      BY <1>0, <1>4 DEF ViewInv, FlyOK, Quiet
    <3> QED
      BY <1>3, <1>4, <3>1 DEF Ready
  <2>7. r.ep # 0 /\ cli.epoch <= r.ep /\ r.ep <= br'.epoch
    BY <1>0, <1>b, <1>4, <1>6 DEF BridgeInv, ViewInv
  <2>8. MetaOK(br', actor'.act, dev'.held, cli', r)
    BY <1>1, <2>4, <2>5, <2>6, <2>7 DEF MetaOK
  <2> QED
    BY <2>1, <2>8 DEF MetasInv
<1>10. ASSUME NEW n \in Nat, Below(up, down, br, actor.act, n)
       PROVE  Below(up', down', br', actor.act, n)
  <2>1. Below(up, down, br', actor.act, n)
    BY <1>6, <1>7, <1>10 DEF Below
  <2>2. Below(up, Append(down, r), br', actor.act, n)
    BY <1>b, <1>4, <2>1, BelowLines
  <2> QED
    BY <1>1, <1>4, <2>2
<1>11. ASSUME cli.fly.id # 0 /\ ~cli.cmd
       PROVE  \E w : \E k \in Nat \ {0} :
                AllBut(up', down', br', actor.act, dev.fin, cli.fly, cli.fly.ep, w, k)
  <2> DEFINE n == cli.fly.ep
  <2>1. PICK w : \E k \in Nat \ {0} : AllBut(up, down, br, actor.act, dev.fin, cli.fly, n, w, k)
    BY <1>0, <1>11 DEF TokenInv
  <2>2. PICK k \in Nat \ {0} : AllBut(up, down, br, actor.act, dev.fin, cli.fly, n, w, k)
    BY <2>1
  <2> HIDE DEF n
  <2>3. AllBut(up, down, br', actor.act, dev.fin, cli.fly, n, w, k)
    BY <1>6, <1>7, <2>2 DEF AllBut, AtBut
  <2>4. AllBut(up, Append(down, r), br', actor.act, dev.fin, cli.fly, n, w, k)
    BY <1>b, <1>4, <2>3, PassedLines
  <2> QED
    BY <1>1, <1>4, <2>4 DEF n
<1>12. r.op # "STOPPING" /\ (r.op = "META" => r.ep = br'.epoch) /\ r.op \in Replies
  BY <1>4, <1>6 DEF Replies
<1> QED
  BY <1>1, <1>2, <1>4, <1>6, <1>7, <1>8, <1>9, <1>10, <1>11, <1>12, PushKeeps

-----------------------------------------------------------------------------
(* The client.                                                             *)

(* A step of the client or the node leaves the bridge alone.               *)
Above == graph' = graph /\ br' = br /\ actor' = actor /\ dev' = dev /\ stopper' = stopper

(* So this much of the invariant stands.                                   *)
LEMMA AboveBase ==
  ASSUME HandInv, Above, CliTyped(cli'), up' \in Seq(Lines), down' \in Seq(Lines)
  PROVE  StopInv' /\ Typed' /\ BridgeInv'
<1>1. StopInv'
  BY DEF HandInv, StopInv, Above
<1>2. Typed'
  BY DEF HandInv, Typed, Above
<1>3. BridgeInv'
  BY DEF HandInv, BridgeInv, Above
<1> QED
  BY <1>1, <1>2, <1>3

(* What a step may do to the client: leave its action and its stop as they *)
(* are, or cancel the action.                                              *)
SameView(c, d) == d.conn = c.conn /\ d.epoch = c.epoch /\ d.st = c.st
SameStop(c, d) == (d.cancel <=> c.cancel) /\ (d.waiting <=> c.waiting) /\ d.stopEp = c.stopEp
SameFly(c, d) == d.fly = c.fly /\ (d.cmd <=> c.cmd)
NoFly(d) == d.fly = NoAct /\ ~d.cmd
Touched(c, d) ==
  /\ CliTyped(d) /\ SameView(c, d)
  /\ \/ SameFly(c, d) /\ SameStop(c, d)
     \/ /\ NoFly(d) /\ d.waiting
        /\ c.waiting => SameStop(c, d)
        /\ ~c.waiting => d.cancel /\ d.stopEp = 0
Edited(c, d) == Touched(c, d) /\ d.want \subseteq c.want

(* Either way the invariant stands: from now on the client waits for a     *)
(* stop that is still to be sent.                                          *)
LEMMA EditKeeps ==
  ASSUME HandInv, Above, up' = up, down' = down, Touched(cli, cli')
  PROVE  HandInv'
<1>0. StopInv /\ Typed /\ BridgeInv /\ LinkInv /\ ViewInv /\ StopLines /\ TokenInv /\ Based
  BY Basis DEF HandInv
<1>b. /\ up \in Seq(Lines) /\ down \in Seq(Lines) /\ NoAct.id = 0 /\ CliTyped(cli')
      /\ cli'.conn = cli.conn /\ cli'.epoch = cli.epoch /\ cli'.st = cli.st
  BY <1>0 DEF Based, Typed, Touched, SameView
<1>1. StopInv' /\ Typed' /\ BridgeInv'
  BY <1>b, AboveBase
<1>2. br' = br /\ actor' = actor /\ dev' = dev
  BY DEF Above
<1>3. LinkInv'
  BY <1>0, <1>b, <1>2 DEF LinkInv, Joined
<1>4. CASE SameFly(cli, cli') /\ SameStop(cli, cli')
  <2>1. /\ cli'.fly = cli.fly /\ (cli'.cmd <=> cli.cmd) /\ (cli'.cancel <=> cli.cancel)
        /\ (cli'.waiting <=> cli.waiting) /\ cli'.stopEp = cli.stopEp
    BY <1>4 DEF SameFly, SameStop
  <2>2. FlyOK(br', actor'.act, dev'.held, cli')
    BY <1>0, <1>b, <1>2, <2>1 DEF ViewInv, FlyOK
  <2>3. \A m : MetaOK(br, actor.act, dev.held, cli, m) => MetaOK(br', actor'.act, dev'.held, cli', m)
    BY <1>b, <1>2, <2>1 DEF MetaOK
  <2>4. ViewInv'
    BY <1>0, <1>b, <1>2, <2>2, <2>3 DEF ViewInv
  <2>5. StopLines'
    BY <1>0, <1>b, <1>2, <2>1 DEF StopLines
  <2>6. TokenInv'
    <3>1. Joined(up', br', cli') <=> Joined(up, br, cli)
      BY <1>b, <1>2 DEF Joined
    <3> QED
      BY <1>0, <1>b, <1>2, <2>1, <3>1 DEF TokenInv
  <2> QED
    BY <1>1, <1>3, <2>4, <2>5, <2>6 DEF HandInv
<1>5. CASE /\ NoFly(cli') /\ cli'.waiting
           /\ cli.waiting => SameStop(cli, cli')
           /\ ~cli.waiting => cli'.cancel /\ cli'.stopEp = 0
  <2>1. cli'.fly.id = 0 /\ ~cli'.cmd
    BY <1>b, <1>5 DEF NoFly
  <2>2. FlyOK(br', actor'.act, dev'.held, cli')
    BY <2>1 DEF FlyOK
  <2>3. \A m : MetaOK(br, actor.act, dev.held, cli, m) => MetaOK(br', actor'.act, dev'.held, cli', m)
    BY <1>b, <1>2, <2>1 DEF MetaOK
  <2>4. ViewInv'
    BY <1>0, <1>b, <1>2, <2>2, <2>3 DEF ViewInv
  <2>5. StopLines'
    <3>1. CASE cli.waiting
      BY <1>0, <1>b, <1>2, <1>5, <3>1 DEF StopLines, SameStop
    <3>2. CASE ~cli.waiting
      BY <1>0, <1>b, <1>2, <1>5, <3>2 DEF StopLines
    <3> QED
      BY <3>1, <3>2
  <2>6. TokenInv'
    <3>1. Joined(up', br', cli') <=> Joined(up, br, cli)
      BY <1>b, <1>2 DEF Joined
    <3> QED
      BY <1>0, <1>b, <1>2, <1>5, <2>1, <3>1 DEF TokenInv
  <2> QED
    BY <1>1, <1>3, <2>4, <2>5, <2>6 DEF HandInv
<1> QED
  BY <1>4, <1>5 DEF Touched

(* A fresh action is admitted by the client: it was measured ready in the  *)
(* very epoch the command will carry.                                      *)
AdmitsTo(c, d) ==
  /\ CliTyped(d) /\ SameView(c, d) /\ SameStop(c, d) /\ d.want \subseteq c.want
  /\ c.st.meas /\ c.epoch # 0 /\ ~c.waiting /\ c.fly.id = 0
  /\ d.fly.id # 0 /\ d.fly.ep = c.epoch /\ d.cmd
  /\ d.fly.kind = "move" => ~c.st.held

(* The invariant stands.                                                   *)
LEMMA AdmitKeeps ==
  ASSUME HandInv, Above, up' = up, down' = down, AdmitsTo(cli, cli')
  PROVE  HandInv'
<1>0. StopInv /\ Typed /\ BridgeInv /\ LinkInv /\ ViewInv /\ StopLines /\ TokenInv
  BY DEF HandInv
<1>b. /\ up \in Seq(Lines) /\ down \in Seq(Lines) /\ CliTyped(cli') /\ cli.epoch \in Nat
      /\ cli'.conn = cli.conn /\ cli'.epoch = cli.epoch /\ cli'.st = cli.st
  BY <1>0 DEF Typed, AdmitsTo, SameView, CliTyped
<1>1. StopInv' /\ Typed' /\ BridgeInv'
  BY <1>b, AboveBase
<1>2. br' = br /\ actor' = actor /\ dev' = dev
  BY DEF Above
<1>3. LinkInv' /\ (Joined(up', br', cli') <=> Joined(up, br, cli))
  BY <1>0, <1>b, <1>2 DEF LinkInv, Joined
<1>4. /\ (cli'.cancel <=> cli.cancel) /\ (cli'.waiting <=> cli.waiting) /\ cli'.stopEp = cli.stopEp
      /\ cli.st.meas /\ cli.epoch # 0 /\ ~cli.waiting /\ cli.fly.id = 0
      /\ cli'.fly.id # 0 /\ cli'.fly.ep = cli.epoch /\ cli'.cmd
      /\ (cli'.fly.kind = "move" => ~cli.st.held)
  BY DEF AdmitsTo, SameStop
<1>5. Quiet(br, actor.act, cli.epoch) /\ (cli'.fly.kind = "move" => Empty(br, dev.held, cli.epoch))
  BY <1>0, <1>4 DEF ViewInv, ViewOK
<1>6. FlyOK(br', actor'.act, dev'.held, cli')
  BY <1>b, <1>2, <1>4, <1>5 DEF FlyOK
<1>7. \A m : MetaOK(br, actor.act, dev.held, cli, m) => MetaOK(br', actor'.act, dev'.held, cli', m)
  BY <1>b, <1>2, <1>4 DEF MetaOK
<1>8. ViewInv'
  BY <1>0, <1>b, <1>2, <1>6, <1>7 DEF ViewInv
<1>9. StopLines'
  BY <1>0, <1>b, <1>2, <1>4 DEF StopLines
<1>10. TokenInv'
  BY <1>0, <1>b, <1>2, <1>3, <1>4 DEF TokenInv
<1> QED
  BY <1>1, <1>3, <1>8, <1>9, <1>10 DEF HandInv

(* The fields of a client from which some are set.                         *)
LEMMA SentFields ==
  ASSUME CliTyped(cli), cli' = [cli EXCEPT !.cancel = FALSE, !.cmd = FALSE]
  PROVE  /\ CliTyped(cli') /\ SameView(cli, cli') /\ ~cli'.cancel /\ ~cli'.cmd
         /\ (cli'.waiting <=> cli.waiting) /\ cli'.stopEp = cli.stopEp /\ cli'.fly = cli.fly
<1>1. CliShape(cli) /\ cli.epoch \in Nat /\ cli.stopEp \in Nat /\ cli.fly \in Acts
  BY DEF CliTyped
<1>2. /\ cli'.epoch = cli.epoch /\ cli'.stopEp = cli.stopEp /\ cli'.fly = cli.fly /\ cli'.st = cli.st
      /\ cli'.conn = cli.conn /\ (cli'.waiting <=> cli.waiting) /\ ~cli'.cancel /\ ~cli'.cmd
  BY <1>1 DEF CliShape
<1>3. CliShape(cli')
  BY <1>1 DEF CliShape
<1> QED
  BY <1>1, <1>2, <1>3 DEF CliTyped, SameView

(* The last stop line, when a line is added.                               *)
LEMMA LastOfAppend ==
  ASSUME NEW u \in Seq(Lines), NEW m \in Lines, NEW i \in DOMAIN Append(u, m),
         LastStop(Append(u, m), i)
  PROVE  /\ m.op # "EOF" \/ i = Len(u) + 1
         /\ i \in DOMAIN u \/ (i = Len(u) + 1 /\ m.op = "GSTOP")
         /\ i \in DOMAIN u => LastStop(u, i)
<1>1. /\ Len(u) + 1 \in DOMAIN Append(u, m) /\ Append(u, m)[Len(u) + 1] = m
      /\ \A k \in DOMAIN u : k \in DOMAIN Append(u, m) /\ Append(u, m)[k] = u[k] /\ k < Len(u) + 1
      /\ i = Len(u) + 1 \/ i \in DOMAIN u
  BY Added
<1>2. i \in DOMAIN u => LastStop(u, i)
  BY <1>1 DEF LastStop
<1>3. i = Len(u) + 1 => m.op = "GSTOP"
  BY <1>1 DEF LastStop
<1>4. i \in DOMAIN u => m.op # "EOF"
  <2>1. i \in DOMAIN u => Len(u) + 1 > i
    BY <1>1
  <2> QED
    BY <1>1, <2>1 DEF LastStop
<1> QED
  BY <1>1, <1>2, <1>3, <1>4

(* The client writes a line: its stop first, or its command.               *)
LEMMA SendKeeps ==
  ASSUME HandInv, ClientSends
  PROVE  HandInv'
<1>0. StopInv /\ Typed /\ BridgeInv /\ LinkInv /\ ViewInv /\ StopLines /\ TokenInv
  BY DEF HandInv
<1>b. /\ up \in Seq(Lines) /\ down \in Seq(Lines) /\ CliTyped(cli) /\ cli.fly \in Acts
      /\ cli.fly.ep \in Nat /\ cli.epoch \in Nat /\ br.epoch \in Nat /\ BrTyped(br) /\ actor.act \in Acts
  BY <1>0 DEF Typed, CliTyped, Acts, StopInv
<1>1. /\ Above /\ down' = down /\ cli.conn /\ (cli.cancel \/ cli.cmd)
      /\ cli' = [cli EXCEPT !.cancel = FALSE, !.cmd = FALSE]
  BY DEF ClientSends, Above
<1>2. /\ CliTyped(cli') /\ ~cli'.cancel /\ ~cli'.cmd
      /\ (cli'.waiting <=> cli.waiting) /\ cli'.stopEp = cli.stopEp /\ cli'.fly = cli.fly
      /\ cli'.conn = cli.conn /\ cli'.epoch = cli.epoch /\ cli'.st = cli.st
  BY <1>b, <1>1, SentFields DEF SameView
<1>3. br' = br /\ actor' = actor /\ dev' = dev
  BY <1>1 DEF Above
<1>4. ASSUME NEW m \in Lines, up' = Append(up, m), m.op # "EOF",
             m.op = "CMD" => CmdOK(br, dev.held, m) /\ m.ep <= br.epoch /\ cli.epoch # 0,
             StopLines',
             cli.fly.id # 0 => \E w : \E k \in Nat \ {0} :
               AllBut(up', down, br, actor.act, dev.fin, cli.fly, cli.fly.ep, w, k),
             m.op = "CMD" => cli.fly.id # 0
      PROVE  HandInv'
  <2>1. up' \in Seq(Lines) /\ \A i \in DOMAIN up' : up'[i] = m \/ (i \in DOMAIN up /\ up'[i] = up[i])
    BY <1>b, <1>4, Added
  <2>2. \A i \in DOMAIN up : i \in DOMAIN up' /\ up'[i] = up[i]
    BY <1>b, <1>4, Added
  <2>3. StopInv' /\ Typed' /\ BridgeInv'
    BY <1>b, <1>1, <1>2, <2>1, AboveBase
  <2>4. Joined(up', br', cli') <=> Joined(up, br, cli)
    BY <1>2, <1>3, <1>4, <2>1, <2>2 DEF Joined
  <2>5. LinkInv'
    BY <1>0, <1>1, <1>2, <1>3, <2>4 DEF LinkInv
  <2>6. ViewInv'
    <3>1. FlyOK(br', actor'.act, dev'.held, cli')
      BY <1>0, <1>2, <1>3 DEF ViewInv, FlyOK
    <3>2. \A x : MetaOK(br, actor.act, dev.held, cli, x) => MetaOK(br', actor'.act, dev'.held, cli', x)
      BY <1>2, <1>3 DEF MetaOK
    <3>3. \A i \in DOMAIN up' : up'[i].op = "CMD" => CmdOK(br', dev'.held, up'[i])
      BY <1>0, <1>3, <1>4, <2>1 DEF ViewInv
    <3> QED
      BY <1>0, <1>1, <1>2, <1>3, <3>1, <3>2, <3>3 DEF ViewInv
  <2>7. \A n : Below(up, down, br, actor.act, n) /\ (m.op = "CMD" => m.ep < n) => Below(up', down', br', actor'.act, n)
    BY <1>b, <1>1, <1>3, <1>4, BelowLines
  <2>8. m.op = "CMD" => m.ep < br.epoch + 1
    <3>1. m.ep \in Nat
      BY LinesAre
    <3> QED
      BY <1>b, <1>4, <3>1
  <2>9. TokenInv'
    <3>1. Below(up', down', br', actor'.act, br'.epoch + 1)
      BY <1>0, <1>3, <2>7, <2>8 DEF TokenInv
    <3>2. ASSUME Joined(up', br', cli'), cli'.epoch = 0
          PROVE  /\ Below(up', down', br', actor'.act, br'.epoch)
                 /\ \A i \in DOMAIN down' : down'[i].op = "META" =>
                      Below(up', down', br', actor'.act, down'[i].ep)
      <4>1. /\ Below(up, down, br, actor.act, br.epoch)
            /\ \A i \in DOMAIN down : down[i].op = "META" => Below(up, down, br, actor.act, down[i].ep)
        BY <1>0, <1>2, <2>4, <3>2 DEF TokenInv
      <4>2. m.op # "CMD"
        BY <1>2, <1>4, <3>2
      <4> QED
        BY <1>1, <1>3, <2>7, <4>1, <4>2
    <3>3. cli'.epoch # 0 /\ cli'.fly.id = 0 /\ ~cli'.waiting
            => Below(up', down', br', actor'.act, cli'.epoch)
      BY <1>0, <1>2, <1>4, <2>7 DEF TokenInv
    <3>4. cli'.fly.id # 0 => \E w : \E k \in Nat \ {0} :
            AllBut(up', down', br', actor'.act, dev'.fin, cli'.fly, cli'.fly.ep, w, k)
      BY <1>1, <1>2, <1>3, <1>4
    <3> QED
      BY <1>2, <3>1, <3>2, <3>3, <3>4 DEF TokenInv
  <2> QED
    BY <1>4, <2>3, <2>5, <2>6, <2>9 DEF HandInv
<1>5. CASE cli.cancel
  <2>1. cli.waiting /\ cli.stopEp = 0 /\ cli.fly.id = 0
    BY <1>0, <1>5 DEF StopLines, ViewInv, FlyOK
  <2>2. PICK m \in Lines : up' = Append(up, m) /\ m.op = "GSTOP"
    BY <1>5, StopLine DEF ClientSends, IsLine
  <2>3. \A i \in DOMAIN up' : LastStop(up', i) => i = Len(up) + 1
    <3>1. ASSUME NEW i \in DOMAIN up', LastStop(up', i) PROVE i = Len(up) + 1
      <4>1. i \in DOMAIN up \/ i = Len(up) + 1
        BY <1>b, <2>2, <3>1, Added
      <4>2. i \in DOMAIN up => LastStop(up, i)
        BY <1>b, <2>2, <3>1, LastOfAppend
      <4> QED
        BY <1>0, <1>5, <4>1, <4>2 DEF StopLines
    <3> QED
      BY <3>1
  <2>4. \A k \in DOMAIN down : down[k].op # "STOPPING"
    BY <1>0, <1>5 DEF StopLines
  <2>5. StopLines'
    BY <1>1, <1>2, <2>1, <2>3, <2>4 DEF StopLines
  <2>6. m.op # "EOF" /\ m.op # "CMD"
    BY <2>2
  <2> QED
    BY <1>4, <2>1, <2>2, <2>5, <2>6
<1>6. CASE ~cli.cancel
  <2>1. cli.cmd /\ cli.fly.id # 0 /\ ~cli.waiting /\ cli.stopEp = 0 /\ cli.epoch # 0
        /\ cli.fly.ep <= cli.epoch /\ (cli.fly.kind = "move" => Empty(br, dev.held, cli.fly.ep))
    BY <1>0, <1>1, <1>6 DEF StopLines, ViewInv, FlyOK
  <2>2. PICK m \in Lines : up' = Append(up, m) /\ m.op = "CMD" /\ m.ep = cli.fly.ep /\ m.act = cli.fly
    <3>1. up' = Append(up, [Msg("CMD", cli.fly.ep, TRUE) EXCEPT !.act = cli.fly])
      BY <1>6 DEF ClientSends
    <3>2. /\ IsLine([Msg("CMD", cli.fly.ep, TRUE) EXCEPT !.act = cli.fly], "CMD", cli.fly.ep)
          /\ [Msg("CMD", cli.fly.ep, TRUE) EXCEPT !.act = cli.fly].act = cli.fly
      BY <1>b, CommandLine, Zenon
    <3> QED
      BY <3>1, <3>2 DEF IsLine
  <2>3. m.ep <= br.epoch /\ CmdOK(br, dev.held, m)
    <3>1. cli.epoch <= br.epoch
      BY <1>0 DEF ViewInv
    <3>2. m.ep <= br.epoch
      BY <1>b, <2>1, <2>2, <3>1
    <3>3. CmdOK(br, dev.held, m)
      BY <2>1, <2>2 DEF CmdOK
    <3> QED
      BY <3>2, <3>3
  <2>4. \A i \in DOMAIN up' : ~LastStop(up', i)
    <3>1. ASSUME NEW i \in DOMAIN up', LastStop(up', i) PROVE FALSE
      <4>1. i \in DOMAIN up \/ m.op = "GSTOP"
        BY <1>b, <2>2, <3>1, LastOfAppend
      <4>2. i \in DOMAIN up => LastStop(up, i)
        BY <1>b, <2>2, <3>1, LastOfAppend
      <4> QED
        BY <1>0, <2>1, <2>2, <4>1, <4>2 DEF StopLines
    <3> QED
      BY <3>1
  <2>5. \A k \in DOMAIN down : down[k].op # "STOPPING"
    BY <1>0, <2>1 DEF StopLines
  <2>6. StopLines'
    BY <1>1, <1>2, <2>1, <2>4, <2>5 DEF StopLines
  <2>7. AllBut(up', down, br, actor.act, dev.fin, cli.fly, cli.fly.ep, "up", Len(up) + 1)
    <3>1. Below(up, down, br, actor.act, cli.fly.ep)
      BY <1>0, <2>1 DEF TokenInv
    <3>2. \A i \in DOMAIN up' : (i = Len(up) + 1 /\ up'[i] = m) \/ (i \in DOMAIN up /\ up'[i] = up[i])
      BY <1>b, <2>2, Added
    <3>3. UpBut(up', cli.fly, cli.fly.ep, "up", Len(up) + 1)
      BY <2>2, <3>1, <3>2 DEF Below, UpBut
    <3>4. AtBut(br, actor.act, dev.fin, cli.fly, cli.fly.ep, "up")
      BY <3>1 DEF Below, AtBut
    <3>5. DownBut(down, dev.fin, cli.fly, cli.fly.ep, "up", Len(up) + 1)
      BY <3>1 DEF Below, DownBut
    <3> QED
      BY <3>3, <3>4, <3>5 DEF AllBut
  <2>8. Len(up) + 1 \in Nat \ {0} /\ m.op # "EOF"
    BY <1>b, <2>2
  <2>9. \E w : \E k \in Nat \ {0} :
          AllBut(up', down, br, actor.act, dev.fin, cli.fly, cli.fly.ep, w, k)
    BY <2>7, <2>8
  <2> QED
    BY <1>4, <2>1, <2>2, <2>3, <2>6, <2>8, <2>9
<1> QED
  BY <1>5, <1>6

(* The action in flight is over for the node.                              *)
LEMMA FailedFields ==
  ASSUME NEW c, CliTyped(c)
  PROVE  /\ CliTyped(FlyFailed(c)) /\ SameView(c, FlyFailed(c)) /\ SameStop(c, FlyFailed(c))
         /\ NoFly(FlyFailed(c)) /\ FlyFailed(c).gdone = c.gdone /\ FlyFailed(c).want \subseteq c.want
         /\ FlyFailed(c).moved = (IF c.fly.kind = "move" THEN Append(c.moved, [id |-> c.fly.id, ok |-> FALSE])
                                  ELSE c.moved)
         /\ FlyFailed(c).fails = (IF c.fly.kind \in GraspKinds THEN Append(c.fails, c.fly.id) ELSE c.fails)
<1>1. CliShape(c) /\ c.epoch \in Nat /\ c.stopEp \in Nat /\ c.fly \in Acts /\ NoAct \in Acts
  BY LineParts DEF CliTyped
<1> DEFINE mo == IF c.fly.kind = "move" THEN Append(c.moved, [id |-> c.fly.id, ok |-> FALSE]) ELSE c.moved
           fa == IF c.fly.kind \in GraspKinds THEN Append(c.fails, c.fly.id) ELSE c.fails
<1>2. PICK d : d = FlyFailed(c)
  OBVIOUS
<1>3. d = [c EXCEPT !.moved = mo, !.fails = fa, !.fly = NoAct, !.cmd = FALSE, !.want = {}]
  BY <1>2 DEF FlyFailed
<1> HIDE DEF mo, fa
<1>4. /\ d.conn = c.conn /\ d.epoch = c.epoch /\ d.st = c.st /\ d.stopEp = c.stopEp /\ d.fly = NoAct
      /\ d.gdone = c.gdone /\ d.moved = mo /\ d.fails = fa /\ d.want = {}
  BY <1>1, <1>3 DEF CliShape
<1>5. (d.cancel <=> c.cancel) /\ (d.waiting <=> c.waiting) /\ ~d.cmd
  BY <1>1, <1>3 DEF CliShape
<1>6. CliShape(d)
  BY <1>1, <1>3 DEF CliShape
<1>7. CliTyped(d) /\ SameView(c, d) /\ SameStop(c, d) /\ NoFly(d)
  BY <1>1, <1>4, <1>5, <1>6 DEF CliTyped, SameView, SameStop, NoFly
<1> QED
  BY <1>2, <1>4, <1>7 DEF mo, fa

(* Cancelled, it is over, and a stop is to be sent unless one is under     *)
(* way.                                                                    *)
LEMMA CancelledFields ==
  ASSUME NEW c, CliTyped(c)
  PROVE  /\ Edited(c, MoveCancelled(c)) /\ NoFly(MoveCancelled(c)) /\ MoveCancelled(c).gdone = c.gdone
         /\ MoveCancelled(c).moved = (IF c.fly.kind = "move" THEN Append(c.moved, [id |-> c.fly.id, ok |-> FALSE])
                                      ELSE c.moved)
         /\ MoveCancelled(c).fails = (IF c.fly.kind \in GraspKinds THEN Append(c.fails, c.fly.id) ELSE c.fails)
<1>1. CliShape(c) /\ c.epoch \in Nat /\ c.stopEp \in Nat /\ c.fly \in Acts
  BY DEF CliTyped
<1>2. CASE c.waiting
  <2>1. MoveCancelled(c) = FlyFailed(c)
    BY <1>2 DEF MoveCancelled
  <2>2. (FlyFailed(c).waiting <=> c.waiting) /\ CliTyped(FlyFailed(c)) /\ SameView(c, FlyFailed(c))
        /\ SameStop(c, FlyFailed(c)) /\ NoFly(FlyFailed(c))
    BY FailedFields DEF SameStop
  <2> QED
    BY <1>2, <2>1, <2>2, FailedFields DEF Edited, Touched
<1>3. CASE ~c.waiting
  <2>1. PICK e : e = [c EXCEPT !.cancel = TRUE, !.waiting = TRUE, !.stopEp = 0]
    OBVIOUS
  <2>2. MoveCancelled(c) = FlyFailed(e)
    BY <1>3, <2>1 DEF MoveCancelled
  <2>3. /\ e.conn = c.conn /\ e.epoch = c.epoch /\ e.st = c.st /\ e.stopEp = 0 /\ e.fly = c.fly
        /\ e.gdone = c.gdone /\ e.moved = c.moved /\ e.fails = c.fails /\ e.want = c.want
    BY <1>1, <2>1 DEF CliShape
  <2>4. e.cancel /\ e.waiting
    BY <1>1, <2>1 DEF CliShape
  <2>5. CliShape(e)
    BY <1>1, <2>1 DEF CliShape
  <2>6. CliTyped(e)
    BY <1>1, <2>3, <2>5 DEF CliTyped
  <2>7. PICK d : d = FlyFailed(e)
    OBVIOUS
  <2>8. /\ CliTyped(d) /\ SameView(e, d) /\ SameStop(e, d) /\ NoFly(d) /\ d.gdone = e.gdone
        /\ d.want \subseteq e.want
        /\ d.moved = (IF e.fly.kind = "move" THEN Append(e.moved, [id |-> e.fly.id, ok |-> FALSE])
                      ELSE e.moved)
        /\ d.fails = (IF e.fly.kind \in GraspKinds THEN Append(e.fails, e.fly.id) ELSE e.fails)
    BY <2>6, <2>7, FailedFields
  <2>9. SameView(c, d) /\ d.cancel /\ d.waiting /\ d.stopEp = 0
    BY <2>3, <2>4, <2>8 DEF SameView, SameStop
  <2>10. Edited(c, d)
    BY <1>3, <2>3, <2>8, <2>9 DEF Edited, Touched
  <2> QED
    BY <2>2, <2>3, <2>7, <2>8, <2>10
<1> QED
  BY <1>2, <1>3

(* The link is lost: nothing the client sent is answered any more.         *)
LEMMA LostKeeps ==
  ASSUME HandInv, LinkLost
  PROVE  HandInv'
<1>0. StopInv /\ Typed /\ BridgeInv /\ LinkInv /\ ViewInv /\ StopLines /\ TokenInv
  BY DEF HandInv
<1>b. up \in Seq(Lines) /\ down \in Seq(Lines) /\ CliTyped(cli) /\ br.epoch \in Nat /\ <<>> \in Seq(Lines)
      /\ NoAct.id = 0 /\ NoState.meas = FALSE
  BY <1>0 DEF Typed, StopInv, NoAct, NoState
<1>1. Above /\ down' = <<>>
  BY DEF LinkLost, Above
<1>2. PICK f : f = FlyFailed(cli)
  OBVIOUS
<1>3. CliTyped(f) /\ SameStop(cli, f) /\ NoFly(f)
  BY <1>b, <1>2, FailedFields
<1>4. cli' = [f EXCEPT !.conn = FALSE, !.epoch = 0, !.caps = FALSE, !.st = NoState]
  BY <1>2 DEF LinkLost
<1>5. CliShape(f) /\ f.stopEp \in Nat /\ f.fly \in Acts
  BY <1>3 DEF CliTyped
<1>6. cli'.epoch = 0 /\ cli'.stopEp = f.stopEp /\ cli'.fly = f.fly /\ cli'.st = NoState
  BY <1>4, <1>5 DEF CliShape
<1>7. ~cli'.conn /\ (cli'.cancel <=> f.cancel) /\ (cli'.waiting <=> f.waiting) /\ (cli'.cmd <=> f.cmd)
  BY <1>4, <1>5 DEF CliShape
<1>8. CliShape(cli')
  BY <1>4, <1>5 DEF CliShape
<1>9. CliTyped(cli')
  BY <1>5, <1>6, <1>8 DEF CliTyped
<1>10. /\ (cli'.cancel <=> cli.cancel) /\ (cli'.waiting <=> cli.waiting) /\ cli'.stopEp = cli.stopEp
       /\ cli'.fly = NoAct /\ ~cli'.cmd
  BY <1>3, <1>6, <1>7 DEF SameStop, NoFly
<1>11. PICK m \in Lines : up' = Append(up, m) /\ m.op = "EOF"
  BY EofLine DEF LinkLost, IsLine
<1>12. /\ up' \in Seq(Lines) /\ Len(up) + 1 \in DOMAIN up' /\ up'[Len(up) + 1] = m
       /\ \A i \in DOMAIN up' : up'[i] = m \/ (i \in DOMAIN up /\ up'[i] = up[i])
  BY <1>b, <1>11, Added
<1>13. StopInv' /\ Typed' /\ BridgeInv'
  BY <1>b, <1>1, <1>9, <1>12, AboveBase
<1>14. LinkInv'
  <2>1. \E i \in DOMAIN up' : up'[i].op = "EOF"
    BY <1>11, <1>12
  <2>2. DOMAIN down' = {}
    BY <1>1
  <2> QED
    BY <1>1, <1>6, <2>1, <2>2 DEF LinkInv
<1>15. br' = br /\ actor' = actor /\ dev' = dev /\ \A i \in DOMAIN down' : FALSE
  BY <1>1 DEF Above
<1>16. ViewInv'
  <2>1. ViewOK(br', actor'.act, dev'.held, cli'.epoch, cli'.st) /\ ~cli'.st.meas
    BY <1>b, <1>6 DEF ViewOK
  <2>2. FlyOK(br', actor'.act, dev'.held, cli')
    BY <1>b, <1>10 DEF FlyOK
  <2>3. \A i \in DOMAIN up' : up'[i].op = "CMD" => CmdOK(br', dev'.held, up'[i])
    BY <1>0, <1>11, <1>12, <1>15 DEF ViewInv
  <2>4. cli'.epoch <= br'.epoch
    BY <1>b, <1>6, <1>15
  <2> QED
    BY <1>15, <2>1, <2>2, <2>3, <2>4 DEF ViewInv
<1>17. \A n : Below(up, down, br, actor.act, n) => Below(up', down', br', actor'.act, n)
  <2>1. \A n : Below(up, down, br, actor.act, n) => Below(up', down, br', actor'.act, n)
    BY <1>b, <1>11, <1>15, BelowLines
  <2> QED
    BY <1>15, <2>1 DEF Below
<1>18. StopLines'
  <2>1. \A i \in DOMAIN up' : ~LastStop(up', i)
    <3>1. ASSUME NEW i \in DOMAIN up', LastStop(up', i) PROVE FALSE
      <4>1. i = Len(up) + 1
        BY <1>b, <1>11, <3>1, LastOfAppend
      <4> QED
        BY <1>11, <1>12, <3>1, <4>1 DEF LastStop
    <3> QED
      BY <3>1
  <2> QED
    BY <1>0, <1>10, <1>15, <1>17, <2>1 DEF StopLines
<1>19. TokenInv'
  <2>1. Below(up', down', br', actor'.act, br'.epoch + 1)
    BY <1>0, <1>15, <1>17 DEF TokenInv
  <2>2. ~Joined(up', br', cli')
    BY <1>7 DEF Joined
  <2>3. cli'.fly.id = 0
    BY <1>b, <1>10
  <2> QED
    BY <1>6, <2>1, <2>2, <2>3 DEF TokenInv
<1> QED
  BY <1>13, <1>14, <1>16, <1>18, <1>19 DEF HandInv

(* A new connection: the client knows no epoch, and waits for no stop.     *)
LEMMA ConnectKeeps ==
  ASSUME HandInv, ClientConnects
  PROVE  HandInv'
<1>0. StopInv /\ Typed /\ BridgeInv /\ LinkInv /\ ViewInv /\ StopLines /\ TokenInv
  BY DEF HandInv
<1>b. up \in Seq(Lines) /\ down \in Seq(Lines) /\ CliShape(cli) /\ cli.fly \in Acts /\ br.epoch \in Nat
      /\ NoState.meas = FALSE
  BY <1>0 DEF Typed, CliTyped, StopInv, NoState
<1>1. Above /\ up' = up /\ down' = down /\ ~cli.conn
  BY DEF ClientConnects, Above
<1> DEFINE wa == cli.want \ {"slide"}
<1>2. cli' = [cli EXCEPT !.conn = TRUE, !.epoch = 0, !.caps = FALSE, !.cancel = FALSE,
                         !.waiting = FALSE, !.stopEp = 0, !.st = NoState, !.want = wa]
  BY DEF ClientConnects
<1> HIDE DEF wa
<1>3. cli'.epoch = 0 /\ cli'.stopEp = 0 /\ cli'.fly = cli.fly /\ cli'.st = NoState
  BY <1>b, <1>2 DEF CliShape
<1>4. cli'.conn /\ ~cli'.cancel /\ ~cli'.waiting /\ (cli'.cmd <=> cli.cmd)
  BY <1>b, <1>2 DEF CliShape
<1>5. CliShape(cli')
  BY <1>b, <1>2 DEF CliShape
<1>6. CliTyped(cli')
  BY <1>b, <1>3, <1>5 DEF CliTyped
<1>7. StopInv' /\ Typed' /\ BridgeInv'
  BY <1>b, <1>1, <1>6, AboveBase
<1>8. ~Joined(up, br, cli) /\ down = <<>> /\ cli.epoch = 0 /\ cli.fly.id = 0 /\ ~cli.cmd
  BY <1>0, <1>1 DEF LinkInv, Joined, ViewInv, FlyOK
<1>9. br' = br /\ actor' = actor /\ dev' = dev /\ \A i \in DOMAIN down' : FALSE
  BY <1>1, <1>8 DEF Above
<1>10. LinkInv'
  BY <1>1, <1>3, <1>4, <1>8, <1>9 DEF LinkInv
<1>11. ViewInv'
  <2>1. ViewOK(br', actor'.act, dev'.held, cli'.epoch, cli'.st) /\ ~cli'.st.meas
    BY <1>b, <1>3 DEF ViewOK
  <2>2. FlyOK(br', actor'.act, dev'.held, cli')
    BY <1>3, <1>4, <1>8 DEF FlyOK
  <2>3. \A i \in DOMAIN up' : up'[i].op = "CMD" => CmdOK(br', dev'.held, up'[i])
    BY <1>0, <1>1, <1>9 DEF ViewInv
  <2>4. cli'.epoch <= br'.epoch
    BY <1>b, <1>3, <1>9
  <2> QED
    BY <1>9, <2>1, <2>2, <2>3, <2>4 DEF ViewInv
<1>12. StopLines'
  BY <1>0, <1>1, <1>3, <1>4, <1>9 DEF StopLines
<1>13. TokenInv'
  <2>1. ~Joined(up', br', cli')
    BY <1>0, <1>1, <1>9 DEF Joined, LinkInv
  <2>2. Below(up', down', br', actor'.act, br'.epoch + 1)
    BY <1>0, <1>1, <1>9 DEF TokenInv
  <2> QED
    BY <1>3, <1>8, <2>1, <2>2 DEF TokenInv
<1> QED
  BY <1>7, <1>10, <1>11, <1>12, <1>13 DEF HandInv

(* The first line down is read: the command in flight is still on its way, *)
(* or this was its answer and every other one is older.                    *)
LEMMA ReadDown ==
  ASSUME NEW u, NEW d \in Seq(Lines), d # <<>>, NEW b, NEW a, NEW fin, NEW fly, NEW n, NEW w,
         NEW k \in Nat \ {0}, AllBut(u, d, b, a, fin, fly, n, w, k)
  PROVE  /\ \E w2 : \E k2 \in Nat \ {0} : AllBut(u, Tail(d), b, a, fin, fly, n, w2, k2)
         /\ d[1].op \in {"DONE", "REJECT"} /\ ~(d[1].ep < n) =>
              Below(u, Tail(d), b, a, n) /\ (d[1].op = "DONE" /\ d[1].ok => fly.id \in fin)
<1>0. UpBut(u, fly, n, w, k) /\ AtBut(b, a, fin, fly, n, w) /\ DownBut(d, fin, fly, n, w, k)
  BY DEF AllBut
<1>1. /\ 1 \in DOMAIN d
      /\ \A i \in DOMAIN Tail(d) : i \in Nat /\ i + 1 \in DOMAIN d /\ Tail(d)[i] = d[i + 1] /\ i + 1 > 1
  BY Removed
<1>2. \E w2 : \E k2 \in Nat \ {0} : AllBut(u, Tail(d), b, a, fin, fly, n, w2, k2)
  <2>1. CASE w # "down"
    <3>1. DownBut(Tail(d), fin, fly, n, w, k)
      BY <1>0, <1>1, <2>1 DEF DownBut
    <3>2. AllBut(u, Tail(d), b, a, fin, fly, n, w, k)
      BY <1>0, <3>1 DEF AllBut
    <3> QED
      BY <3>2
  <2>2. CASE w = "down" /\ k = 1
    <3>1. DownBut(Tail(d), fin, fly, n, w, 1)
      BY <1>0, <1>1, <2>2 DEF DownBut
    <3>2. AllBut(u, Tail(d), b, a, fin, fly, n, w, 1)
      BY <1>0, <2>2, <3>1 DEF AllBut
    <3> QED
      BY <3>2
  <2>3. CASE w = "down" /\ k # 1
    <3>1. DownBut(Tail(d), fin, fly, n, w, k - 1) /\ k - 1 \in Nat \ {0}
      BY <1>0, <1>1, <2>3 DEF DownBut
    <3>2. UpBut(u, fly, n, w, k - 1)
      BY <1>0, <2>3 DEF UpBut
    <3>3. AllBut(u, Tail(d), b, a, fin, fly, n, w, k - 1)
      BY <1>0, <3>1, <3>2 DEF AllBut
    <3> QED
      BY <3>1, <3>3
  <2> QED
    BY <2>1, <2>2, <2>3
<1>3. ASSUME d[1].op \in {"DONE", "REJECT"}, ~(d[1].ep < n)
      PROVE  Below(u, Tail(d), b, a, n) /\ (d[1].op = "DONE" /\ d[1].ok => fly.id \in fin)
  <2>1. w = "down" /\ k = 1 /\ (d[1].op = "DONE" /\ d[1].ok => fly.id \in fin)
    BY <1>0, <1>1, <1>3 DEF DownBut
  <2>2. \A i \in DOMAIN Tail(d) : Tail(d)[i].op \in {"DONE", "REJECT"} => Tail(d)[i].ep < n
    BY <1>0, <1>1, <2>1 DEF DownBut
  <2>3. Below(u, Tail(d), b, a, n)
    BY <1>0, <2>1, <2>2 DEF Below, UpBut, AtBut
  <2> QED
    BY <2>1, <2>3
<1> QED
  BY <1>2, <1>3

(* The client's action is over, and nothing else is new.                   *)
Finished(c, d) ==
  /\ CliTyped(d) /\ SameView(c, d) /\ SameStop(c, d) /\ d.fly = NoAct /\ (d.cmd => c.cmd)
  /\ d.want \subseteq c.want

(* What the client makes of a verdict: nothing, or its action is over.     *)
LEMMA DoneFields ==
  ASSUME NEW c, CliTyped(c), NEW m
  PROVE  /\ c.fly.id = 0 \/ m.ep # c.fly.ep => OnDone(c, m) = c
         /\ c.fly.id # 0 /\ m.ep = c.fly.ep => Finished(c, OnDone(c, m))
<1>1. CliShape(c) /\ c.epoch \in Nat /\ c.stopEp \in Nat /\ c.fly \in Acts /\ NoAct \in Acts
  BY LineParts DEF CliTyped
<1>2. c.fly.id = 0 \/ m.ep # c.fly.ep => OnDone(c, m) = c
  BY DEF OnDone
<1>3. ASSUME c.fly.id # 0, m.ep = c.fly.ep PROVE Finished(c, OnDone(c, m))
  <2>1. PICK d : d = OnDone(c, m)
    OBVIOUS
  <2> DEFINE gd == IF m.ok THEN "ok" ELSE "failed"
             si == c.since \ {"done"}
             wa == c.want \ {"slide"}
             mo == IF c.fly.kind = "move" THEN Append(c.moved, [id |-> c.fly.id, ok |-> TRUE]) ELSE c.moved
  <2>2. \/ d = [c EXCEPT !.gdone = gd, !.since = si, !.fly = NoAct, !.want = wa]
        \/ d = FlyFailed(c)
        \/ d = [c EXCEPT !.moved = mo, !.fly = NoAct, !.want = wa]
    BY <1>3, <2>1 DEF OnDone
  <2>6. wa \subseteq c.want
    OBVIOUS
  <2> HIDE DEF gd, si, wa, mo
  <2>3. CASE d = [c EXCEPT !.gdone = gd, !.since = si, !.fly = NoAct, !.want = wa]
    <3>1. d.conn = c.conn /\ d.epoch = c.epoch /\ d.st = c.st /\ d.stopEp = c.stopEp /\ d.fly = NoAct
          /\ d.want = wa
      BY <1>1, <2>3 DEF CliShape
    <3>2. (d.cancel <=> c.cancel) /\ (d.waiting <=> c.waiting) /\ (d.cmd <=> c.cmd)
      BY <1>1, <2>3 DEF CliShape
    <3>3. CliShape(d)
      BY <1>1, <2>3 DEF CliShape
    <3> QED
      BY <1>1, <2>1, <2>6, <3>1, <3>2, <3>3 DEF Finished, CliTyped, SameView, SameStop
  <2>4. CASE d = [c EXCEPT !.moved = mo, !.fly = NoAct, !.want = wa]
    <3>1. d.conn = c.conn /\ d.epoch = c.epoch /\ d.st = c.st /\ d.stopEp = c.stopEp /\ d.fly = NoAct
          /\ d.want = wa
      BY <1>1, <2>4 DEF CliShape
    <3>2. (d.cancel <=> c.cancel) /\ (d.waiting <=> c.waiting) /\ (d.cmd <=> c.cmd)
      BY <1>1, <2>4 DEF CliShape
    <3>3. CliShape(d)
      BY <1>1, <2>4 DEF CliShape
    <3> QED
      BY <1>1, <2>1, <2>6, <3>1, <3>2, <3>3 DEF Finished, CliTyped, SameView, SameStop
  <2>5. CASE d = FlyFailed(c)
    BY <2>1, <2>5, FailedFields DEF Finished, NoFly
  <2> QED
    BY <2>2, <2>3, <2>4, <2>5
<1> QED
  BY <1>2, <1>3

(* The client reads a line: what holds whatever it makes of it.            *)
LEMMA ReceiveBase ==
  ASSUME HandInv, Above, up' = up, down # <<>>, down' = Tail(down), CliTyped(cli'), cli'.conn = cli.conn
  PROVE  /\ StopInv' /\ Typed' /\ BridgeInv' /\ LinkInv'
         /\ Joined(up, br, cli) /\ br' = br /\ actor' = actor /\ dev' = dev
         /\ \A n : Below(up, down, br, actor.act, n) => Below(up', down', br', actor'.act, n)
         /\ 1 \in DOMAIN down /\ down[1] \in Lines /\ down[1].op \in Replies
         /\ \A i \in DOMAIN down' : i \in Nat /\ i + 1 \in DOMAIN down /\ down'[i] = down[i + 1] /\ i + 1 > 1
<1>0. LinkInv /\ Typed
  BY DEF HandInv
<1>1. up \in Seq(Lines) /\ down \in Seq(Lines)
  BY <1>0 DEF Typed
<1>2. /\ down' \in Seq(Lines) /\ 1 \in DOMAIN down /\ down[1] \in Lines
      /\ \A i \in DOMAIN down' : i \in Nat /\ i + 1 \in DOMAIN down /\ down'[i] = down[i + 1] /\ i + 1 > 1
  BY <1>1, Removed
<1>3. StopInv' /\ Typed' /\ BridgeInv'
  BY <1>1, <1>2, AboveBase
<1>4. br' = br /\ actor' = actor /\ dev' = dev
  BY DEF Above
<1>5. Joined(up, br, cli) /\ Joined(up', br', cli')
  BY <1>0, <1>4 DEF LinkInv, Joined
<1>6. \A i \in DOMAIN down' : down'[i].op \in Replies
  BY <1>0, <1>2 DEF LinkInv
<1>7. LinkInv'
  BY <1>0, <1>4, <1>5, <1>6 DEF LinkInv
<1>8. \A n : Below(up, down, br, actor.act, n) => Below(up', down', br', actor'.act, n)
  BY <1>1, <1>4, BelowLines
<1> QED
  BY <1>0, <1>2, <1>3, <1>4, <1>5, <1>7, <1>8 DEF LinkInv

(* A verdict or a refusal is read, of another action or of the client's.   *)
LEMMA AnswerKeeps ==
  ASSUME HandInv, Above, up' = up, down # <<>>, down' = Tail(down), down[1].op \in {"DONE", "REJECT"},
         \/ cli' = cli
         \/ cli.fly.id # 0 /\ down[1].ep = cli.fly.ep /\ Finished(cli, cli')
  PROVE  HandInv'
<1>0. StopInv /\ Typed /\ BridgeInv /\ LinkInv /\ ViewInv /\ StopLines /\ TokenInv /\ Based
  BY Basis DEF HandInv
<1>b. /\ up \in Seq(Lines) /\ down \in Seq(Lines) /\ CliTyped(cli) /\ cli.fly.ep \in Nat
      /\ cli.epoch \in Nat /\ NoAct.id = 0 /\ BrTyped(br) /\ actor.act \in Acts
  BY <1>0 DEF Typed, CliTyped, Acts, Based
<1>1. /\ CliTyped(cli') /\ cli'.conn = cli.conn /\ cli'.epoch = cli.epoch /\ cli'.st = cli.st
      /\ (cli'.cancel <=> cli.cancel) /\ (cli'.waiting <=> cli.waiting) /\ cli'.stopEp = cli.stopEp
  BY <1>b DEF Finished, SameView, SameStop
<1>2. /\ StopInv' /\ Typed' /\ BridgeInv' /\ LinkInv'
      /\ Joined(up, br, cli) /\ br' = br /\ actor' = actor /\ dev' = dev
      /\ \A n : Below(up, down, br, actor.act, n) => Below(up', down', br', actor'.act, n)
      /\ 1 \in DOMAIN down
      /\ \A i \in DOMAIN down' : i \in Nat /\ i + 1 \in DOMAIN down /\ down'[i] = down[i + 1] /\ i + 1 > 1
  BY <1>1, ReceiveBase
<1>4. /\ FlyOK(br, actor.act, dev.held, cli')
      /\ cli' # cli => cli'.fly.id = 0 /\ ~cli'.cmd /\ cli.fly.id # 0 /\ ~cli.cmd /\ down[1].ep = cli.fly.ep
  <2>1. CASE cli' = cli
    BY <1>0, <2>1 DEF ViewInv
  <2>2. CASE cli' # cli
    <3>1. cli.fly.id # 0 /\ down[1].ep = cli.fly.ep /\ cli'.fly = NoAct /\ (cli'.cmd => cli.cmd)
      BY <2>2 DEF Finished
    <3>2. ~(down[1].ep < cli.fly.ep)
      BY <1>b, <3>1
    <3>3. cli.cmd => down[1].ep < cli.fly.ep
      BY <1>0, <1>2, <3>1 DEF TokenInv, Below
    <3> QED
      BY <1>b, <3>1, <3>2, <3>3 DEF FlyOK
  <2> QED
    BY <2>1, <2>2
<1>5. \A m : MetaOK(br, actor.act, dev.held, cli, m) => MetaOK(br', actor'.act, dev'.held, cli', m)
  BY <1>1, <1>2, <1>4 DEF MetaOK
<1>6. ViewInv'
  <2>1. \A i \in DOMAIN down' : down'[i].op = "META" =>
          /\ MetaOK(br', actor'.act, dev'.held, cli', down'[i])
          /\ \A k \in DOMAIN down' : down'[k].op = "META" => k = i
    <3>1. ASSUME NEW i \in DOMAIN down', down'[i].op = "META"
          PROVE  /\ MetaOK(br', actor'.act, dev'.held, cli', down'[i])
                 /\ \A k \in DOMAIN down' : down'[k].op = "META" => k = i
      <4>1. /\ MetaOK(br, actor.act, dev.held, cli, down[i + 1])
            /\ \A k \in DOMAIN down : down[k].op = "META" => k = i + 1
        BY <1>0, <1>2, <3>1 DEF ViewInv
      <4>2. ASSUME NEW k \in DOMAIN down', down'[k].op = "META" PROVE k = i
        <5>1. k + 1 = i + 1 /\ k \in Nat /\ i \in Nat
          BY <1>2, <4>1, <4>2
        <5> QED
          BY <5>1
      <4> QED
        BY <1>2, <1>5, <4>1, <4>2
    <3> QED
      BY <3>1
  <2> QED
    BY <1>0, <1>1, <1>2, <1>4, <2>1 DEF ViewInv
<1>7. StopLines'
  <2>1. cli'.stopEp # 0 => /\ cli'.waiting /\ cli'.stopEp <= br'.epoch
                           /\ Below(up', down', br', actor'.act, cli'.stopEp)
    BY <1>0, <1>1, <1>2 DEF StopLines
  <2>2. \A i \in DOMAIN up' : LastStop(up', i) =>
          /\ cli'.conn /\ cli'.waiting /\ cli'.stopEp = 0 /\ ~cli'.cancel
          /\ \A k \in DOMAIN down' : down'[k].op # "STOPPING"
          /\ \A k \in DOMAIN up' : LastStop(up', k) => k = i
    BY <1>0, <1>1, <1>2 DEF StopLines
  <2>3. \A i \in DOMAIN down' : down'[i].op = "STOPPING" =>
          /\ cli'.waiting /\ cli'.stopEp = 0 /\ ~cli'.cancel
          /\ down'[i].ep # 0 /\ down'[i].ep <= br'.epoch
          /\ Below(up', down', br', actor'.act, down'[i].ep)
          /\ \A k \in DOMAIN down' : down'[k].op = "STOPPING" => k = i
    <3>1. ASSUME NEW i \in DOMAIN down', down'[i].op = "STOPPING"
          PROVE  /\ cli'.waiting /\ cli'.stopEp = 0 /\ ~cli'.cancel
                 /\ down'[i].ep # 0 /\ down'[i].ep <= br'.epoch
                 /\ Below(up', down', br', actor'.act, down'[i].ep)
                 /\ \A k \in DOMAIN down' : down'[k].op = "STOPPING" => k = i
      <4>1. /\ cli.waiting /\ cli.stopEp = 0 /\ ~cli.cancel
            /\ down[i + 1].ep # 0 /\ down[i + 1].ep <= br.epoch
            /\ Below(up, down, br, actor.act, down[i + 1].ep)
            /\ \A k \in DOMAIN down : down[k].op = "STOPPING" => k = i + 1
        BY <1>0, <1>2, <3>1 DEF StopLines
      <4>2. ASSUME NEW k \in DOMAIN down', down'[k].op = "STOPPING" PROVE k = i
        <5>1. k + 1 = i + 1 /\ k \in Nat /\ i \in Nat
          BY <1>2, <4>1, <4>2
        <5> QED
          BY <5>1
      <4>3. Below(up', down', br', actor'.act, down'[i].ep) /\ down'[i].ep # 0 /\ down'[i].ep <= br'.epoch
        BY <1>2, <4>1
      <4> QED
        BY <1>1, <4>1, <4>2, <4>3
    <3> QED
      BY <3>1
  <2> QED
    BY <1>0, <1>1, <2>1, <2>2, <2>3 DEF StopLines
<1>8. TokenInv'
  <2>1. Below(up', down', br', actor'.act, br'.epoch + 1)
    BY <1>0, <1>2 DEF TokenInv
  <2>2. Joined(up', br', cli') /\ cli'.epoch = 0 =>
          /\ Below(up', down', br', actor'.act, br'.epoch)
          /\ \A i \in DOMAIN down' : down'[i].op = "META" => Below(up', down', br', actor'.act, down'[i].ep)
    BY <1>0, <1>1, <1>2 DEF TokenInv
  <2>3. CASE cli' = cli
    <3>1. cli.fly.id # 0 /\ ~cli.cmd =>
            \E w : \E k \in Nat \ {0} :
              AllBut(up', down', br', actor'.act, dev'.fin, cli.fly, cli.fly.ep, w, k)
      <4>1. ASSUME cli.fly.id # 0 /\ ~cli.cmd
            PROVE  \E w : \E k \in Nat \ {0} :
                     AllBut(up, Tail(down), br, actor.act, dev.fin, cli.fly, cli.fly.ep, w, k)
        <5>1. PICK w : \E k \in Nat \ {0} :
                AllBut(up, down, br, actor.act, dev.fin, cli.fly, cli.fly.ep, w, k)
          BY <1>0, <4>1 DEF TokenInv
        <5>2. PICK k \in Nat \ {0} : AllBut(up, down, br, actor.act, dev.fin, cli.fly, cli.fly.ep, w, k)
          BY <5>1
        <5> QED
          BY <1>b, <5>2, ReadDown
      <4> QED
        BY <1>2, <4>1
    <3>2. cli.epoch # 0 /\ cli.fly.id = 0 /\ ~cli.waiting => Below(up', down', br', actor'.act, cli.epoch)
      BY <1>0, <1>2 DEF TokenInv
    <3>3. cli.fly.id # 0 /\ cli.cmd => Below(up', down', br', actor'.act, cli.fly.ep)
      BY <1>0, <1>2 DEF TokenInv
    <3> QED
      BY <2>1, <2>2, <2>3, <3>1, <3>2, <3>3 DEF TokenInv
  <2>4. CASE cli' # cli
    <3>1. cli'.fly.id = 0 /\ ~cli'.cmd /\ cli.fly.id # 0 /\ ~cli.cmd /\ down[1].ep = cli.fly.ep
      BY <1>4, <2>4
    <3>2. PICK w : \E k \in Nat \ {0} :
            AllBut(up, down, br, actor.act, dev.fin, cli.fly, cli.fly.ep, w, k)
      BY <1>0, <3>1 DEF TokenInv
    <3>3. PICK k \in Nat \ {0} : AllBut(up, down, br, actor.act, dev.fin, cli.fly, cli.fly.ep, w, k)
      BY <3>2
    <3>4. ~(down[1].ep < cli.fly.ep)
      BY <1>b, <3>1
    <3>5. Below(up, Tail(down), br, actor.act, cli.fly.ep)
      BY <1>b, <3>3, <3>4, ReadDown
    <3>6. cli.fly.ep <= cli.epoch /\ Tail(down) \in Seq(Lines)
      BY <1>0, <1>b, <3>1, Removed DEF ViewInv, FlyOK
    <3>7. Below(up, Tail(down), br, actor.act, cli.epoch)
      BY <1>b, <3>5, <3>6, BelowMore
    <3>8. Below(up', down', br', actor'.act, cli'.epoch)
      BY <1>1, <1>2, <3>7
    <3> QED
      BY <2>1, <2>2, <3>1, <3>8 DEF TokenInv
  <2> QED
    BY <2>3, <2>4
<1> QED
  BY <1>2, <1>6, <1>7, <1>8 DEF HandInv

(* The client's stop is acknowledged.                                      *)
LEMMA StoppingKeeps ==
  ASSUME HandInv, Above, up' = up, down # <<>>, down' = Tail(down), down[1].op = "STOPPING",
         CliTyped(cli'), SameView(cli, cli'), SameFly(cli, cli'), cli'.stopEp = down[1].ep,
         (cli'.cancel <=> cli.cancel), (cli'.waiting <=> cli.waiting)
  PROVE  HandInv'
<1>0. StopInv /\ Typed /\ BridgeInv /\ LinkInv /\ ViewInv /\ StopLines /\ TokenInv
  BY DEF HandInv
<1>1. /\ cli'.conn = cli.conn /\ cli'.epoch = cli.epoch /\ cli'.st = cli.st
      /\ cli'.fly = cli.fly /\ (cli'.cmd <=> cli.cmd)
  BY DEF SameView, SameFly
<1>2. /\ StopInv' /\ Typed' /\ BridgeInv' /\ LinkInv'
      /\ Joined(up, br, cli) /\ br' = br /\ actor' = actor /\ dev' = dev
      /\ \A n : Below(up, down, br, actor.act, n) => Below(up', down', br', actor'.act, n)
      /\ 1 \in DOMAIN down
      /\ \A i \in DOMAIN down' : i \in Nat /\ i + 1 \in DOMAIN down /\ down'[i] = down[i + 1] /\ i + 1 > 1
  BY <1>1, ReceiveBase
<1>3. /\ cli.waiting /\ cli.stopEp = 0 /\ ~cli.cancel /\ down[1].ep # 0 /\ down[1].ep <= br.epoch
      /\ Below(up, down, br, actor.act, down[1].ep)
      /\ \A k \in DOMAIN down : down[k].op = "STOPPING" => k = 1
      /\ \A i \in DOMAIN up : ~LastStop(up, i)
  BY <1>0, <1>2 DEF StopLines
<1>4. cli.fly.id = 0
  BY <1>0, <1>3 DEF ViewInv, FlyOK
<1>5. \A k \in DOMAIN down' : down'[k].op # "STOPPING"
  <2>1. ASSUME NEW k \in DOMAIN down', down'[k].op = "STOPPING" PROVE FALSE
    <3>1. k + 1 = 1 /\ k + 1 > 1 /\ k \in Nat
      BY <1>2, <1>3, <2>1
    <3> QED
      BY <3>1
  <2> QED
    BY <2>1
<1>6. StopLines'
  BY <1>2, <1>3, <1>5 DEF StopLines
<1>7. FlyOK(br', actor'.act, dev'.held, cli')
  BY <1>0, <1>1, <1>2, <1>4 DEF ViewInv, FlyOK
<1>8. \A m : MetaOK(br, actor.act, dev.held, cli, m) => MetaOK(br', actor'.act, dev'.held, cli', m)
  BY <1>1, <1>2 DEF MetaOK
<1>9. ViewInv'
  <2>1. \A i \in DOMAIN down' : down'[i].op = "META" =>
          /\ MetaOK(br', actor'.act, dev'.held, cli', down'[i])
          /\ \A k \in DOMAIN down' : down'[k].op = "META" => k = i
    <3>1. ASSUME NEW i \in DOMAIN down', down'[i].op = "META"
          PROVE  /\ MetaOK(br', actor'.act, dev'.held, cli', down'[i])
                 /\ \A k \in DOMAIN down' : down'[k].op = "META" => k = i
      <4>1. /\ MetaOK(br, actor.act, dev.held, cli, down[i + 1])
            /\ \A k \in DOMAIN down : down[k].op = "META" => k = i + 1
        BY <1>0, <1>2, <3>1 DEF ViewInv
      <4>2. ASSUME NEW k \in DOMAIN down', down'[k].op = "META" PROVE k = i
        <5>1. k + 1 = i + 1 /\ k \in Nat /\ i \in Nat
          BY <1>2, <4>1, <4>2
        <5> QED
          BY <5>1
      <4> QED
        BY <1>2, <1>8, <4>1, <4>2
    <3> QED
      BY <3>1
  <2> QED
    BY <1>0, <1>1, <1>2, <1>7, <2>1 DEF ViewInv
<1>10. TokenInv'
  <2>1. Below(up', down', br', actor'.act, br'.epoch + 1)
    BY <1>0, <1>2 DEF TokenInv
  <2>2. Joined(up', br', cli') /\ cli'.epoch = 0 =>
          /\ Below(up', down', br', actor'.act, br'.epoch)
          /\ \A i \in DOMAIN down' : down'[i].op = "META" => Below(up', down', br', actor'.act, down'[i].ep)
    BY <1>0, <1>1, <1>2 DEF TokenInv
  <2> QED
    BY <1>1, <1>3, <1>4, <2>1, <2>2 DEF TokenInv
<1> QED
  BY <1>2, <1>6, <1>9, <1>10 DEF HandInv

(* The bridge's state says that the action in flight is lost; and the      *)
(* verdicts the client keeps are the same.                                 *)
Lost(c, m) == c.fly.id # 0 /\ (~m.st.avail \/ m.ep \notin {c.fly.ep, c.fly.ep + 1})
Verdicts(c, d) == d.gdone = c.gdone /\ d.moved = c.moved /\ d.fails = c.fails

(* What the client makes of the bridge's state.                            *)
LEMMA MetaFields ==
  ASSUME NEW c, CliTyped(c), NEW m \in Lines
  PROVE  /\ CliTyped(OnMeta(c, m)) /\ OnMeta(c, m).conn = c.conn /\ OnMeta(c, m).epoch = m.ep
         /\ OnMeta(c, m).st = m.st /\ (OnMeta(c, m).cancel <=> c.cancel) /\ OnMeta(c, m).want \subseteq c.want
         /\ Lost(c, m) => NoFly(OnMeta(c, m)) /\ Verdicts(FlyFailed(c), OnMeta(c, m))
         /\ ~Lost(c, m) => SameFly(c, OnMeta(c, m)) /\ Verdicts(c, OnMeta(c, m))
         /\ \/ (OnMeta(c, m).waiting <=> c.waiting) /\ OnMeta(c, m).stopEp = c.stopEp
            \/ /\ c.waiting /\ c.stopEp # 0 /\ m.ep >= c.stopEp
               /\ ~OnMeta(c, m).waiting /\ OnMeta(c, m).stopEp = 0
<1>0. m.ep \in Nat
  BY LinesAre
<1>1. PICK f : f = IF Lost(c, m) THEN FlyFailed(c) ELSE c
  OBVIOUS
<1>2. /\ CliTyped(f) /\ SameView(c, f) /\ SameStop(c, f) /\ f.want \subseteq c.want
      /\ Lost(c, m) => NoFly(f) /\ f = FlyFailed(c)
      /\ ~Lost(c, m) => f = c
  <2>1. CASE Lost(c, m)
    BY <1>1, <2>1, FailedFields
  <2>2. CASE ~Lost(c, m)
    BY <1>1, <2>2 DEF SameView, SameStop
  <2> QED
    BY <2>1, <2>2
<1> DEFINE fr == f.fresh \/ (m.st.meas /\ m.new)
           si == IF m.st.meas /\ m.new THEN Marks ELSE f.since
<1>3. PICK g : g = [f EXCEPT !.epoch = m.ep, !.caps = TRUE, !.fresh = fr, !.since = si, !.st = m.st]
  OBVIOUS
<1>4. PICK d : d = OnMeta(c, m)
  OBVIOUS
<1>5. d = IF StopDone(g, m) THEN [g EXCEPT !.waiting = FALSE, !.stopEp = 0] ELSE g
  BY <1>1, <1>3, <1>4 DEF OnMeta, Lost
<1> HIDE DEF fr, si
<1>6. CliShape(f) /\ f.stopEp \in Nat /\ f.fly \in Acts
  BY <1>2 DEF CliTyped
<1>7. /\ g.conn = f.conn /\ g.epoch = m.ep /\ g.st = m.st /\ g.fly = f.fly /\ g.stopEp = f.stopEp
      /\ g.gdone = f.gdone /\ g.moved = f.moved /\ g.fails = f.fails /\ g.want = f.want
  BY <1>3, <1>6 DEF CliShape
<1>8. (g.cancel <=> f.cancel) /\ (g.waiting <=> f.waiting) /\ (g.cmd <=> f.cmd)
  BY <1>3, <1>6 DEF CliShape
<1>9. CliShape(g)
  BY <1>3, <1>6 DEF CliShape
<1>10. /\ d.conn = g.conn /\ d.epoch = g.epoch /\ d.st = g.st /\ d.fly = g.fly
       /\ d.gdone = g.gdone /\ d.moved = g.moved /\ d.fails = g.fails /\ d.want = g.want
       /\ (d.cancel <=> g.cancel) /\ (d.cmd <=> g.cmd) /\ CliShape(d)
       /\ \/ (d.waiting <=> g.waiting) /\ d.stopEp = g.stopEp
          \/ StopDone(g, m) /\ ~d.waiting /\ d.stopEp = 0
  <2>1. CASE StopDone(g, m)
    <3>1. d = [g EXCEPT !.waiting = FALSE, !.stopEp = 0]
      BY <1>5, <2>1
    <3>2. /\ d.conn = g.conn /\ d.epoch = g.epoch /\ d.st = g.st /\ d.fly = g.fly
          /\ d.gdone = g.gdone /\ d.moved = g.moved /\ d.fails = g.fails /\ d.want = g.want /\ d.stopEp = 0
      BY <1>9, <3>1 DEF CliShape
    <3>3. (d.cancel <=> g.cancel) /\ (d.cmd <=> g.cmd) /\ ~d.waiting
      BY <1>9, <3>1 DEF CliShape
    <3>4. CliShape(d)
      BY <1>9, <3>1 DEF CliShape
    <3> QED
      BY <2>1, <3>2, <3>3, <3>4
  <2>2. CASE ~StopDone(g, m)
    <3>1. d = g
      BY <1>5, <2>2
    <3> QED
      BY <1>9, <3>1
  <2> QED
    BY <2>1, <2>2
<1>11. f.conn = c.conn /\ (f.cancel <=> c.cancel) /\ (f.waiting <=> c.waiting) /\ f.stopEp = c.stopEp
  BY <1>2 DEF SameView, SameStop
<1>12. CliTyped(d)
  <2>1. d.stopEp \in Nat
    BY <1>6, <1>7, <1>10
  <2> QED
    BY <1>0, <1>6, <1>7, <1>10, <2>1 DEF CliTyped
<1>13. \/ (d.waiting <=> c.waiting) /\ d.stopEp = c.stopEp
       \/ c.waiting /\ c.stopEp # 0 /\ m.ep >= c.stopEp /\ ~d.waiting /\ d.stopEp = 0
  BY <1>7, <1>8, <1>10, <1>11 DEF StopDone
<1>14. Lost(c, m) => NoFly(d) /\ Verdicts(FlyFailed(c), d)
  BY <1>2, <1>7, <1>8, <1>10 DEF NoFly, Verdicts
<1>15. ~Lost(c, m) => SameFly(c, d) /\ Verdicts(c, d)
  BY <1>2, <1>7, <1>8, <1>10 DEF SameFly, Verdicts
<1>16. d.conn = c.conn /\ d.epoch = m.ep /\ d.st = m.st /\ (d.cancel <=> c.cancel)
       /\ d.want \subseteq c.want
  BY <1>2, <1>7, <1>8, <1>10, <1>11
<1> QED
  BY <1>4, <1>12, <1>13, <1>14, <1>15, <1>16

(* Everything on its way is older than the epoch the client goes on to:    *)
(* nothing was in flight, the stop is over, or what was is given up.       *)
LEMMA MetaToken ==
  ASSUME HandInv, down # <<>>, down[1].op = "META", down[1] \in Lines,
         \/ cli.fly.id = 0 /\ ~cli.waiting
         \/ cli.fly.id = 0 /\ cli.stopEp # 0 /\ down[1].ep >= cli.stopEp
         \/ Lost(cli, down[1])
  PROVE  Below(up, down, br, actor.act, down[1].ep)
<1>0. StopInv /\ Typed /\ BridgeInv /\ LinkInv /\ ViewInv /\ StopLines /\ TokenInv
  BY DEF HandInv
<1>b. /\ up \in Seq(Lines) /\ down \in Seq(Lines) /\ cli.fly \in Acts /\ cli.fly.ep \in Nat
      /\ cli.epoch \in Nat /\ cli.stopEp \in Nat /\ BrTyped(br) /\ actor.act \in Acts
  BY <1>0 DEF Typed, CliTyped, Acts
<1>1. PICK m \in Lines : m = down[1] /\ m.op = "META" /\ m.ep \in Nat /\ 1 \in DOMAIN down
  BY <1>b, Removed, LinesAre
<1>2. m.ep # 0 /\ cli.epoch <= m.ep /\ (cli.fly.id # 0 /\ m.ep = cli.fly.ep => m.st.avail)
  BY <1>0, <1>1 DEF ViewInv, MetaOK
<1>3. CASE cli.fly.id = 0 /\ ~cli.waiting
  <2>1. CASE cli.epoch = 0
    <3>1. Joined(up, br, cli)
      BY <1>0 DEF LinkInv
    <3> QED
      BY <1>0, <1>1, <2>1, <3>1 DEF TokenInv
  <2>2. CASE cli.epoch # 0
    <3>1. Below(up, down, br, actor.act, cli.epoch)
      BY <1>0, <1>3, <2>2 DEF TokenInv
    <3> QED
      BY <1>b, <1>1, <1>2, <3>1, BelowMore
  <2> QED
    BY <2>1, <2>2
<1>4. CASE cli.stopEp # 0 /\ m.ep >= cli.stopEp
  <2>1. Below(up, down, br, actor.act, cli.stopEp) /\ cli.stopEp <= m.ep
    BY <1>0, <1>b, <1>1, <1>4 DEF StopLines
  <2> QED
    BY <1>b, <1>1, <2>1, BelowMore
<1>5. CASE Lost(cli, m)
  <2>1. cli.fly.id # 0 /\ cli.fly.ep < m.ep
    <3>1. cli.fly.ep <= cli.epoch
      BY <1>0, <1>5 DEF Lost, ViewInv, FlyOK
    <3>2. cli.fly.id # 0 /\ m.ep # cli.fly.ep
      BY <1>2, <1>5 DEF Lost
    <3> QED
      BY <1>b, <1>1, <1>2, <3>1, <3>2
  <2>2. CASE cli.cmd
    <3>1. Below(up, down, br, actor.act, cli.fly.ep) /\ cli.fly.ep <= m.ep
      BY <1>0, <1>b, <1>1, <2>1, <2>2 DEF TokenInv
    <3> QED
      BY <1>b, <1>1, <3>1, BelowMore
  <2>3. CASE ~cli.cmd
    <3>1. PICK w : \E k \in Nat \ {0} :
            AllBut(up, down, br, actor.act, dev.fin, cli.fly, cli.fly.ep, w, k)
      BY <1>0, <2>1, <2>3 DEF TokenInv
    <3>2. PICK k \in Nat \ {0} : AllBut(up, down, br, actor.act, dev.fin, cli.fly, cli.fly.ep, w, k)
      BY <3>1
    <3>3. /\ \A i \in DOMAIN up : up[i].ep \in Nat
          /\ \A i \in DOMAIN down : down[i].ep \in Nat
          /\ br.pend.ep \in Nat /\ actor.act.ep \in Nat /\ br.done.ep \in Nat
      BY <1>b, LinesAre DEF BrTyped, Acts, Dones
    <3>4. \A i \in DOMAIN up : up[i].op = "CMD" => up[i].ep < m.ep
      <4>1. ASSUME NEW i \in DOMAIN up, up[i].op = "CMD" PROVE up[i].ep < cli.fly.ep \/ up[i].ep = cli.fly.ep
        <5>1. up[i].ep < cli.fly.ep \/ up[i].act = cli.fly
          BY <3>2, <4>1 DEF AllBut, UpBut
        <5>2. up[i].act.ep = up[i].ep
          BY <1>0, <4>1 DEF ViewInv, CmdOK
        <5> QED
          BY <5>1, <5>2
      <4> QED
        BY <1>b, <1>1, <2>1, <3>3, <4>1
    <3>5. \A i \in DOMAIN down : down[i].op \in {"DONE", "REJECT"} => down[i].ep < m.ep
      <4>1. ASSUME NEW i \in DOMAIN down, down[i].op \in {"DONE", "REJECT"}
            PROVE  down[i].ep < cli.fly.ep \/ down[i].ep = cli.fly.ep
        BY <3>2, <4>1 DEF AllBut, DownBut
      <4> QED
        BY <1>b, <1>1, <2>1, <3>3, <4>1
    <3>9. \A e \in Nat : e < cli.fly.ep \/ e = cli.fly.ep => e < m.ep
      BY <1>b, <1>1, <2>1
    <3>6. br.pend.id # 0 => br.pend.ep < m.ep
      <4>1. br.pend.id # 0 => br.pend.ep < cli.fly.ep \/ br.pend.ep = cli.fly.ep
        BY <3>2 DEF AllBut, AtBut
      <4> QED
        BY <3>3, <3>9, <4>1
    <3>7. br.acting => actor.act.ep < m.ep
      <4>1. br.acting => actor.act.ep < cli.fly.ep \/ actor.act.ep = cli.fly.ep
        BY <3>2 DEF AllBut, AtBut
      <4> QED
        BY <3>3, <3>9, <4>1
    <3>8. br.done.some => br.done.ep < m.ep
      <4>1. br.done.some => br.done.ep < cli.fly.ep \/ br.done.ep = cli.fly.ep
        BY <3>2 DEF AllBut, AtBut
      <4> QED
        BY <3>3, <3>9, <4>1
    <3> QED
      BY <1>1, <3>4, <3>5, <3>6, <3>7, <3>8 DEF Below
  <2> QED
    BY <2>2, <2>3
<1> QED
  BY <1>1, <1>3, <1>4, <1>5

(* The bridge's state is read.                                             *)
LEMMA MetaReadKeeps ==
  ASSUME HandInv, Above, up' = up, down # <<>>, down' = Tail(down), down[1].op = "META",
         cli' = OnMeta(cli, down[1])
  PROVE  HandInv'
<1>0. StopInv /\ Typed /\ BridgeInv /\ LinkInv /\ ViewInv /\ StopLines /\ TokenInv /\ Based
  BY Basis DEF HandInv
<1>b. /\ up \in Seq(Lines) /\ down \in Seq(Lines) /\ CliTyped(cli) /\ cli.fly.ep \in Nat
      /\ cli.epoch \in Nat /\ cli.stopEp \in Nat /\ NoAct.id = 0 /\ br.epoch \in Nat
  BY <1>0 DEF Typed, CliTyped, Acts, Based
<1>1. PICK m \in Lines : m = down[1] /\ m.op = "META" /\ m.ep \in Nat /\ 1 \in DOMAIN down
  BY <1>b, Removed, LinesAre
<1>2. /\ CliTyped(cli') /\ cli'.conn = cli.conn /\ cli'.epoch = m.ep
      /\ cli'.st = m.st /\ (cli'.cancel <=> cli.cancel)
      /\ Lost(cli, m) => NoFly(cli')
      /\ ~Lost(cli, m) => SameFly(cli, cli')
      /\ \/ (cli'.waiting <=> cli.waiting) /\ cli'.stopEp = cli.stopEp
         \/ /\ cli.waiting /\ cli.stopEp # 0 /\ m.ep >= cli.stopEp
            /\ ~cli'.waiting /\ cli'.stopEp = 0
  BY <1>b, <1>1, MetaFields
<1>3. /\ StopInv' /\ Typed' /\ BridgeInv' /\ LinkInv'
      /\ Joined(up, br, cli) /\ br' = br /\ actor' = actor /\ dev' = dev
      /\ \A n : Below(up, down, br, actor.act, n) => Below(up', down', br', actor'.act, n)
      /\ \A i \in DOMAIN down' : i \in Nat /\ i + 1 \in DOMAIN down /\ down'[i] = down[i + 1] /\ i + 1 > 1
  BY <1>2, ReceiveBase
<1>4. /\ m.ep # 0 /\ cli.epoch <= m.ep /\ m.ep <= br.epoch
      /\ ViewOK(br, actor.act, dev.held, m.ep, m.st)
      /\ \A k \in DOMAIN down : down[k].op = "META" => k = 1
  BY <1>0, <1>1 DEF ViewInv, MetaOK
<1>5. \A k \in DOMAIN down' : down'[k].op # "META"
  <2>1. ASSUME NEW k \in DOMAIN down', down'[k].op = "META" PROVE FALSE
    <3>1. k + 1 = 1 /\ k + 1 > 1 /\ k \in Nat
      BY <1>3, <1>4, <2>1
    <3> QED
      BY <3>1
  <2> QED
    BY <2>1
<1>6. cli'.fly.id # 0 => cli.fly.id # 0 /\ ~Lost(cli, m) /\ cli'.fly = cli.fly /\ (cli'.cmd <=> cli.cmd)
  BY <1>b, <1>2 DEF NoFly, SameFly
<1>7. cli.fly.id # 0 => ~cli.waiting /\ cli.fly.ep <= cli.epoch
  BY <1>0 DEF ViewInv, FlyOK
<1>8. ViewInv'
  <2>1. FlyOK(br', actor'.act, dev'.held, cli')
    <3>1. CASE cli'.fly.id # 0
      <4>1. FlyOK(br, actor.act, dev.held, cli) /\ cli'.fly = cli.fly /\ (cli'.cmd <=> cli.cmd) /\ cli.fly.id # 0
        BY <1>0, <1>6, <3>1 DEF ViewInv
      <4>2. cli.fly.ep <= cli'.epoch /\ cli'.epoch # 0
        BY <1>b, <1>1, <1>2, <1>4, <1>7, <4>1
      <4>3. ~cli'.waiting
        BY <1>2, <1>7, <4>1
      <4> QED
        BY <1>3, <3>1, <4>1, <4>2, <4>3 DEF FlyOK
    <3>2. CASE cli'.fly.id = 0
      <4>1. ~cli'.cmd
        BY <1>0, <1>2, <3>2 DEF NoFly, SameFly, ViewInv, FlyOK
      <4> QED
        BY <3>2, <4>1 DEF FlyOK
    <3> QED
      BY <3>1, <3>2
  <2>2. /\ ViewOK(br', actor'.act, dev'.held, cli'.epoch, cli'.st)
        /\ cli'.epoch <= br'.epoch /\ cli'.epoch # 0
    BY <1>2, <1>3, <1>4
  <2>3. \A i \in DOMAIN up' : up'[i].op = "CMD" => CmdOK(br', dev'.held, up'[i])
    BY <1>0, <1>3 DEF ViewInv
  <2> QED
    BY <1>5, <2>1, <2>2, <2>3 DEF ViewInv
<1>9. StopLines'
  <2>1. CASE (cli'.waiting <=> cli.waiting) /\ cli'.stopEp = cli.stopEp
    <3>1. cli'.stopEp # 0 => /\ cli'.waiting /\ cli'.stopEp <= br'.epoch
                             /\ Below(up', down', br', actor'.act, cli'.stopEp)
      BY <1>0, <1>3, <2>1 DEF StopLines
    <3>2. \A i \in DOMAIN up' : LastStop(up', i) =>
            /\ cli'.conn /\ cli'.waiting /\ cli'.stopEp = 0 /\ ~cli'.cancel
            /\ \A k \in DOMAIN down' : down'[k].op # "STOPPING"
            /\ \A k \in DOMAIN up' : LastStop(up', k) => k = i
      BY <1>0, <1>2, <1>3, <2>1 DEF StopLines
    <3>3. ASSUME NEW i \in DOMAIN down', down'[i].op = "STOPPING"
          PROVE  /\ cli'.waiting /\ cli'.stopEp = 0 /\ ~cli'.cancel
                 /\ down'[i].ep # 0 /\ down'[i].ep <= br'.epoch
                 /\ Below(up', down', br', actor'.act, down'[i].ep)
                 /\ \A k \in DOMAIN down' : down'[k].op = "STOPPING" => k = i
      <4>1. /\ cli.waiting /\ cli.stopEp = 0 /\ ~cli.cancel
            /\ down[i + 1].ep # 0 /\ down[i + 1].ep <= br.epoch
            /\ Below(up, down, br, actor.act, down[i + 1].ep)
            /\ \A k \in DOMAIN down : down[k].op = "STOPPING" => k = i + 1
        BY <1>0, <1>3, <3>3 DEF StopLines
      <4>2. ASSUME NEW k \in DOMAIN down', down'[k].op = "STOPPING" PROVE k = i
        <5>1. k + 1 = i + 1 /\ k \in Nat /\ i \in Nat
          BY <1>3, <4>1, <4>2
        <5> QED
          BY <5>1
      <4>3. Below(up', down', br', actor'.act, down'[i].ep) /\ down'[i].ep # 0 /\ down'[i].ep <= br'.epoch
        BY <1>3, <4>1
      <4> QED
        BY <1>2, <2>1, <4>1, <4>2, <4>3
    <3>4. cli'.cancel => cli'.waiting /\ cli'.stopEp = 0
      BY <1>0, <1>2, <2>1 DEF StopLines
    <3> QED
      BY <3>1, <3>2, <3>3, <3>4 DEF StopLines
  <2>2. CASE cli.waiting /\ cli.stopEp # 0 /\ ~cli'.waiting /\ cli'.stopEp = 0
    <3>1. ~cli.cancel /\ (\A i \in DOMAIN up : ~LastStop(up, i)) /\ \A k \in DOMAIN down : down[k].op # "STOPPING"
      BY <1>0, <2>2 DEF StopLines
    <3>2. \A k \in DOMAIN down' : down'[k].op # "STOPPING"
      BY <1>3, <3>1
    <3> QED
      BY <1>2, <2>2, <3>1, <3>2 DEF StopLines
  <2> QED
    BY <1>2, <2>1, <2>2
<1>10. TokenInv'
  <2>1. Below(up', down', br', actor'.act, br'.epoch + 1)
    BY <1>0, <1>3 DEF TokenInv
  <2>2. cli'.fly.id = 0 /\ ~cli'.waiting => Below(up', down', br', actor'.act, cli'.epoch)
    <3>1. ASSUME cli'.fly.id = 0, ~cli'.waiting PROVE Below(up, down, br, actor.act, m.ep)
      <4>1. \/ cli.fly.id = 0 /\ ~cli.waiting
            \/ cli.fly.id = 0 /\ cli.stopEp # 0 /\ m.ep >= cli.stopEp
            \/ Lost(cli, m)
        BY <1>2, <1>7, <3>1 DEF SameFly
      <4> QED
        BY <1>1, <4>1, MetaToken
    <3> QED
      BY <1>2, <1>3, <3>1
  <2>3. cli'.fly.id # 0 /\ cli'.cmd => Below(up', down', br', actor'.act, cli'.fly.ep)
    BY <1>0, <1>3, <1>6 DEF TokenInv
  <2>4. ASSUME cli'.fly.id # 0 /\ ~cli'.cmd
        PROVE  \E w : \E k \in Nat \ {0} :
                 AllBut(up', down', br', actor'.act, dev'.fin, cli'.fly, cli'.fly.ep, w, k)
    <3>1. cli.fly.id # 0 /\ ~cli.cmd /\ cli'.fly = cli.fly
      BY <1>6, <2>4
    <3>2. PICK w : \E k \in Nat \ {0} :
            AllBut(up, down, br, actor.act, dev.fin, cli.fly, cli.fly.ep, w, k)
      BY <1>0, <3>1 DEF TokenInv
    <3>3. PICK k \in Nat \ {0} : AllBut(up, down, br, actor.act, dev.fin, cli.fly, cli.fly.ep, w, k)
      BY <3>2
    <3>4. \E w2 : \E k2 \in Nat \ {0} :
            AllBut(up, Tail(down), br, actor.act, dev.fin, cli.fly, cli.fly.ep, w2, k2)
      BY <1>b, <3>3, ReadDown
    <3> QED
      BY <1>3, <3>1, <3>4
  <2> QED
    BY <1>2, <1>4, <2>1, <2>2, <2>3, <2>4 DEF TokenInv
<1> QED
  BY <1>3, <1>8, <1>9, <1>10 DEF HandInv

(* So reading a line keeps the invariant.                                  *)
LEMMA ReceiveKeeps ==
  ASSUME HandInv, ClientReceives
  PROVE  HandInv'
<1>0. Typed /\ LinkInv /\ StopLines
  BY DEF HandInv
<1>b. down \in Seq(Lines) /\ CliTyped(cli)
  BY <1>0 DEF Typed
<1>1. /\ Above /\ up' = up /\ down # <<>> /\ down' = Tail(down) /\ cli' = OnLine(cli, Head(down))
  BY DEF ClientReceives, Above
<1>2. PICK m \in Lines : m = down[1] /\ m = Head(down) /\ m.op \in Replies /\ 1 \in DOMAIN down
  BY <1>0, <1>b, <1>1, Removed DEF LinkInv
<1>3. CASE m.op = "META"
  <2>1. cli' = OnMeta(cli, m)
    BY <1>1, <1>2, <1>3 DEF OnLine
  <2> QED
    BY <1>1, <1>2, <1>3, <2>1, MetaReadKeeps
<1>4. CASE m.op = "DONE"
  <2>1. cli' = OnDone(cli, m)
    BY <1>1, <1>2, <1>4 DEF OnLine
  <2>2. cli' = cli \/ (cli.fly.id # 0 /\ m.ep = cli.fly.ep /\ Finished(cli, cli'))
    BY <1>b, <2>1, DoneFields
  <2> QED
    BY <1>1, <1>2, <1>4, <2>2, AnswerKeeps
<1>5. CASE m.op = "REJECT"
  <2>1. cli' = IF cli.fly.id # 0 /\ m.ep = cli.fly.ep THEN FlyFailed(cli) ELSE cli
    BY <1>1, <1>2, <1>5 DEF OnLine
  <2>2. Finished(cli, FlyFailed(cli))
    BY <1>b, FailedFields DEF Finished, NoFly
  <2>3. cli' = cli \/ (cli.fly.id # 0 /\ m.ep = cli.fly.ep /\ Finished(cli, cli'))
    BY <2>1, <2>2
  <2> QED
    BY <1>1, <1>2, <1>5, <2>3, AnswerKeeps
<1>6. CASE m.op = "STOPPING"
  <2>1. cli.waiting
    BY <1>0, <1>2, <1>6 DEF StopLines
  <2> DEFINE si == cli.since \ {"stop"}
  <2>2. cli' = [cli EXCEPT !.stopEp = m.ep, !.since = si]
    BY <1>1, <1>2, <1>6, <2>1 DEF OnLine
  <2> HIDE DEF si
  <2>3. CliShape(cli) /\ cli.epoch \in Nat /\ cli.fly \in Acts /\ m.ep \in Nat
    BY <1>b, LinesAre DEF CliTyped
  <2>4. /\ cli'.conn = cli.conn /\ cli'.epoch = cli.epoch /\ cli'.st = cli.st /\ cli'.fly = cli.fly
        /\ cli'.stopEp = m.ep
    BY <2>2, <2>3 DEF CliShape
  <2>5. (cli'.cmd <=> cli.cmd) /\ (cli'.cancel <=> cli.cancel) /\ (cli'.waiting <=> cli.waiting)
    BY <2>2, <2>3 DEF CliShape
  <2>6. CliShape(cli')
    BY <2>2, <2>3 DEF CliShape
  <2>7. CliTyped(cli') /\ SameView(cli, cli') /\ SameFly(cli, cli')
    BY <2>3, <2>4, <2>5, <2>6 DEF CliTyped, SameView, SameFly
  <2> QED
    BY <1>1, <1>2, <1>6, <2>4, <2>5, <2>7, StoppingKeeps
<1> QED
  BY <1>2, <1>3, <1>4, <1>5, <1>6 DEF Replies

-----------------------------------------------------------------------------
(* The node: its request, the grasp it watches and what it was told.       *)

Results == {"none", "ok", "assumed", "failed", "lost", "revived"}

(* A request not yet made was told nothing; a success told is one.         *)
ResOK(asked, r, fin) ==
  /\ r \in [Ids -> Results]
  /\ \A i \in Ids : /\ i > asked => r[i] = "none"
                    /\ r[i] # "revived" /\ (r[i] = "ok" => i \in fin)

(* The pending request was told nothing yet, and is not the one watched.   *)
JobOK(asked, j, h, r, fin) ==
  /\ asked \in 0..MaxAsks /\ j.id \in 0..asked /\ h.id \in 0..asked
  /\ j = [id |-> j.id, kind |-> j.kind, done |-> j.done, late |-> j.late]
  /\ h = [id |-> h.id, seen |-> h.seen]
  /\ j.id = 0 => j = NoJob
  /\ j.id # 0 => r[j.id] = "none" /\ j.id # h.id
  /\ j.done => j.id \in fin

(* The verdicts the client keeps for the node are true, and the ones for   *)
(* the grasp FSM are about the grasp it waits for.                         *)
Moves == [id : Nat, ok : BOOLEAN]
MovedOK(moved, fin) == moved \in Seq(Moves) /\ \A i \in DOMAIN moved : moved[i].ok => moved[i].id \in fin
AboutGrasp(id, asked, j) == id \in 0..asked /\ (id = j.id /\ j.id # 0 => j.kind \in GraspKinds)
FailsOK(fails, asked, j) == fails \in Seq(Nat) /\ \A i \in DOMAIN fails : AboutGrasp(fails[i], asked, j)
VerdictOK(asked, j, c, fin) ==
  /\ MovedOK(c.moved, fin) /\ FailsOK(c.fails, asked, j)
  /\ c.fly.kind \in GraspKinds => AboutGrasp(c.fly.id, asked, j)
  /\ j.kind \in GraspKinds =>
       (c.gdone = "ok" => j.id \in fin) /\ (c.fly.kind \in GraspKinds => c.fly.id = j.id)

NodeShape(n) == n = [auth |-> n.auth, asked |-> n.asked, job |-> n.job, held |-> n.held]
NodeOK(n, c, r, fin) ==
  /\ NodeShape(n) /\ ResOK(n.asked, r, fin) /\ JobOK(n.asked, n.job, n.held, r, fin)
  /\ VerdictOK(n.asked, n.job, c, fin)

NodeInv == NodeOK(gnode, cli, res, dev.fin)

(* What a request was told.                                                *)
LEMMA ToldOK ==
  ASSUME NEW asked \in 0..MaxAsks, NEW r, NEW fin, ResOK(asked, r, fin), NEW id \in 0..asked,
         NEW how \in {"ok", "assumed", "failed"},
         how # "failed" /\ id # 0 => r[id] = "none" /\ (how = "ok" => id \in fin)
  PROVE  /\ ResOK(asked, Told(r, id, how), fin)
         /\ \A i \in Ids : i # id => Told(r, id, how)[i] = r[i]
<1>0. MaxAsks \in Nat /\ (id # 0 => id \in Ids)
  BY HandAssumption DEF Ids
<1>1. CASE id = 0
  BY <1>1 DEF Told
<1>2. CASE id # 0
  <2> DEFINE v == CASE r[id] = "none" -> how
                    [] r[id] \in {"ok", "assumed"} /\ how = "failed" -> "lost"
                    [] r[id] \in {"failed", "lost"} /\ how # "failed" -> "revived"
                    [] OTHER -> r[id]
  <2>1. Told(r, id, how) = [r EXCEPT ![id] = v]
    BY <1>2 DEF Told
  <2>2. r \in [Ids -> Results] /\ r[id] \in Results /\ r[id] # "revived" /\ (r[id] = "ok" => id \in fin)
    BY <1>0, <1>2 DEF ResOK
  <2>3. v \in Results /\ v # "revived" /\ (v = "ok" => id \in fin)
    BY <1>2, <2>2 DEF Results
  <2> HIDE DEF v
  <2>4. /\ Told(r, id, how) \in [Ids -> Results] /\ Told(r, id, how)[id] = v
        /\ \A i \in Ids : i # id => Told(r, id, how)[i] = r[i]
    BY <1>0, <1>2, <2>1, <2>2, <2>3
  <2>5. ~(id > asked)
    BY <1>0
  <2> QED
    BY <1>0, <1>2, <2>3, <2>4, <2>5 DEF ResOK
<1> QED
  BY <1>1, <1>2

(* A client edited twice is edited.                                        *)
LEMMA EditedTwice ==
  /\ \A c : CliTyped(c) => Edited(c, c)
  /\ \A c, d, e : Edited(c, d) /\ Edited(d, e) => Edited(c, e)
<1>1. \A c : CliTyped(c) => Edited(c, c)
  BY DEF Edited, Touched, SameView, SameFly, SameStop
<1>2. ASSUME NEW c, NEW d, NEW e, Edited(c, d), Edited(d, e) PROVE Edited(c, e)
  <2>1. CliTyped(e) /\ SameView(c, e) /\ e.want \subseteq c.want
    BY <1>2 DEF Edited, Touched, SameView
  <2>2. \/ SameFly(c, e) /\ SameStop(c, e)
        \/ /\ NoFly(e) /\ e.waiting
           /\ c.waiting => SameStop(c, e)
           /\ ~c.waiting => e.cancel /\ e.stopEp = 0
    BY <1>2 DEF Edited, Touched, SameFly, SameStop, NoFly
  <2> QED
    BY <2>1, <2>2 DEF Edited, Touched
<1> QED
  BY <1>1, <1>2

(* The node's request is over: nothing is left to be told of it.           *)
LEMMA JobOver ==
  ASSUME NEW asked, NEW j, NEW h, NEW r, NEW fin, NEW c, JobOK(asked, j, h, r, fin),
         VerdictOK(asked, j, c, fin)
  PROVE  /\ \A r2 : JobOK(asked, NoJob, h, r2, fin) /\ JobOK(asked, NoJob, NoHeld, r2, fin)
         /\ \A r2, seen : JobOK(asked, NoJob, [id |-> j.id, seen |-> seen], r2, fin)
         /\ VerdictOK(asked, NoJob, c, fin)
<1>1. /\ NoJob.id = 0 /\ NoJob.done = FALSE /\ NoJob.kind = "none" /\ NoHeld.id = 0
      /\ NoJob = [id |-> NoJob.id, kind |-> NoJob.kind, done |-> NoJob.done, late |-> NoJob.late]
      /\ NoHeld = [id |-> NoHeld.id, seen |-> NoHeld.seen]
  BY DEF NoJob, NoHeld
<1>2. asked \in 0..MaxAsks /\ asked \in Nat /\ 0 \in 0..asked
  BY HandAssumption DEF JobOK
<1>3. \A r2 : JobOK(asked, NoJob, h, r2, fin) /\ JobOK(asked, NoJob, NoHeld, r2, fin)
  BY <1>1, <1>2 DEF JobOK
<1>4. ASSUME NEW seen PROVE \A r2 : JobOK(asked, NoJob, [id |-> j.id, seen |-> seen], r2, fin)
  <2>1. PICK g : g = [id |-> j.id, seen |-> seen]
    OBVIOUS
  <2>2. g = [id |-> g.id, seen |-> g.seen] /\ g.id \in 0..asked
    BY <2>1 DEF JobOK
  <2>3. \A r2 : JobOK(asked, NoJob, g, r2, fin)
    BY <1>1, <1>2, <2>2 DEF JobOK
  <2> QED
    BY <2>1, <2>3
<1>5. VerdictOK(asked, NoJob, c, fin)
  BY <1>1, <1>2 DEF VerdictOK, FailsOK, AboutGrasp, GraspKinds
<1> QED
  BY <1>3, <1>4, <1>5

(* One verdict more for the node's moves.                                  *)
LEMMA MovedMore ==
  ASSUME NEW s, NEW fin, MovedOK(s, fin), NEW m \in Moves, m.ok => m.id \in fin
  PROVE  MovedOK(Append(s, m), fin)
<1>1. s \in Seq(Moves) /\ \A i \in DOMAIN s : s[i].ok => s[i].id \in fin
  BY DEF MovedOK
<1>2. PICK t : t = Append(s, m)
  OBVIOUS
<1>3. /\ t \in Seq(Moves)
      /\ \A i \in DOMAIN t : t[i] = m \/ (i \in DOMAIN s /\ t[i] = s[i])
  BY <1>1, <1>2
<1>4. \A i \in DOMAIN t : t[i].ok => t[i].id \in fin
  BY <1>1, <1>3
<1> QED
  BY <1>2, <1>3, <1>4 DEF MovedOK

(* The action in flight is over for the node, and that is kept for it.     *)
LEMMA FailureKept ==
  ASSUME NEW asked, asked \in Nat, NEW j, NEW c, NEW d, NEW fin, VerdictOK(asked, j, c, fin), c.fly \in Acts,
         d.fly = NoAct, d.gdone = c.gdone,
         d.moved = (IF c.fly.kind = "move" THEN Append(c.moved, [id |-> c.fly.id, ok |-> FALSE]) ELSE c.moved),
         d.fails = (IF c.fly.kind \in GraspKinds THEN Append(c.fails, c.fly.id) ELSE c.fails)
  PROVE  VerdictOK(asked, j, d, fin)
<1>1. c.fly.id \in Nat /\ NoAct.kind = "none"
  BY DEF Acts, NoAct
<1>2. MovedOK(d.moved, fin)
  <2>1. CASE c.fly.kind = "move"
    <3>1. PICK m \in Moves : m = [id |-> c.fly.id, ok |-> FALSE]
      BY <1>1 DEF Moves
    <3>2. ~m.ok
      BY <3>1
    <3>3. d.moved = Append(c.moved, m) /\ MovedOK(c.moved, fin)
      BY <2>1, <3>1 DEF VerdictOK
    <3> QED
      BY <3>2, <3>3, MovedMore
  <2>2. CASE c.fly.kind # "move"
    BY <2>2 DEF VerdictOK
  <2> QED
    BY <2>1, <2>2
<1>3. FailsOK(d.fails, asked, j)
  <2>1. CASE c.fly.kind \in GraspKinds
    <3>1. d.fails = Append(c.fails, c.fly.id) /\ FailsOK(c.fails, asked, j) /\ AboutGrasp(c.fly.id, asked, j)
      BY <2>1 DEF VerdictOK
    <3> QED
      BY <1>1, <3>1 DEF FailsOK
  <2>2. CASE c.fly.kind \notin GraspKinds
    BY <2>2 DEF VerdictOK
  <2> QED
    BY <2>1, <2>2
<1> QED
  BY <1>1, <1>2, <1>3 DEF VerdictOK, GraspKinds

(* One tick of the node, part by part: each part leaves it sound and does  *)
(* no more to the client than edit it.                                     *)
WorldOK(w, fin) == w = World(w.n, w.c, w.r) /\ CliTyped(w.c) /\ NodeOK(w.n, w.c, w.r, fin)
Ticks(w, v, fin) == WorldOK(v, fin) /\ Edited(w.c, v.c)

(* A part that changes nothing, and one part after another.                *)
LEMMA TicksTwice ==
  /\ \A w, fin : WorldOK(w, fin) => Ticks(w, w, fin)
  /\ \A w, v, u, fin : Ticks(w, v, fin) /\ Ticks(v, u, fin) => Ticks(w, u, fin)
  BY EditedTwice DEF Ticks, WorldOK

(* What is known of a sound world.                                         *)
LEMMA WorldParts ==
  ASSUME NEW w, NEW fin, WorldOK(w, fin)
  PROVE  /\ w = [n |-> w.n, c |-> w.c, r |-> w.r] /\ CliTyped(w.c) /\ NodeShape(w.n)
         /\ ResOK(w.n.asked, w.r, fin) /\ JobOK(w.n.asked, w.n.job, w.n.held, w.r, fin)
         /\ VerdictOK(w.n.asked, w.n.job, w.c, fin)
         /\ w.n.asked \in 0..MaxAsks /\ w.n.asked \in Nat
         /\ w.n.job.id \in 0..w.n.asked /\ w.n.held.id \in 0..w.n.asked
<1>1. /\ w = [n |-> w.n, c |-> w.c, r |-> w.r] /\ CliTyped(w.c) /\ NodeShape(w.n)
      /\ ResOK(w.n.asked, w.r, fin) /\ JobOK(w.n.asked, w.n.job, w.n.held, w.r, fin)
      /\ VerdictOK(w.n.asked, w.n.job, w.c, fin)
  BY DEF WorldOK, World, NodeOK
<1>2. w.n.asked \in 0..MaxAsks /\ w.n.job.id \in 0..w.n.asked /\ w.n.held.id \in 0..w.n.asked
  BY <1>1 DEF JobOK
<1>3. w.n.asked \in Nat
  BY <1>2, HandAssumption
<1> QED
  BY <1>1, <1>2, <1>3

(* A stop is asked for.                                                    *)
LEMMA CancelTicks ==
  ASSUME NEW w, NEW fin, WorldOK(w, fin)
  PROVE  Ticks(w, Cancelling(w), fin)
<1>0. /\ w = [n |-> w.n, c |-> w.c, r |-> w.r] /\ CliTyped(w.c) /\ NodeShape(w.n)
      /\ ResOK(w.n.asked, w.r, fin) /\ JobOK(w.n.asked, w.n.job, w.n.held, w.r, fin)
      /\ VerdictOK(w.n.asked, w.n.job, w.c, fin) /\ w.n.asked \in Nat
  BY WorldParts
<1>1. PICK d : d = MoveCancelled(w.c)
  OBVIOUS
<1>2. PICK v : v = Cancelling(w)
  OBVIOUS
<1>3. v = [n |-> w.n, c |-> d, r |-> w.r]
  BY <1>0, <1>1, <1>2 DEF Cancelling
<1>4. /\ Edited(w.c, d) /\ NoFly(d) /\ d.gdone = w.c.gdone
      /\ d.moved = (IF w.c.fly.kind = "move" THEN Append(w.c.moved, [id |-> w.c.fly.id, ok |-> FALSE])
                    ELSE w.c.moved)
      /\ d.fails = (IF w.c.fly.kind \in GraspKinds THEN Append(w.c.fails, w.c.fly.id) ELSE w.c.fails)
  BY <1>0, <1>1, CancelledFields
<1>5. w.c.fly \in Acts /\ d.fly = NoAct /\ CliTyped(d)
  BY <1>0, <1>4 DEF CliTyped, NoFly, Edited, Touched
<1>6. VerdictOK(w.n.asked, w.n.job, d, fin)
  BY <1>0, <1>4, <1>5, FailureKept
<1>7. v.n = w.n /\ v.c = d /\ v.r = w.r /\ v = World(v.n, v.c, v.r)
  BY <1>3 DEF World
<1>8. WorldOK(v, fin)
  BY <1>0, <1>5, <1>6, <1>7 DEF WorldOK, NodeOK
<1> QED
  BY <1>2, <1>4, <1>7, <1>8 DEF Ticks

(* The pending request is over and its requester told.                     *)
LEMMA OverTicks ==
  ASSUME NEW w, NEW fin, WorldOK(w, fin), NEW v, NEW id \in 0..w.n.asked,
         NEW how \in {"ok", "assumed", "failed"},
         how # "failed" /\ id # 0 => w.r[id] = "none" /\ (how = "ok" => id \in fin),
         NEW h, v = [n |-> [auth |-> w.n.auth, asked |-> w.n.asked, job |-> NoJob, held |-> h],
                     c |-> w.c, r |-> Told(w.r, id, how)],
         h \in {w.n.held, NoHeld} \/ \E seen : h = [id |-> w.n.job.id, seen |-> seen]
  PROVE  Ticks(w, v, fin)
<1>0. /\ CliTyped(w.c)
      /\ ResOK(w.n.asked, w.r, fin) /\ JobOK(w.n.asked, w.n.job, w.n.held, w.r, fin)
      /\ VerdictOK(w.n.asked, w.n.job, w.c, fin) /\ w.n.asked \in 0..MaxAsks
  BY WorldParts
<1>1. PICK r2 : r2 = Told(w.r, id, how)
  OBVIOUS
<1>2. ResOK(w.n.asked, r2, fin)
  BY <1>0, <1>1, ToldOK
<1>3. JobOK(w.n.asked, NoJob, h, r2, fin) /\ VerdictOK(w.n.asked, NoJob, w.c, fin)
  BY <1>0, JobOver
<1>4. /\ v.c = w.c /\ v.r = r2 /\ v.n = [auth |-> w.n.auth, asked |-> w.n.asked, job |-> NoJob, held |-> h]
      /\ v = [n |-> v.n, c |-> v.c, r |-> v.r]
  BY <1>1
<1>5. NodeShape(v.n) /\ v.n.asked = w.n.asked /\ v.n.job = NoJob /\ v.n.held = h
  BY <1>4 DEF NodeShape
<1>6. WorldOK(v, fin)
  BY <1>0, <1>2, <1>3, <1>4, <1>5 DEF WorldOK, NodeOK, World
<1> QED
  BY <1>0, <1>4, <1>6, EditedTwice DEF Ticks

(* A failure is told; a pending move goes on.                              *)
LEMMA FailTicks ==
  ASSUME NEW w, NEW fin, WorldOK(w, fin), NEW v, NEW id \in 0..w.n.asked,
         id # w.n.job.id \/ w.n.job.id = 0,
         NEW h, h \in {w.n.held, NoHeld},
         v = [n |-> [auth |-> w.n.auth, asked |-> w.n.asked, job |-> w.n.job, held |-> h],
              c |-> w.c, r |-> Told(w.r, id, "failed")]
  PROVE  Ticks(w, v, fin)
<1>0. /\ CliTyped(w.c)
      /\ ResOK(w.n.asked, w.r, fin) /\ JobOK(w.n.asked, w.n.job, w.n.held, w.r, fin)
      /\ VerdictOK(w.n.asked, w.n.job, w.c, fin) /\ w.n.asked \in 0..MaxAsks
      /\ w.n.job.id \in 0..w.n.asked /\ w.n.asked \in Nat
  BY WorldParts
<1>1. PICK r2 : r2 = Told(w.r, id, "failed")
  OBVIOUS
<1>2. ResOK(w.n.asked, r2, fin) /\ \A i \in Ids : i # id => r2[i] = w.r[i]
  BY <1>0, <1>1, ToldOK
<1>3. w.n.job.id # 0 => w.n.job.id \in Ids /\ r2[w.n.job.id] = w.r[w.n.job.id]
  BY <1>0, <1>2, HandAssumption DEF Ids
<1>4. NoHeld.id = 0 /\ NoHeld = [id |-> NoHeld.id, seen |-> NoHeld.seen] /\ 0 \in 0..w.n.asked
  BY <1>0 DEF NoHeld
<1>5. JobOK(w.n.asked, w.n.job, h, r2, fin)
  BY <1>0, <1>3, <1>4 DEF JobOK
<1>6. /\ v.c = w.c /\ v.r = r2 /\ v.n = [auth |-> w.n.auth, asked |-> w.n.asked, job |-> w.n.job, held |-> h]
      /\ v = [n |-> v.n, c |-> v.c, r |-> v.r]
  BY <1>1
<1>7. NodeShape(v.n) /\ v.n.asked = w.n.asked /\ v.n.job = w.n.job /\ v.n.held = h
  BY <1>6 DEF NodeShape
<1>8. WorldOK(v, fin)
  BY <1>0, <1>2, <1>5, <1>6, <1>7 DEF WorldOK, NodeOK, World
<1> QED
  BY <1>0, <1>6, <1>8, EditedTwice DEF Ticks

(* The node's ways to end a request, field by field.                       *)
LEMMA EndedAre ==
  ASSUME NEW w, NEW fin, WorldOK(w, fin), NEW id, NEW how
  PROVE  /\ Ended(w, id, how) = [n |-> [auth |-> w.n.auth, asked |-> w.n.asked, job |-> NoJob,
                                        held |-> w.n.held],
                                 c |-> w.c, r |-> Told(w.r, id, how)]
         /\ EndedBoth(w, id, how) = [n |-> [auth |-> w.n.auth, asked |-> w.n.asked, job |-> NoJob,
                                            held |-> NoHeld],
                                     c |-> w.c, r |-> Told(w.r, id, how)]
         /\ \A seen : GraspHeld(w, id, seen, how) =
              [n |-> [auth |-> w.n.auth, asked |-> w.n.asked, job |-> NoJob,
                      held |-> [id |-> id, seen |-> seen]],
               c |-> w.c, r |-> Told(w.r, id, how)]
<1>0. w = [n |-> w.n, c |-> w.c, r |-> w.r] /\ NodeShape(w.n)
  BY WorldParts
<1>1. PICK r2 : r2 = Told(w.r, id, how)
  OBVIOUS
<1>2. PICK v : v = Ended(w, id, how)
  OBVIOUS
<1>3. v = [w EXCEPT !.n.job = NoJob, !.r = r2]
  BY <1>1, <1>2 DEF Ended
<1>4. v = [n |-> [auth |-> w.n.auth, asked |-> w.n.asked, job |-> NoJob, held |-> w.n.held],
           c |-> w.c, r |-> r2]
  BY <1>0, <1>3 DEF NodeShape
<1>5. ASSUME NEW h PROVE [v EXCEPT !.n.held = h] =
        [n |-> [auth |-> w.n.auth, asked |-> w.n.asked, job |-> NoJob, held |-> h], c |-> w.c, r |-> r2]
  BY <1>4
<1> QED
  BY <1>1, <1>2, <1>4, <1>5 DEF EndedBoth, GraspHeld

(* A failed grasp, which in a gated graph is also stopped.                 *)
LEMMA GraspFailedTicks ==
  ASSUME NEW w, NEW fin, WorldOK(w, fin), NEW id \in 0..w.n.asked,
         w.n.job.kind = "move" => id # w.n.job.id
  PROVE  Ticks(w, GraspFailed(w, id), fin)
<1>0. w = [n |-> w.n, c |-> w.c, r |-> w.r] /\ NodeShape(w.n)
  BY WorldParts
<1>1. PICK r2 : r2 = Told(w.r, id, "failed")
  OBVIOUS
<1>2. PICK j : j = IF w.n.job.kind = "move" THEN w.n.job ELSE NoJob
  OBVIOUS
<1>3. PICK v : v = [w EXCEPT !.n.job = j, !.n.held = NoHeld, !.r = r2]
  OBVIOUS
<1>4. v = [n |-> [auth |-> w.n.auth, asked |-> w.n.asked, job |-> j, held |-> NoHeld], c |-> w.c, r |-> r2]
  BY <1>0, <1>3 DEF NodeShape
<1>5. Ticks(w, v, fin)
  <2>1. CASE w.n.job.kind = "move"
    BY <1>1, <1>2, <1>4, <2>1, FailTicks
  <2>2. CASE w.n.job.kind # "move"
    BY <1>1, <1>2, <1>4, <2>2, OverTicks
  <2> QED
    BY <2>1, <2>2
<1>6. GraspFailed(w, id) = IF graph.gated THEN Cancelling(v) ELSE v
  BY <1>1, <1>2, <1>3 DEF GraspFailed
<1>7. Ticks(v, Cancelling(v), fin)
  BY <1>5, CancelTicks DEF Ticks
<1> QED
  BY <1>5, <1>6, <1>7, TicksTwice

(* Verdicts are taken from the client.                                     *)
Taken(c, mo, si, fa) == [c EXCEPT !.moved = mo, !.since = si, !.fails = fa]

(* That leaves what the bridge knows of the client as it was.              *)
LEMMA TakenFields ==
  ASSUME NEW c, CliTyped(c), NEW d, NEW mo, NEW si, NEW fa,
         d = Taken(c, mo, si, fa)
  PROVE  Edited(c, d) /\ d.fly = c.fly /\ d.gdone = c.gdone /\ d.moved = mo /\ d.fails = fa
<1>1. CliShape(c) /\ c.epoch \in Nat /\ c.stopEp \in Nat /\ c.fly \in Acts
  BY DEF CliTyped
<1>2. /\ d.conn = c.conn /\ d.epoch = c.epoch /\ d.st = c.st /\ d.stopEp = c.stopEp /\ d.fly = c.fly
      /\ d.gdone = c.gdone /\ d.moved = mo /\ d.fails = fa /\ d.want = c.want
  BY <1>1 DEF CliShape, Taken
<1>3. (d.cancel <=> c.cancel) /\ (d.waiting <=> c.waiting) /\ (d.cmd <=> c.cmd)
  BY <1>1 DEF CliShape, Taken
<1>4. CliShape(d)
  BY <1>1 DEF CliShape, Taken
<1> QED
  BY <1>1, <1>2, <1>3, <1>4 DEF CliTyped, Edited, Touched, SameView, SameStop, SameFly

(* So the world stays sound.                                               *)
LEMMA TakenTicks ==
  ASSUME NEW w, NEW fin, WorldOK(w, fin), NEW v, NEW d, NEW mo, NEW si, NEW fa,
         v = [n |-> w.n, c |-> d, r |-> w.r],
         d = Taken(w.c, mo, si, fa),
         mo \in {w.c.moved, <<>>}, fa \in {w.c.fails, <<>>}
  PROVE  Ticks(w, v, fin)
<1>0. /\ CliTyped(w.c) /\ NodeShape(w.n)
      /\ ResOK(w.n.asked, w.r, fin) /\ JobOK(w.n.asked, w.n.job, w.n.held, w.r, fin)
      /\ VerdictOK(w.n.asked, w.n.job, w.c, fin)
  BY WorldParts
<1>1. Edited(w.c, d) /\ d.fly = w.c.fly /\ d.gdone = w.c.gdone /\ d.moved = mo /\ d.fails = fa
  BY <1>0, TakenFields
<1>2. MovedOK(mo, fin) /\ FailsOK(fa, w.n.asked, w.n.job)
  <2>1. MovedOK(w.c.moved, fin) /\ FailsOK(w.c.fails, w.n.asked, w.n.job)
    BY <1>0 DEF VerdictOK
  <2>2. MovedOK(<<>>, fin)
    BY DEF MovedOK
  <2>3. FailsOK(<<>>, w.n.asked, w.n.job)
    BY DEF FailsOK
  <2> QED
    BY <2>1, <2>2, <2>3
<1>3. VerdictOK(w.n.asked, w.n.job, d, fin)
  BY <1>0, <1>1, <1>2 DEF VerdictOK
<1>4. v.n = w.n /\ v.c = d /\ v.r = w.r /\ v = World(v.n, v.c, v.r)
  BY DEF World
<1>5. WorldOK(v, fin)
  BY <1>0, <1>1, <1>3, <1>4 DEF WorldOK, NodeOK, Edited, Touched
<1> QED
  BY <1>1, <1>4, <1>5 DEF Ticks

(* So every way to end the pending request leaves the world sound.         *)
LEMMA EndTicks ==
  ASSUME NEW w, NEW fin, WorldOK(w, fin)
  PROVE  /\ Ticks(w, Ended(w, w.n.job.id, "failed"), fin)
         /\ \A id \in 0..w.n.asked : Ticks(w, EndedBoth(w, id, "failed"), fin)
         /\ \A seen : Ticks(w, GraspHeld(w, w.n.job.id, seen, "assumed"), fin)
         /\ w.n.job.id \in fin =>
              /\ Ticks(w, Ended(w, w.n.job.id, "ok"), fin)
              /\ Ticks(w, EndedBoth(w, w.n.job.id, "ok"), fin)
              /\ \A seen : Ticks(w, GraspHeld(w, w.n.job.id, seen, "ok"), fin)
<1>0. /\ JobOK(w.n.asked, w.n.job, w.n.held, w.r, fin) /\ w.n.job.id \in 0..w.n.asked
  BY WorldParts
<1>1. w.n.job.id # 0 => w.r[w.n.job.id] = "none"
  BY <1>0 DEF JobOK
<1> DEFINE E(h, id, how) == [n |-> [auth |-> w.n.auth, asked |-> w.n.asked, job |-> NoJob, held |-> h],
                             c |-> w.c, r |-> Told(w.r, id, how)]
<1>2. ASSUME NEW h, NEW id \in 0..w.n.asked, NEW how \in {"ok", "assumed", "failed"},
             how # "failed" /\ id # 0 => w.r[id] = "none" /\ (how = "ok" => id \in fin),
             h \in {w.n.held, NoHeld} \/ \E seen : h = [id |-> w.n.job.id, seen |-> seen]
      PROVE  Ticks(w, E(h, id, how), fin)
  BY <1>2, OverTicks
<1>3. /\ \A id, how : Ended(w, id, how) = E(w.n.held, id, how) /\ EndedBoth(w, id, how) = E(NoHeld, id, how)
      /\ \A id, how, seen : GraspHeld(w, id, seen, how) = E([id |-> id, seen |-> seen], id, how)
  BY EndedAre
<1> HIDE DEF E
<1>4. Ticks(w, Ended(w, w.n.job.id, "failed"), fin)
  BY <1>0, <1>2, <1>3
<1>5. \A id \in 0..w.n.asked : Ticks(w, EndedBoth(w, id, "failed"), fin)
  BY <1>2, <1>3
<1>6. ASSUME NEW seen PROVE Ticks(w, GraspHeld(w, w.n.job.id, seen, "assumed"), fin)
  <2>1. PICK h : h = [id |-> w.n.job.id, seen |-> seen]
    OBVIOUS
  <2>2. Ticks(w, E(h, w.n.job.id, "assumed"), fin)
    BY <1>0, <1>1, <1>2, <2>1
  <2> QED
    BY <1>3, <2>1, <2>2
<1>7. ASSUME w.n.job.id \in fin
      PROVE  Ticks(w, Ended(w, w.n.job.id, "ok"), fin) /\ Ticks(w, EndedBoth(w, w.n.job.id, "ok"), fin)
  BY <1>0, <1>1, <1>2, <1>3, <1>7
<1>8. ASSUME w.n.job.id \in fin, NEW seen PROVE Ticks(w, GraspHeld(w, w.n.job.id, seen, "ok"), fin)
  <2>1. PICK h : h = [id |-> w.n.job.id, seen |-> seen]
    OBVIOUS
  <2>2. Ticks(w, E(h, w.n.job.id, "ok"), fin)
    BY <1>0, <1>1, <1>2, <1>8, <2>1
  <2> QED
    BY <1>3, <2>1, <2>2
<1> QED
  BY <1>4, <1>5, <1>6, <1>7, <1>8

(* Ended, and stopped as well.                                             *)
LEMMA StopTicks ==
  ASSUME NEW w, NEW v, NEW fin, Ticks(w, v, fin)
  PROVE  Ticks(w, Cancelling(v), fin)
  BY CancelTicks, TicksTwice DEF Ticks

(* The loss of the arm's authority.                                        *)
LEMMA UnauthorisedTicks ==
  ASSUME NEW w, NEW fin, WorldOK(w, fin)
  PROVE  Ticks(w, MoveUnauthorised(w), fin) /\ Ticks(w, GraspUnauthorised(w), fin)
<1>1. Ticks(w, MoveUnauthorised(w), fin)
  BY EndTicks, StopTicks, TicksTwice DEF MoveUnauthorised
<1>2. FsmId(w.n) \in 0..w.n.asked
  BY WorldParts DEF FsmId
<1>3. Ticks(w, GraspUnauthorised(w), fin)
  BY <1>2, EndTicks, StopTicks, TicksTwice DEF GraspUnauthorised
<1> QED
  BY <1>1, <1>3

(* The end of a move.                                                      *)
LEMMA MovePollTicks ==
  ASSUME NEW w, NEW fin, WorldOK(w, fin), NEW s
  PROVE  Ticks(w, MovePoll(w, s), fin)
<1>1. w.n.job.done => w.n.job.id \in fin
  BY WorldParts DEF JobOK
<1> QED
  BY <1>1, EndTicks, StopTicks, TicksTwice DEF MovePoll

(* The end of a grasp, and of one watched.                                 *)
LEMMA GraspPollTicks ==
  ASSUME NEW w, NEW fin, WorldOK(w, fin), NEW s
  PROVE  Ticks(w, GraspPoll(w, s), fin)
<1>0. /\ JobOK(w.n.asked, w.n.job, w.n.held, w.r, fin) /\ VerdictOK(w.n.asked, w.n.job, w.c, fin)
      /\ w.n.job.id \in 0..w.n.asked /\ w.n.held.id \in 0..w.n.asked /\ NodeShape(w.n)
      /\ w = [n |-> w.n, c |-> w.c, r |-> w.r] /\ CliTyped(w.c) /\ ResOK(w.n.asked, w.r, fin)
  BY WorldParts
<1>1. Ticks(w, w, fin)
  BY TicksTwice
<1>2. w.n.job.id # 0 => w.n.job.id # w.n.held.id
  BY <1>0 DEF JobOK
<1>k. w.n.job.id = 0 => w.n.job.kind = "none"
  BY <1>0 DEF JobOK, NoJob
<1>3. CASE w.n.job.kind \in GraspKinds
  <2>0. w.n.job.kind # "move" /\ FsmId(w.n) = w.n.job.id
    BY <1>3 DEF GraspKinds, FsmId
  <2>1. Ticks(w, GraspFailed(w, w.n.job.id), fin)
    BY <1>0, <2>0, GraspFailedTicks
  <2>2. w.c.gdone = "ok" => w.n.job.id \in fin
    BY <1>0, <1>3 DEF VerdictOK
  <2>3. Ticks(w, GatedPoll(w, s), fin)
    BY <1>1, <2>1, <2>2, EndTicks DEF GatedPoll
  <2>4. Ticks(w, ManualPoll(w, s), fin)
    BY <1>1, <2>1, <2>2, EndTicks DEF ManualPoll
  <2> QED
    BY <1>1, <1>3, <2>0, <2>1, <2>3, <2>4 DEF GraspPoll
<1>4. CASE w.n.job.kind \notin GraspKinds
  <2>0. FsmId(w.n) = w.n.held.id
    BY <1>4 DEF FsmId
  <2>1. Ticks(w, GraspFailed(w, w.n.held.id), fin)
    BY <1>0, <1>2, <1>k, GraspFailedTicks
  <2>2. PICK v : v = [w EXCEPT !.n.held.seen = TRUE]
    OBVIOUS
  <2>3. Ticks(w, v, fin)
    <3>1. PICK h : h = [id |-> w.n.held.id, seen |-> TRUE]
      OBVIOUS
    <3>2. h.id = w.n.held.id /\ h = [id |-> h.id, seen |-> h.seen]
      BY <3>1
    <3>3. w.n.held = [id |-> w.n.held.id, seen |-> w.n.held.seen]
      BY <1>0 DEF JobOK
    <3>4. v = [n |-> [auth |-> w.n.auth, asked |-> w.n.asked, job |-> w.n.job, held |-> h],
               c |-> w.c, r |-> w.r]
      BY <1>0, <2>2, <3>1, <3>3 DEF NodeShape
    <3>5. v.c = w.c /\ v.r = w.r /\ v = World(v.n, v.c, v.r)
          /\ v.n = [auth |-> w.n.auth, asked |-> w.n.asked, job |-> w.n.job, held |-> h]
      BY <3>4 DEF World
    <3>6. NodeShape(v.n) /\ v.n.asked = w.n.asked /\ v.n.job = w.n.job /\ v.n.held = h
      BY <3>5 DEF NodeShape
    <3>7. JobOK(w.n.asked, w.n.job, h, w.r, fin)
      BY <1>0, <3>2 DEF JobOK
    <3>8. WorldOK(v, fin)
      BY <1>0, <3>5, <3>6, <3>7 DEF WorldOK, NodeOK
    <3> QED
      BY <1>0, <3>5, <3>8, EditedTwice DEF Ticks
  <2>4. Ticks(w, WatchPoll(w, s), fin)
    BY <1>1, <2>1, <2>2, <2>3 DEF WatchPoll
  <2> QED
    BY <1>1, <1>4, <2>0, <2>1, <2>4 DEF GraspPoll
<1> QED
  BY <1>3, <1>4

(* The verdicts on moves are taken, or those on grasps.                    *)
LEMMA PoppedAre ==
  ASSUME NEW w, w = [n |-> w.n, c |-> w.c, r |-> w.r], CliShape(w.c)
  PROVE  /\ [w EXCEPT !.c.moved = <<>>] = [n |-> w.n, c |-> Taken(w.c, <<>>, w.c.since, w.c.fails), r |-> w.r]
         /\ [w EXCEPT !.c.fails = <<>>] = [n |-> w.n, c |-> Taken(w.c, w.c.moved, w.c.since, <<>>), r |-> w.r]
<1>1. PICK c : c = w.c
  OBVIOUS
<1>2. PICK n : n = w.n
  OBVIOUS
<1>3. PICK r : r = w.r
  OBVIOUS
<1>4. w = [n |-> n, c |-> c, r |-> r]
  BY <1>1, <1>2, <1>3
<1>5. CliShape(c)
  BY <1>1
<1>6. [c EXCEPT !.moved = <<>>] = Taken(c, <<>>, c.since, c.fails)
  BY <1>5 DEF CliShape, Taken
<1>7. [c EXCEPT !.fails = <<>>] = Taken(c, c.moved, c.since, <<>>)
  BY <1>5 DEF CliShape, Taken
<1>8. [w EXCEPT !.c.moved = <<>>] = [n |-> n, c |-> [c EXCEPT !.moved = <<>>], r |-> r]
  BY <1>4
<1>9. [w EXCEPT !.c.fails = <<>>] = [n |-> n, c |-> [c EXCEPT !.fails = <<>>], r |-> r]
  BY <1>4
<1> QED
  BY <1>1, <1>2, <1>3, <1>6, <1>7, <1>8, <1>9

(* The end of a move is told by the client.                                *)
LEMMA MoveDoneTicks ==
  ASSUME NEW w, NEW fin, WorldOK(w, fin)
  PROVE  Ticks(w, MoveDone(w), fin)
<1>0. /\ VerdictOK(w.n.asked, w.n.job, w.c, fin)
      /\ w = [n |-> w.n, c |-> w.c, r |-> w.r] /\ CliTyped(w.c) /\ CliShape(w.c)
  BY WorldParts DEF CliTyped
<1>1. PICK v : v = [w EXCEPT !.c.moved = <<>>]
  OBVIOUS
<1>2. PICK d : d = Taken(w.c, <<>>, w.c.since, w.c.fails)
  OBVIOUS
<1>3. v = [n |-> w.n, c |-> d, r |-> w.r]
  BY <1>0, <1>1, <1>2, PoppedAre
<1>4. Ticks(w, v, fin) /\ WorldOK(v, fin) /\ v.n = w.n /\ v.c = d /\ v.r = w.r
  <2>1. Ticks(w, v, fin)
    BY <1>2, <1>3, TakenTicks
  <2> QED
    BY <1>3, <2>1 DEF Ticks
<1>5. PICK got : got = IF w.c.moved = <<>> THEN [id |-> 0, ok |-> FALSE] ELSE Head(w.c.moved)
  OBVIOUS
<1>6. got.ok => got.id \in fin
  <2>1. CASE w.c.moved = <<>>
    BY <1>5, <2>1
  <2>2. CASE w.c.moved # <<>>
    <3>1. w.c.moved \in Seq(Moves) /\ \A i \in DOMAIN w.c.moved : w.c.moved[i].ok => w.c.moved[i].id \in fin
      BY <1>0 DEF VerdictOK, MovedOK
    <3>2. 1 \in DOMAIN w.c.moved /\ got = w.c.moved[1]
      BY <1>5, <2>2, <3>1
    <3> QED
      BY <3>1, <3>2
  <2> QED
    BY <2>1, <2>2
<1>7. MoveDone(w) = IF ~(w.n.job.kind = "move" /\ got.id = w.n.job.id) THEN v
                    ELSE IF got.ok THEN [v EXCEPT !.n.job.done = TRUE, !.c.since = @ \ {"move"}]
                    ELSE Ended(v, got.id, "failed")
  BY <1>1, <1>5 DEF MoveDone
<1>8. Ticks(v, Ended(v, v.n.job.id, "failed"), fin)
  BY <1>4, EndTicks
<1>9. ASSUME got.id = w.n.job.id, got.ok, w.n.job.kind = "move"
      PROVE  Ticks(v, [v EXCEPT !.n.job.done = TRUE, !.c.since = @ \ {"move"}], fin)
  <2>0. /\ v = [n |-> v.n, c |-> v.c, r |-> v.r] /\ CliTyped(v.c) /\ NodeShape(v.n) /\ CliShape(v.c)
        /\ ResOK(v.n.asked, v.r, fin) /\ JobOK(v.n.asked, v.n.job, v.n.held, v.r, fin)
        /\ VerdictOK(v.n.asked, v.n.job, v.c, fin)
    BY <1>4, WorldParts DEF CliTyped
  <2>1. v.n.job.id \in fin
    BY <1>4, <1>6, <1>9
  <2>2. PICK j : j = [id |-> v.n.job.id, kind |-> v.n.job.kind, done |-> TRUE, late |-> v.n.job.late]
    OBVIOUS
  <2>3. PICK si : si = v.c.since \ {"move"}
    OBVIOUS
  <2>4. PICK e : e = Taken(v.c, v.c.moved, si, v.c.fails)
    OBVIOUS
  <2>5. PICK u : u = [v EXCEPT !.n.job.done = TRUE, !.c.since = @ \ {"move"}]
    OBVIOUS
  <2>6. u = [n |-> [auth |-> v.n.auth, asked |-> v.n.asked, job |-> j, held |-> v.n.held], c |-> e, r |-> v.r]
    <3>1. PICK c : c = v.c
      OBVIOUS
    <3>2. PICK n : n = v.n
      OBVIOUS
    <3>3. PICK r : r = v.r
      OBVIOUS
    <3>4. v = [n |-> n, c |-> c, r |-> r] /\ CliShape(c) /\ NodeShape(n)
      BY <2>0, <3>1, <3>2, <3>3
    <3>5. [c EXCEPT !.since = si] = e
      BY <2>4, <3>1, <3>4 DEF CliShape, Taken
    <3>6. n.job = [id |-> n.job.id, kind |-> n.job.kind, done |-> n.job.done, late |-> n.job.late]
      BY <2>0, <3>2 DEF JobOK
    <3>7. u = [[v EXCEPT !.n.job.done = TRUE] EXCEPT !.c.since = si]
      BY <2>3, <2>5, <3>1, <3>4
    <3>8. PICK x : x = [v EXCEPT !.n.job.done = TRUE]
      OBVIOUS
    <3>9. x = [n |-> [auth |-> n.auth, asked |-> n.asked, job |-> j, held |-> n.held], c |-> c, r |-> r]
      <4>1. PICK k : k = n.job
        OBVIOUS
      <4>2. PICK m : m = [auth |-> n.auth, asked |-> n.asked, job |-> j, held |-> n.held]
        OBVIOUS
      <4>3. [k EXCEPT !.done = TRUE] = j
        <5>1. k = [id |-> k.id, kind |-> k.kind, done |-> k.done, late |-> k.late]
          BY <3>6, <4>1
        <5>2. PICK t : t = TRUE
          OBVIOUS
        <5>3. j = [id |-> k.id, kind |-> k.kind, done |-> t, late |-> k.late]
          BY <2>2, <3>2, <4>1, <5>2
        <5>4. [k EXCEPT !.done = t] = j
          BY <5>1, <5>3
        <5> QED
          BY <5>2, <5>4
      <4>4. [n EXCEPT !.job = j] = m
        BY <3>4, <4>2 DEF NodeShape
      <4>5. x = [v EXCEPT !.n = [n EXCEPT !.job = [k EXCEPT !.done = TRUE]]]
        BY <3>2, <3>8, <4>1
      <4>6. x = [v EXCEPT !.n = m]
        BY <4>3, <4>4, <4>5
      <4> QED
        BY <3>4, <4>2, <4>6
    <3>10. u = [x EXCEPT !.c.since = si]
      BY <3>7, <3>8
    <3>11. u = [n |-> x.n, c |-> [c EXCEPT !.since = si], r |-> r]
      BY <3>9, <3>10
    <3> QED
      BY <3>2, <3>3, <3>5, <3>9, <3>11
  <2>7. Edited(v.c, e) /\ e.fly = v.c.fly /\ e.gdone = v.c.gdone /\ e.moved = v.c.moved /\ e.fails = v.c.fails
    BY <2>0, <2>4, TakenFields
  <2>8. /\ j.id = v.n.job.id /\ j.kind = v.n.job.kind
        /\ j = [id |-> j.id, kind |-> j.kind, done |-> j.done, late |-> j.late]
    BY <2>2
  <2>9. JobOK(v.n.asked, j, v.n.held, v.r, fin)
    <3>1. v.n.job.id = 0 => v.n.job.kind = "none"
      BY <2>0 DEF JobOK, NoJob
    <3>2. v.n.job.id # 0
      BY <1>4, <1>9, <3>1
    <3> QED
      BY <2>0, <2>1, <2>8, <3>2 DEF JobOK
  <2>10. VerdictOK(v.n.asked, j, e, fin)
    BY <2>0, <2>7, <2>8 DEF VerdictOK, FailsOK, AboutGrasp
  <2>11. u.c = e /\ u.r = v.r /\ u = World(u.n, u.c, u.r)
         /\ u.n = [auth |-> v.n.auth, asked |-> v.n.asked, job |-> j, held |-> v.n.held]
    BY <2>6 DEF World
  <2>12. NodeShape(u.n) /\ u.n.asked = v.n.asked /\ u.n.job = j /\ u.n.held = v.n.held
    BY <2>11 DEF NodeShape
  <2>13. WorldOK(u, fin)
    BY <2>0, <2>7, <2>9, <2>10, <2>11, <2>12 DEF WorldOK, NodeOK, Edited, Touched
  <2> QED
    BY <2>5, <2>7, <2>11, <2>13 DEF Ticks
<1> QED
  BY <1>4, <1>7, <1>8, <1>9, TicksTwice

(* The failure of a grasp is told by the client.                           *)
LEMMA GraspFailuresTicks ==
  ASSUME NEW w, NEW fin, WorldOK(w, fin)
  PROVE  Ticks(w, GraspFailures(w), fin)
<1>0. /\ VerdictOK(w.n.asked, w.n.job, w.c, fin)
      /\ w = [n |-> w.n, c |-> w.c, r |-> w.r] /\ CliTyped(w.c) /\ CliShape(w.c)
      /\ w.n.asked \in Nat
  BY WorldParts DEF CliTyped
<1>1. PICK v : v = [w EXCEPT !.c.fails = <<>>]
  OBVIOUS
<1>2. PICK d : d = Taken(w.c, w.c.moved, w.c.since, <<>>)
  OBVIOUS
<1>3. v = [n |-> w.n, c |-> d, r |-> w.r]
  BY <1>0, <1>1, <1>2, PoppedAre
<1>4. Ticks(w, v, fin) /\ WorldOK(v, fin) /\ v.n = w.n
  <2>1. Ticks(w, v, fin)
    BY <1>2, <1>3, TakenTicks
  <2> QED
    BY <1>3, <2>1 DEF Ticks
<1>5. PICK id : id = IF w.c.fails = <<>> THEN 0 ELSE Head(w.c.fails)
  OBVIOUS
<1>6. id # 0 => AboutGrasp(id, w.n.asked, w.n.job)
  <2>1. CASE w.c.fails # <<>>
    <3>1. w.c.fails \in Seq(Nat) /\ \A i \in DOMAIN w.c.fails : AboutGrasp(w.c.fails[i], w.n.asked, w.n.job)
      BY <1>0 DEF VerdictOK, FailsOK
    <3>2. 1 \in DOMAIN w.c.fails /\ id = w.c.fails[1]
      BY <1>5, <2>1, <3>1
    <3> QED
      BY <3>1, <3>2
  <2> QED
    BY <1>5, <2>1
<1>7. PICK r2 : r2 = Told(v.r, id, "failed")
  OBVIOUS
<1>8. PICK j : j = IF v.n.job.kind = "move" THEN v.n.job ELSE NoJob
  OBVIOUS
<1>9. GraspFailures(w) = IF id = 0 THEN v
                         ELSE IF id = FsmId(v.n) THEN [v EXCEPT !.n.job = j, !.n.held = NoHeld, !.r = r2]
                         ELSE [v EXCEPT !.r = r2]
  BY <1>1, <1>5, <1>7, <1>8 DEF GraspFailures
<1>b. /\ v = [n |-> v.n, c |-> v.c, r |-> v.r] /\ NodeShape(v.n)
      /\ JobOK(v.n.asked, v.n.job, v.n.held, v.r, fin)
  BY <1>4, WorldParts
<1>k. v.n.job.id = 0 => v.n.job.kind = "none"
  BY <1>b DEF JobOK, NoJob
<1>10. ASSUME id # 0, id = FsmId(v.n)
       PROVE  Ticks(v, [v EXCEPT !.n.job = j, !.n.held = NoHeld, !.r = r2], fin)
  <2>0. id \in 0..v.n.asked
    BY <1>4, <1>6, <1>10 DEF AboutGrasp
  <2>1. PICK x : x = [v EXCEPT !.n.job = j, !.n.held = NoHeld, !.r = r2]
    OBVIOUS
  <2>2. x = [n |-> [auth |-> v.n.auth, asked |-> v.n.asked, job |-> j, held |-> NoHeld], c |-> v.c, r |-> r2]
    BY <1>b, <2>1 DEF NodeShape
  <2>3. CASE v.n.job.kind = "move"
    <3>1. id # v.n.job.id
      BY <1>10, <1>b, <1>k, <2>3 DEF FsmId, GraspKinds, JobOK
    <3> QED
      BY <1>4, <1>7, <1>8, <2>0, <2>1, <2>2, <2>3, <3>1, FailTicks
  <2>4. CASE v.n.job.kind # "move"
    BY <1>4, <1>7, <1>8, <2>0, <2>1, <2>2, <2>4, OverTicks
  <2> QED
    BY <2>3, <2>4
<1>11. ASSUME id # 0, id # FsmId(v.n) PROVE Ticks(v, [v EXCEPT !.r = r2], fin)
  <2>0. id \in 0..v.n.asked
    BY <1>4, <1>6, <1>11 DEF AboutGrasp
  <2>1. id # v.n.job.id
    BY <1>4, <1>6, <1>11 DEF AboutGrasp, FsmId
  <2>2. PICK x : x = [v EXCEPT !.r = r2]
    OBVIOUS
  <2>3. x = [n |-> [auth |-> v.n.auth, asked |-> v.n.asked, job |-> v.n.job, held |-> v.n.held],
             c |-> v.c, r |-> r2]
    BY <1>b, <2>2 DEF NodeShape
  <2> QED
    BY <1>4, <1>7, <2>0, <2>1, <2>2, <2>3, FailTicks
<1> QED
  BY <1>4, <1>9, <1>10, <1>11, TicksTwice

(* So a whole tick of the node leaves it sound, and edits the client.      *)
LEMMA TickEdits ==
  ASSUME NodeInv, CliTyped(cli), NodeTick
  PROVE  /\ NodeOK(gnode', cli', res', dev.fin) /\ Edited(cli, cli')
         /\ graph' = graph /\ up' = up /\ down' = down /\ br' = br /\ actor' = actor
         /\ stopper' = stopper /\ dev' = dev
<1>1. PICK w : w = World(gnode, cli, res)
  OBVIOUS
<1>2. w.n = gnode /\ w.c = cli /\ w.r = res /\ w = World(w.n, w.c, w.r)
  BY <1>1 DEF World
<1>3. WorldOK(w, dev.fin)
  BY <1>2 DEF WorldOK, NodeInv
<1>4. PICK s, a, b, d, e, f, g :
        /\ a = MoveUnauthorised(w) /\ b = GraspUnauthorised(a) /\ d = MoveDone(b)
        /\ e = MovePoll(d, s) /\ f = GraspFailures(e) /\ g = GraspPoll(f, s)
        /\ gnode' = g.n /\ cli' = g.c /\ res' = g.r
  BY <1>1 DEF NodeTick
<1>5. \A x, y : Ticks(x, y, dev.fin) => WorldOK(y, dev.fin)
  BY DEF Ticks
<1>6. Ticks(w, a, dev.fin)
  BY <1>3, <1>4, UnauthorisedTicks
<1>7. Ticks(a, b, dev.fin)
  BY <1>4, <1>5, <1>6, UnauthorisedTicks
<1>8. Ticks(b, d, dev.fin)
  BY <1>4, <1>5, <1>7, MoveDoneTicks
<1>9. Ticks(d, e, dev.fin)
  BY <1>4, <1>5, <1>8, MovePollTicks
<1>10. Ticks(e, f, dev.fin)
  BY <1>4, <1>5, <1>9, GraspFailuresTicks
<1>11. Ticks(f, g, dev.fin)
  BY <1>4, <1>5, <1>10, GraspPollTicks
<1>12. Ticks(w, g, dev.fin)
  <2>1. Ticks(w, d, dev.fin)
    BY <1>6, <1>7, <1>8, TicksTwice
  <2>2. Ticks(w, f, dev.fin)
    BY <1>9, <1>10, <2>1, TicksTwice
  <2> QED
    BY <1>11, <2>2, TicksTwice
<1>13. NodeOK(g.n, g.c, g.r, dev.fin) /\ Edited(cli, g.c)
  BY <1>2, <1>12 DEF Ticks, WorldOK
<1>14. /\ graph' = graph /\ up' = up /\ down' = down /\ br' = br /\ actor' = actor
       /\ stopper' = stopper /\ dev' = dev
  BY DEF NodeTick
<1> QED
  BY <1>4, <1>13, <1>14

(* What the client's own view of a Hand that is ready means.               *)
LEMMA SnapshotSays ==
  ASSUME NEW c
  PROVE  /\ Snapshot(c).meas => c.st.meas /\ ~c.waiting
         /\ ~Snapshot(c).busy => c.fly.id = 0 /\ ~c.waiting
         /\ Snapshot(c).held <=> c.st.held
  BY DEF Snapshot

(* A fresh action is taken by the client.                                  *)
LEMMA AdmittedFields ==
  ASSUME NEW c, CliTyped(c), NEW kind \in Kinds, NEW id \in Nat \ {0}, NEW d,
         c.st.meas /\ c.epoch # 0 /\ ~c.waiting /\ c.fly.id = 0,
         d = Admitted(c, id, kind), kind = "move" => ~c.st.held
  PROVE  /\ AdmitsTo(c, d) /\ d.fly = Act(id, kind, c.epoch) /\ d.gdone = "none"
         /\ d.moved = c.moved /\ d.fails = c.fails
<1>1. CliShape(c) /\ c.epoch \in Nat /\ c.stopEp \in Nat
  BY DEF CliTyped
<1>2. PICK f : f = Act(id, kind, c.epoch)
  OBVIOUS
<1>3. f \in Acts /\ f.id # 0 /\ f.ep = c.epoch /\ f.kind = kind
  BY <1>1, <1>2 DEF Act, Acts
<1> DEFINE si == c.since \ {"admit"}
           wa == c.want \ {"slide"}
<1>4. d = [c EXCEPT !.fly = f, !.cmd = TRUE, !.since = si, !.want = wa, !.gdone = "none"]
  BY <1>2 DEF Admitted
<1>9. wa \subseteq c.want
  OBVIOUS
<1> HIDE DEF si, wa
<1>5. /\ d.conn = c.conn /\ d.epoch = c.epoch /\ d.st = c.st /\ d.stopEp = c.stopEp /\ d.fly = f
      /\ d.gdone = "none" /\ d.moved = c.moved /\ d.fails = c.fails /\ d.want = wa
  BY <1>1, <1>4 DEF CliShape
<1>6. (d.cancel <=> c.cancel) /\ (d.waiting <=> c.waiting) /\ d.cmd
  BY <1>1, <1>4 DEF CliShape
<1>7. CliShape(d)
  BY <1>1, <1>4 DEF CliShape
<1> QED
  BY <1>1, <1>2, <1>3, <1>5, <1>6, <1>7, <1>9 DEF AdmitsTo, CliTyped, SameView, SameStop

(* A request for a move or a grasp.                                        *)
LEMMA AskKeeps ==
  ASSUME HandInv, NodeInv, AskMove \/ \E k \in GraspKinds : AskGrasp(k)
  PROVE  HandInv' /\ NodeInv' /\ cli'.want \subseteq cli.want
<1>0. /\ CliTyped(cli) /\ NodeShape(gnode) /\ ResOK(gnode.asked, res, dev.fin)
      /\ JobOK(gnode.asked, gnode.job, gnode.held, res, dev.fin)
      /\ VerdictOK(gnode.asked, gnode.job, cli, dev.fin)
  BY DEF HandInv, Typed, NodeInv, NodeOK
<1>1. PICK kind \in GraspKinds \cup {"move"} :
        \/ kind = "move" /\ AskMove
        \/ kind \in GraspKinds /\ AskGrasp(kind)
  OBVIOUS
<1>2. PICK id : id = gnode.asked + 1
  OBVIOUS
<1>3. /\ MayAsk(kind) /\ Asked(kind, id)
  BY <1>1, <1>2, Zenon DEF AskMove, AskGrasp
<1>4. /\ gnode.asked \in Nat /\ id \in Nat \ {0} /\ id \in 1..MaxAsks /\ id \in Ids /\ gnode.asked < id
      /\ gnode.job.id = 0 /\ gnode.held.id \in 0..gnode.asked
  <2>1. gnode.asked < MaxAsks /\ gnode.job.id = 0
    BY <1>3 DEF MayAsk, MoreAsks
  <2>2. gnode.asked \in 0..MaxAsks /\ gnode.held.id \in 0..gnode.asked
    BY <1>0 DEF JobOK
  <2> QED
    BY <1>2, <2>1, <2>2, HandAssumption DEF Ids
<1>5. /\ cli.st.meas /\ cli.epoch # 0 /\ ~cli.waiting /\ cli.fly.id = 0
      /\ (kind = "move" => ~cli.st.held) /\ kind \in Kinds
  BY <1>3, SnapshotSays DEF MayAsk, MoveAllowed, Kinds, Admits
<1>6. Above /\ up' = up /\ down' = down /\ cli' = Admitted(cli, id, kind) /\ dev' = dev
  BY <1>3 DEF Asked, Above
<1>7. /\ AdmitsTo(cli, cli') /\ cli'.fly = Act(id, kind, cli.epoch) /\ cli'.gdone = "none"
      /\ cli'.moved = cli.moved /\ cli'.fails = cli.fails
  BY <1>0, <1>4, <1>5, <1>6, AdmittedFields
<1>8. HandInv' /\ cli'.want \subseteq cli.want
  BY <1>6, <1>7, AdmitKeeps DEF AdmitsTo
<1>9. cli'.fly.id = id /\ cli'.fly.kind = kind
  BY <1>7 DEF Act
<1>10. \A i \in DOMAIN cli.fails : cli.fails[i] \in 0..gnode.asked
  BY <1>0 DEF VerdictOK, FailsOK, AboutGrasp
<1>11. /\ MovedOK(cli'.moved, dev.fin) /\ cli'.fails \in Seq(Nat)
       /\ \A i \in DOMAIN cli'.fails : cli'.fails[i] \in 0..id /\ cli'.fails[i] # id
  BY <1>0, <1>2, <1>4, <1>7, <1>10 DEF VerdictOK, FailsOK
<1>12. /\ res[id] = "none" /\ ResOK(id, res, dev.fin)
       /\ gnode.held = [id |-> gnode.held.id, seen |-> gnode.held.seen]
  BY <1>0, <1>2, <1>4 DEF ResOK, JobOK, Ids
<1>13. PICK j : j = [id |-> id, kind |-> kind, done |-> FALSE, late |-> FALSE]
  OBVIOUS
<1>14. j.id = id /\ j.kind = kind /\ ~j.done /\ j = [id |-> j.id, kind |-> j.kind, done |-> j.done, late |-> j.late]
  BY <1>13
<1>15. j = [NoJob EXCEPT !.id = id, !.kind = kind]
  <2>1. PICK t : t = FALSE
    OBVIOUS
  <2>2. PICK z : z = NoJob
    OBVIOUS
  <2>3. PICK o, q : z = [id |-> o, kind |-> q, done |-> t, late |-> t]
    BY <2>1, <2>2 DEF NoJob
  <2>4. j = [id |-> id, kind |-> kind, done |-> t, late |-> t]
    BY <1>13, <2>1
  <2>5. PICK y : y = [z EXCEPT !.id = id]
    OBVIOUS
  <2>6. y = [id |-> id, kind |-> q, done |-> t, late |-> t]
    BY <2>3, <2>5
  <2>7. j = [y EXCEPT !.kind = kind]
    BY <2>4, <2>6
  <2> QED
    BY <2>2, <2>5, <2>7
<1>16. NoHeld.id = 0 /\ NoHeld = [id |-> NoHeld.id, seen |-> NoHeld.seen]
  BY DEF NoHeld
<1>17. ASSUME NEW h \in {gnode.held, NoHeld} PROVE JobOK(id, j, h, res, dev.fin)
  <2>1. h.id \in 0..gnode.asked /\ h = [id |-> h.id, seen |-> h.seen]
    BY <1>4, <1>12, <1>16
  <2>2. h.id \in 0..id /\ h.id # id /\ id \in 0..id /\ id \in 0..MaxAsks
    BY <1>2, <1>4, <2>1, HandAssumption
  <2> QED
    BY <1>4, <1>12, <1>14, <2>1, <2>2 DEF JobOK
<1>18. VerdictOK(id, j, cli', dev.fin)
  <2>1. FailsOK(cli'.fails, id, j)
    BY <1>11, <1>14 DEF FailsOK, AboutGrasp
  <2>2. kind \in GraspKinds => AboutGrasp(id, id, j)
    BY <1>4, <1>14 DEF AboutGrasp
  <2> QED
    BY <1>7, <1>9, <1>11, <1>14, <2>1, <2>2 DEF VerdictOK
<1>19. ASSUME NEW h \in {gnode.held, NoHeld}, res' = res,
              gnode' = [auth |-> gnode.auth, asked |-> id, job |-> j, held |-> h]
       PROVE  NodeInv'
  <2>1. NodeShape(gnode') /\ gnode'.asked = id /\ gnode'.job = j /\ gnode'.held = h
    BY <1>19 DEF NodeShape
  <2> QED
    BY <1>6, <1>12, <1>17, <1>18, <1>19, <2>1 DEF NodeInv, NodeOK
<1>23. ASSUME AskGrasp(kind)
       PROVE  /\ ~(kind = "release" /\ ~graph.gated) =>
                   gnode' = [gnode EXCEPT !.asked = id, !.held = NoHeld, !.job = j] /\ res' = res
              /\ kind = "release" /\ ~graph.gated =>
                   /\ gnode' = [gnode EXCEPT !.asked = id, !.held = NoHeld, !.job = NoJob]
                   /\ res' = Told(res, id, "assumed")
  <2> DEFINE For == IF kind = "release" /\ ~graph.gated THEN NoJob ELSE [NoJob EXCEPT !.id = id, !.kind = kind]
             Tell == IF kind = "release" /\ ~graph.gated THEN Told(res, id, "assumed") ELSE res
  <2>0. /\ gnode' = [gnode EXCEPT !.asked = gnode.asked + 1, !.held = NoHeld, !.job =
                        IF kind = "release" /\ ~graph.gated THEN NoJob
                        ELSE [NoJob EXCEPT !.id = gnode.asked + 1, !.kind = kind]]
        /\ res' = IF kind = "release" /\ ~graph.gated THEN Told(res, gnode.asked + 1, "assumed") ELSE res
    BY <1>23, Zenon DEF AskGrasp
  <2>1. gnode' = [gnode EXCEPT !.asked = id, !.held = NoHeld, !.job = For] /\ res' = Tell
    BY <1>2, <2>0, Zenon
  <2>2. /\ ~(kind = "release" /\ ~graph.gated) => For = j /\ Tell = res
        /\ kind = "release" /\ ~graph.gated => For = NoJob /\ Tell = Told(res, id, "assumed")
    BY <1>15
  <2> HIDE DEF For, Tell
  <2> QED
    BY <2>1, <2>2
<1>20. CASE kind = "move" /\ AskMove
  <2>1. gnode' = [gnode EXCEPT !.asked = id, !.job = j] /\ res' = res
    BY <1>2, <1>15, <1>20 DEF AskMove
  <2>2. gnode' = [auth |-> gnode.auth, asked |-> id, job |-> j, held |-> gnode.held]
    BY <1>0, <2>1 DEF NodeShape
  <2> QED
    BY <1>8, <1>19, <2>1, <2>2
<1>21. CASE kind \in GraspKinds /\ AskGrasp(kind) /\ ~(kind = "release" /\ ~graph.gated)
  <2>1. gnode' = [gnode EXCEPT !.asked = id, !.held = NoHeld, !.job = j] /\ res' = res
    BY <1>21, <1>23
  <2>2. gnode' = [auth |-> gnode.auth, asked |-> id, job |-> j, held |-> NoHeld]
    BY <1>0, <2>1 DEF NodeShape
  <2> QED
    BY <1>8, <1>19, <2>1, <2>2
<1>22. CASE AskGrasp(kind) /\ kind = "release" /\ ~graph.gated
  <2>1. gnode' = [gnode EXCEPT !.asked = id, !.held = NoHeld, !.job = NoJob] /\ res' = Told(res, id, "assumed")
    BY <1>22, <1>23
  <2>2. gnode' = [auth |-> gnode.auth, asked |-> id, job |-> NoJob, held |-> NoHeld]
    BY <1>0, <2>1 DEF NodeShape
  <2>3. NodeShape(gnode') /\ gnode'.asked = id /\ gnode'.job = NoJob /\ gnode'.held = NoHeld
    BY <2>2 DEF NodeShape
  <2>4. \A r2 : JobOK(id, NoJob, NoHeld, r2, dev.fin)
    BY <1>17, <1>18, JobOver
  <2>5. VerdictOK(id, NoJob, cli', dev.fin)
    BY <1>17, <1>18, JobOver
  <2>6. ResOK(id, res', dev.fin)
    <3>1. id \in 0..MaxAsks /\ id \in 0..id
      BY <1>4, HandAssumption
    <3> QED
      BY <1>12, <2>1, <3>1, ToldOK
  <2> QED
    BY <1>6, <1>8, <2>3, <2>4, <2>5, <2>6 DEF NodeInv, NodeOK
<1> QED
  BY <1>1, <1>20, <1>21, <1>22

(* What matters to the node is left as it was.                             *)
LEMMA VerdictSame ==
  ASSUME NEW asked, NEW j, NEW c, NEW d, NEW fin, VerdictOK(asked, j, c, fin),
         d.fly = c.fly, d.gdone = c.gdone, d.moved = c.moved, d.fails = c.fails
  PROVE  VerdictOK(asked, j, d, fin)
  BY DEF VerdictOK

(* What was finished well stays so.                                        *)
LEMMA MoreFinished ==
  ASSUME NEW n, NEW c, NEW r, NEW fin, NEW fin2, NodeOK(n, c, r, fin), fin \subseteq fin2
  PROVE  NodeOK(n, c, r, fin2)
<1>1. ResOK(n.asked, r, fin2)
  BY DEF NodeOK, ResOK
<1>2. JobOK(n.asked, n.job, n.held, r, fin2)
  BY DEF NodeOK, JobOK
<1>3. VerdictOK(n.asked, n.job, c, fin2)
  BY DEF NodeOK, VerdictOK, MovedOK
<1> QED
  BY <1>1, <1>2, <1>3 DEF NodeOK

(* Only the slider and homing wait as wishes.                              *)
Wishes == {"slide", "home"}
WantInv == cli.want \subseteq Wishes

(* A wish added or dropped, and a sample gone stale, change nothing else.  *)
LEMMA WishFields ==
  ASSUME NEW c, CliTyped(c), NEW d, NEW wa, NEW fr,
         d = [c EXCEPT !.want = wa] \/ (d = [c EXCEPT !.fresh = fr] /\ wa = c.want)
  PROVE  /\ CliTyped(d) /\ SameView(c, d) /\ SameFly(c, d) /\ SameStop(c, d) /\ d.fly = c.fly
         /\ d.gdone = c.gdone /\ d.moved = c.moved /\ d.fails = c.fails /\ d.want = wa
<1>1. CliShape(c) /\ c.epoch \in Nat /\ c.stopEp \in Nat /\ c.fly \in Acts
  BY DEF CliTyped
<1>2. CASE d = [c EXCEPT !.want = wa]
  <2>2. /\ d.conn = c.conn /\ d.epoch = c.epoch /\ d.st = c.st /\ d.stopEp = c.stopEp /\ d.fly = c.fly
        /\ d.gdone = c.gdone /\ d.moved = c.moved /\ d.fails = c.fails /\ d.want = wa
    BY <1>1, <1>2 DEF CliShape
  <2>3. (d.cancel <=> c.cancel) /\ (d.waiting <=> c.waiting) /\ (d.cmd <=> c.cmd)
    BY <1>1, <1>2 DEF CliShape
  <2>4. CliShape(d)
    BY <1>1, <1>2 DEF CliShape
  <2> QED
    BY <1>1, <2>2, <2>3, <2>4 DEF CliTyped, SameView, SameStop, SameFly
<1>3. CASE d = [c EXCEPT !.fresh = fr] /\ wa = c.want
  <2>2. /\ d.conn = c.conn /\ d.epoch = c.epoch /\ d.st = c.st /\ d.stopEp = c.stopEp /\ d.fly = c.fly
        /\ d.gdone = c.gdone /\ d.moved = c.moved /\ d.fails = c.fails /\ d.want = wa
    BY <1>1, <1>3 DEF CliShape
  <2>3. (d.cancel <=> c.cancel) /\ (d.waiting <=> c.waiting) /\ (d.cmd <=> c.cmd)
    BY <1>1, <1>3 DEF CliShape
  <2>4. CliShape(d)
    BY <1>1, <1>3 DEF CliShape
  <2> QED
    BY <1>1, <2>2, <2>3, <2>4 DEF CliTyped, SameView, SameStop, SameFly
<1> QED
  BY <1>2, <1>3

(* The whole invariant of the Hand.                                        *)
AllInv == HandInv /\ NodeInv /\ WantInv

(* The node's own steps.                                                   *)
LEMMA NodeKeeps ==
  ASSUME AllInv,
         \/ NodeTick \/ DeadlinePasses \/ Requests \/ AuthorityLost \/ AuthorityBack
         \/ UNCHANGED handVars
  PROVE  AllInv'
<1>0. /\ HandInv /\ NodeInv /\ WantInv
      /\ CliTyped(cli) /\ NodeShape(gnode) /\ ResOK(gnode.asked, res, dev.fin)
      /\ JobOK(gnode.asked, gnode.job, gnode.held, res, dev.fin)
      /\ VerdictOK(gnode.asked, gnode.job, cli, dev.fin)
  BY DEF AllInv, HandInv, Typed, NodeInv, NodeOK
<1>a. /\ gnode.asked \in Nat /\ gnode.asked \in 0..MaxAsks
      /\ gnode.job.id \in 0..gnode.asked /\ gnode.held.id \in 0..gnode.asked
  <2>1. gnode.asked \in 0..MaxAsks /\ gnode.job.id \in 0..gnode.asked /\ gnode.held.id \in 0..gnode.asked
    BY <1>0 DEF JobOK
  <2> QED
    BY <2>1, HandAssumption
<1>1. CASE NodeTick
  <2>1. /\ NodeOK(gnode', cli', res', dev.fin) /\ Edited(cli, cli') /\ dev' = dev
        /\ Above /\ up' = up /\ down' = down
    BY <1>0, <1>1, TickEdits DEF Above
  <2>2. Touched(cli, cli') /\ cli'.want \subseteq cli.want
    BY <2>1 DEF Edited
  <2>3. HandInv'
    BY <1>0, <2>1, <2>2, EditKeeps
  <2> QED
    BY <1>0, <2>1, <2>2, <2>3 DEF AllInv, NodeInv, WantInv
<1>2. CASE DeadlinePasses
  <2>1. /\ gnode.job.id # 0 /\ gnode' = [gnode EXCEPT !.job.late = TRUE]
        /\ cli' = [cli EXCEPT !.fresh = FALSE]
        /\ Above /\ up' = up /\ down' = down /\ res' = res /\ dev' = dev
    BY <1>2 DEF DeadlinePasses, Above
  <2>2. /\ CliTyped(cli') /\ SameView(cli, cli') /\ SameFly(cli, cli') /\ SameStop(cli, cli')
        /\ cli'.fly = cli.fly /\ cli'.gdone = cli.gdone /\ cli'.moved = cli.moved
        /\ cli'.fails = cli.fails /\ cli'.want = cli.want
    BY <1>0, <2>1, WishFields
  <2>3. HandInv'
    BY <1>0, <2>1, <2>2, EditKeeps DEF Touched
  <2>4. PICK j : j = [id |-> gnode.job.id, kind |-> gnode.job.kind, done |-> gnode.job.done, late |-> TRUE]
    OBVIOUS
  <2>5. gnode' = [auth |-> gnode.auth, asked |-> gnode.asked, job |-> j, held |-> gnode.held]
    <3>1. PICK k : k = gnode.job
      OBVIOUS
    <3>2. PICK t : t = TRUE
      OBVIOUS
    <3>3. k = [id |-> k.id, kind |-> k.kind, done |-> k.done, late |-> k.late]
      BY <1>0, <3>1 DEF JobOK
    <3>4. j = [id |-> k.id, kind |-> k.kind, done |-> k.done, late |-> t]
      BY <2>4, <3>1, <3>2
    <3>5. [k EXCEPT !.late = t] = j
      BY <3>3, <3>4
    <3>6. gnode' = [gnode EXCEPT !.job = [k EXCEPT !.late = t]]
      BY <2>1, <3>1, <3>2
    <3>7. gnode' = [gnode EXCEPT !.job = j]
      BY <3>5, <3>6
    <3> QED
      BY <1>0, <3>7 DEF NodeShape
  <2>6. NodeShape(gnode') /\ gnode'.asked = gnode.asked /\ gnode'.job = j /\ gnode'.held = gnode.held
    BY <2>5 DEF NodeShape
  <2>7. /\ j.id = gnode.job.id /\ j.kind = gnode.job.kind /\ (j.done <=> gnode.job.done)
        /\ j = [id |-> j.id, kind |-> j.kind, done |-> j.done, late |-> j.late]
    BY <2>4
  <2>8. JobOK(gnode.asked, j, gnode.held, res, dev.fin)
    BY <1>0, <2>1, <2>7 DEF JobOK
  <2>9. VerdictOK(gnode.asked, gnode.job, cli', dev.fin)
    BY <1>0, <2>2, VerdictSame
  <2>10. VerdictOK(gnode.asked, j, cli', dev.fin)
    BY <2>7, <2>9 DEF VerdictOK, FailsOK, AboutGrasp
  <2>11. NodeInv'
    BY <1>0, <2>1, <2>6, <2>8, <2>10 DEF NodeInv, NodeOK
  <2> QED
    BY <1>0, <2>2, <2>3, <2>11 DEF AllInv, WantInv
<1>3. CASE AskMove \/ \E k \in GraspKinds : AskGrasp(k)
  BY <1>0, <1>3, AskKeeps DEF AllInv, WantInv
<1>4. CASE \E k \in {"slide", "home"} : AskPlain(k)
  <2>0. PICK k \in Wishes : AskPlain(k)
    BY <1>4 DEF Wishes
  <2> DEFINE wa == cli.want \cup {k}
  <2>1. /\ gnode.asked < MaxAsks /\ gnode' = [gnode EXCEPT !.asked = gnode.asked + 1]
        /\ cli' = [cli EXCEPT !.want = wa]
        /\ Above /\ up' = up /\ down' = down /\ res' = res /\ dev' = dev
    BY <2>0 DEF AskPlain, MoreAsks, Above
  <2>w. wa \subseteq Wishes
    BY <1>0 DEF WantInv
  <2> HIDE DEF wa
  <2>2. /\ CliTyped(cli') /\ SameView(cli, cli') /\ SameFly(cli, cli') /\ SameStop(cli, cli')
        /\ cli'.fly = cli.fly /\ cli'.gdone = cli.gdone /\ cli'.moved = cli.moved
        /\ cli'.fails = cli.fails /\ cli'.want = wa
    BY <1>0, <2>1, WishFields
  <2>3. HandInv'
    BY <1>0, <2>1, <2>2, EditKeeps DEF Touched
  <2>4. PICK id : id = gnode.asked + 1
    OBVIOUS
  <2>5. gnode' = [auth |-> gnode.auth, asked |-> id, job |-> gnode.job, held |-> gnode.held]
    BY <1>0, <2>1, <2>4 DEF NodeShape
  <2>6. NodeShape(gnode') /\ gnode'.asked = id /\ gnode'.job = gnode.job /\ gnode'.held = gnode.held
    BY <2>5 DEF NodeShape
  <2>7. id \in 0..MaxAsks /\ id \in Nat /\ \A i \in 0..gnode.asked : i \in 0..id
    BY <1>a, <2>1, <2>4, HandAssumption
  <2>8. JobOK(id, gnode.job, gnode.held, res, dev.fin)
    BY <1>0, <2>7 DEF JobOK
  <2>9. VerdictOK(gnode.asked, gnode.job, cli', dev.fin)
    BY <1>0, <2>2, VerdictSame
  <2>10. VerdictOK(id, gnode.job, cli', dev.fin)
    <3>1. \A i : AboutGrasp(i, gnode.asked, gnode.job) => AboutGrasp(i, id, gnode.job)
      BY <2>7 DEF AboutGrasp
    <3>2. FailsOK(cli'.fails, id, gnode.job)
      BY <2>9, <3>1 DEF VerdictOK, FailsOK
    <3> QED
      BY <2>9, <3>1, <3>2 DEF VerdictOK
  <2>11. ResOK(id, res, dev.fin)
    BY <1>0, <1>a, <2>4, HandAssumption DEF ResOK, Ids
  <2>12. NodeInv'
    BY <2>1, <2>6, <2>8, <2>10, <2>11 DEF NodeInv, NodeOK
  <2> QED
    BY <2>2, <2>3, <2>12, <2>w DEF AllInv, WantInv
<1>5. CASE AuthorityLost \/ AuthorityBack \/ UNCHANGED handVars
  <2>1. /\ cli' = cli /\ res' = res /\ dev' = dev /\ up' = up /\ down' = down /\ Above
        /\ gnode' = gnode \/ \E a : gnode' = [gnode EXCEPT !.auth = a]
    BY <1>5 DEF AuthorityLost, AuthorityBack, handVars, Above
  <2>2. NodeShape(gnode') /\ gnode'.asked = gnode.asked /\ gnode'.job = gnode.job /\ gnode'.held = gnode.held
    BY <1>0, <2>1 DEF NodeShape
  <2>3. NodeInv'
    BY <1>0, <2>1, <2>2 DEF NodeInv, NodeOK
  <2>4. HandInv'
    BY <1>0, <2>1, EditKeeps, EditedTwice DEF Edited
  <2> QED
    BY <1>0, <2>1, <2>3, <2>4 DEF AllInv, WantInv
<1> QED
  BY <1>1, <1>2, <1>3, <1>4, <1>5 DEF Requests

(* A success the client reads is one of its own action.                    *)
LEMMA DoneIsTrue ==
  ASSUME HandInv, down # <<>>, down[1].op = "DONE", down[1].ok, cli.fly.id # 0, down[1].ep = cli.fly.ep
  PROVE  cli.fly.id \in dev.fin
<1>0. Typed /\ TokenInv
  BY DEF HandInv
<1>1. down \in Seq(Lines) /\ cli.fly.ep \in Nat /\ 1 \in DOMAIN down
  BY <1>0, Removed DEF Typed, CliTyped, Acts
<1>2. ~(down[1].ep < cli.fly.ep)
  BY <1>1
<1>3. ~cli.cmd
  BY <1>0, <1>1, <1>2 DEF TokenInv, Below
<1>4. PICK w : \E k \in Nat \ {0} : AllBut(up, down, br, actor.act, dev.fin, cli.fly, cli.fly.ep, w, k)
  BY <1>0, <1>3 DEF TokenInv
<1>5. PICK k \in Nat \ {0} : AllBut(up, down, br, actor.act, dev.fin, cli.fly, cli.fly.ep, w, k)
  BY <1>4
<1>6. DownBut(down, dev.fin, cli.fly, cli.fly.ep, w, k)
  BY <1>5 DEF AllBut
<1> QED
  BY <1>1, <1>2, <1>6 DEF DownBut

(* What the client makes of a verdict is true.                             *)
LEMMA DoneVerdict ==
  ASSUME NEW asked, asked \in Nat, NEW j, NEW c, CliTyped(c), NEW fin, VerdictOK(asked, j, c, fin), NEW m,
         c.fly.id # 0 /\ m.ep = c.fly.ep /\ m.ok => c.fly.id \in fin
  PROVE  VerdictOK(asked, j, OnDone(c, m), fin)
<1>0. CliShape(c) /\ c.fly \in Acts /\ NoAct.kind = "none" /\ c.fly.id \in Nat
  BY DEF CliTyped, NoAct, Acts
<1>1. CASE c.fly.id = 0 \/ m.ep # c.fly.ep
  <2>1. OnDone(c, m) = c
    BY <1>1 DEF OnDone
  <2> QED
    BY <2>1
<1>2. CASE c.fly.id # 0 /\ m.ep = c.fly.ep
  <2>1. PICK d : d = OnDone(c, m)
    OBVIOUS
  <2> DEFINE gd == IF m.ok THEN "ok" ELSE "failed"
             si == c.since \ {"done"}
             wa == c.want \ {"slide"}
             mo == IF c.fly.kind = "move" THEN Append(c.moved, [id |-> c.fly.id, ok |-> TRUE]) ELSE c.moved
  <2>2. \/ c.fly.kind \in GraspKinds /\ d = [c EXCEPT !.gdone = gd, !.since = si, !.fly = NoAct, !.want = wa]
        \/ d = FlyFailed(c)
        \/ m.ok /\ d = [c EXCEPT !.moved = mo, !.fly = NoAct, !.want = wa]
    BY <1>2, <2>1 DEF OnDone, GraspKinds
  <2>3. gd = "ok" => m.ok
    OBVIOUS
  <2>4. m.ok => MovedOK(mo, fin)
    <3>1. CASE m.ok /\ c.fly.kind = "move"
      <4>1. PICK v \in Moves : v = [id |-> c.fly.id, ok |-> TRUE]
        BY <1>0 DEF Moves
      <4>2. v.id \in fin
        BY <1>2, <3>1, <4>1
      <4>3. MovedOK(c.moved, fin) /\ mo = Append(c.moved, v)
        BY <3>1, <4>1 DEF VerdictOK
      <4> HIDE DEF mo
      <4> QED
        BY <4>2, <4>3, MovedMore
    <3>2. CASE c.fly.kind # "move"
      BY <3>2 DEF VerdictOK
    <3> QED
      BY <3>1, <3>2
  <2> HIDE DEF gd, si, wa, mo
  <2>5. CASE c.fly.kind \in GraspKinds /\ d = [c EXCEPT !.gdone = gd, !.since = si, !.fly = NoAct, !.want = wa]
    <3>1. d.gdone = gd /\ d.fly = NoAct /\ d.moved = c.moved /\ d.fails = c.fails
      BY <1>0, <2>5 DEF CliShape
    <3>2. d.gdone = "ok" /\ j.kind \in GraspKinds => j.id \in fin
      BY <1>2, <2>3, <2>5, <3>1 DEF VerdictOK
    <3> QED
      BY <1>0, <2>1, <3>1, <3>2 DEF VerdictOK, GraspKinds
  <2>6. CASE d = FlyFailed(c)
    <3>1. /\ d.fly = NoAct /\ d.gdone = c.gdone
          /\ d.moved = (IF c.fly.kind = "move" THEN Append(c.moved, [id |-> c.fly.id, ok |-> FALSE]) ELSE c.moved)
          /\ d.fails = (IF c.fly.kind \in GraspKinds THEN Append(c.fails, c.fly.id) ELSE c.fails)
      BY <2>6, FailedFields DEF NoFly
    <3> QED
      BY <1>0, <2>1, <3>1, FailureKept
  <2>7. CASE m.ok /\ d = [c EXCEPT !.moved = mo, !.fly = NoAct, !.want = wa]
    <3>1. d.gdone = c.gdone /\ d.fly = NoAct /\ d.moved = mo /\ d.fails = c.fails
      BY <1>0, <2>7 DEF CliShape
    <3> QED
      BY <1>0, <2>1, <2>4, <2>7, <3>1 DEF VerdictOK, GraspKinds
  <2> QED
    BY <2>2, <2>5, <2>6, <2>7
<1> QED
  BY <1>1, <1>2

(* The action in flight fails.                                             *)
LEMMA FailedVerdict ==
  ASSUME NEW asked, asked \in Nat, NEW j, NEW c, CliTyped(c), NEW fin, VerdictOK(asked, j, c, fin)
  PROVE  VerdictOK(asked, j, FlyFailed(c), fin)
<1>1. PICK d : d = FlyFailed(c)
  OBVIOUS
<1>2. /\ d.fly = NoAct /\ d.gdone = c.gdone /\ c.fly \in Acts
      /\ d.moved = (IF c.fly.kind = "move" THEN Append(c.moved, [id |-> c.fly.id, ok |-> FALSE]) ELSE c.moved)
      /\ d.fails = (IF c.fly.kind \in GraspKinds THEN Append(c.fails, c.fly.id) ELSE c.fails)
  BY <1>1, FailedFields DEF NoFly, CliTyped
<1> QED
  BY <1>1, <1>2, FailureKept

(* And so for every line it reads.                                         *)
LEMMA LineVerdict ==
  ASSUME HandInv, NodeInv, ClientReceives
  PROVE  VerdictOK(gnode.asked, gnode.job, cli', dev.fin) /\ cli'.want \subseteq cli.want
<1>0. /\ Typed /\ LinkInv /\ StopLines /\ VerdictOK(gnode.asked, gnode.job, cli, dev.fin)
      /\ gnode.asked \in 0..MaxAsks
  BY DEF HandInv, NodeInv, NodeOK, JobOK
<1>b. down \in Seq(Lines) /\ CliTyped(cli) /\ gnode.asked \in Nat
  BY <1>0, HandAssumption DEF Typed
<1>1. down # <<>> /\ cli' = OnLine(cli, Head(down))
  BY DEF ClientReceives
<1>2. PICK m \in Lines : m = down[1] /\ m = Head(down) /\ m.op \in Replies /\ 1 \in DOMAIN down
  BY <1>0, <1>b, <1>1, Removed DEF LinkInv
<1>f. VerdictOK(gnode.asked, gnode.job, FlyFailed(cli), dev.fin)
  BY <1>0, <1>b, FailedVerdict
<1>3. CASE m.op = "META"
  <2>1. PICK d : d = OnMeta(cli, m)
    OBVIOUS
  <2>2. cli' = d
    BY <1>1, <1>2, <1>3, <2>1 DEF OnLine
  <2>3. /\ d.want \subseteq cli.want
        /\ Lost(cli, m) => NoFly(d) /\ Verdicts(FlyFailed(cli), d)
        /\ ~Lost(cli, m) => SameFly(cli, d) /\ Verdicts(cli, d)
    BY <1>b, <2>1, MetaFields
  <2>4. FlyFailed(cli).fly = NoAct
    BY <1>b, FailedFields DEF NoFly
  <2>5. CASE Lost(cli, m)
    BY <1>f, <2>2, <2>3, <2>4, <2>5, VerdictSame DEF Verdicts, NoFly
  <2>6. CASE ~Lost(cli, m)
    BY <1>0, <2>2, <2>3, <2>6, VerdictSame DEF Verdicts, SameFly
  <2> QED
    BY <2>5, <2>6
<1>4. CASE m.op = "DONE"
  <2>1. cli' = OnDone(cli, m)
    BY <1>1, <1>2, <1>4 DEF OnLine
  <2>2. cli.fly.id # 0 /\ m.ep = cli.fly.ep /\ m.ok => cli.fly.id \in dev.fin
    BY <1>1, <1>2, <1>4, DoneIsTrue
  <2>3. VerdictOK(gnode.asked, gnode.job, cli', dev.fin)
    BY <1>0, <1>b, <2>1, <2>2, DoneVerdict
  <2>4. cli'.want \subseteq cli.want
    BY <1>b, <2>1, DoneFields DEF Finished
  <2> QED
    BY <2>3, <2>4
<1>5. CASE m.op = "REJECT"
  <2>1. cli' = IF cli.fly.id # 0 /\ m.ep = cli.fly.ep THEN FlyFailed(cli) ELSE cli
    BY <1>1, <1>2, <1>5 DEF OnLine
  <2>2. FlyFailed(cli).want \subseteq cli.want
    BY <1>b, FailedFields
  <2> QED
    BY <1>0, <1>f, <2>1, <2>2
<1>6. CASE m.op = "STOPPING"
  <2>1. cli.waiting
    BY <1>0, <1>2, <1>6 DEF StopLines
  <2> DEFINE si == cli.since \ {"stop"}
  <2>2. cli' = [cli EXCEPT !.stopEp = m.ep, !.since = si]
    BY <1>1, <1>2, <1>6, <2>1 DEF OnLine
  <2> HIDE DEF si
  <2>3. CliShape(cli)
    BY <1>b DEF CliTyped
  <2>4. /\ cli'.fly = cli.fly /\ cli'.gdone = cli.gdone /\ cli'.moved = cli.moved
        /\ cli'.fails = cli.fails /\ cli'.want = cli.want
    BY <2>2, <2>3 DEF CliShape
  <2> QED
    BY <1>0, <2>4, VerdictSame
<1> QED
  BY <1>2, <1>3, <1>4, <1>5, <1>6 DEF Replies

(* A wish becomes an action of its own, or is dropped.                     *)
LEMMA WishKeeps ==
  ASSUME AllInv, ClientWants
  PROVE  AllInv'
<1>0. /\ HandInv /\ NodeInv /\ WantInv /\ CliTyped(cli) /\ NodeShape(gnode)
      /\ ResOK(gnode.asked, res, dev.fin) /\ JobOK(gnode.asked, gnode.job, gnode.held, res, dev.fin)
      /\ VerdictOK(gnode.asked, gnode.job, cli, dev.fin)
  BY DEF AllInv, HandInv, Typed, NodeInv, NodeOK
<1>1. PICK k \in cli.want :
        cli' = IF Admits(cli, k) THEN Admitted([cli EXCEPT !.want = @ \ {k}], Plain, k)
               ELSE [cli EXCEPT !.want = @ \ {k}]
  BY DEF ClientWants
<1>2. Above /\ up' = up /\ down' = down /\ gnode' = gnode /\ res' = res /\ dev' = dev
  BY DEF ClientWants, Above
<1>3. k \in Wishes /\ k \in Kinds /\ k # "move" /\ k \notin GraspKinds
  BY <1>0, <1>1 DEF WantInv, Wishes, Kinds, GraspKinds
<1>4. PICK wa : wa = cli.want \ {k}
  OBVIOUS
<1>5. PICK e : e = [cli EXCEPT !.want = wa]
  OBVIOUS
<1>6. cli' = IF Admits(cli, k) THEN Admitted(e, Plain, k) ELSE e
  BY <1>1, <1>4, <1>5
<1>7. /\ CliTyped(e) /\ SameView(cli, e) /\ SameFly(cli, e) /\ SameStop(cli, e) /\ e.fly = cli.fly
      /\ e.gdone = cli.gdone /\ e.moved = cli.moved /\ e.fails = cli.fails /\ e.want = wa
      /\ wa \subseteq cli.want
  BY <1>0, <1>4, <1>5, WishFields
<1>8. CASE ~Admits(cli, k)
  <2>1. cli' = e
    BY <1>6, <1>8
  <2>2. HandInv'
    BY <1>0, <1>2, <1>7, <2>1, EditKeeps DEF Touched
  <2>3. VerdictOK(gnode.asked, gnode.job, cli', dev.fin)
    BY <1>0, <1>7, <2>1, VerdictSame
  <2> QED
    BY <1>0, <1>2, <1>7, <2>1, <2>2, <2>3 DEF AllInv, NodeInv, NodeOK, WantInv
<1>9. CASE Admits(cli, k)
  <2>1. PICK d : d = Admitted(e, Plain, k)
    OBVIOUS
  <2>2. cli' = d /\ Plain \in Nat \ {0}
    BY <1>6, <1>9, <2>1, HandAssumption DEF Plain
  <2>3. cli.st.meas /\ cli.epoch # 0 /\ ~cli.waiting /\ cli.fly.id = 0
    BY <1>9, SnapshotSays DEF Admits
  <2>4. e.st.meas /\ e.epoch # 0 /\ ~e.waiting /\ e.fly.id = 0
    BY <1>7, <2>3 DEF SameView, SameStop
  <2>5. /\ AdmitsTo(e, d) /\ d.fly = Act(Plain, k, e.epoch) /\ d.gdone = "none"
        /\ d.moved = e.moved /\ d.fails = e.fails
    BY <1>3, <1>7, <2>1, <2>2, <2>4, AdmittedFields
  <2>6. AdmitsTo(cli, d)
    BY <1>7, <2>3, <2>5 DEF AdmitsTo, SameView, SameStop
  <2>7. HandInv'
    BY <1>0, <1>2, <2>2, <2>6, AdmitKeeps
  <2>8. d.fly.kind = k
    BY <2>5 DEF Act
  <2>9. VerdictOK(gnode.asked, gnode.job, d, dev.fin)
    BY <1>0, <1>3, <1>7, <2>5, <2>8 DEF VerdictOK
  <2>10. d.want \subseteq cli.want
    BY <2>6 DEF AdmitsTo
  <2> QED
    BY <1>0, <1>2, <2>2, <2>7, <2>9, <2>10 DEF AllInv, NodeInv, NodeOK, WantInv
<1> QED
  BY <1>8, <1>9

(* The client's other steps.                                               *)
LEMMA ClientKeeps ==
  ASSUME AllInv, Client \/ LinkLost
  PROVE  AllInv'
<1>0. /\ HandInv /\ NodeInv /\ WantInv /\ CliTyped(cli) /\ CliShape(cli) /\ NodeShape(gnode)
      /\ ResOK(gnode.asked, res, dev.fin) /\ JobOK(gnode.asked, gnode.job, gnode.held, res, dev.fin)
      /\ VerdictOK(gnode.asked, gnode.job, cli, dev.fin) /\ gnode.asked \in 0..MaxAsks
  BY DEF AllInv, HandInv, Typed, CliTyped, NodeInv, NodeOK, JobOK
<1>1. ASSUME HandInv', VerdictOK(gnode.asked, gnode.job, cli', dev.fin), cli'.want \subseteq cli.want,
             gnode' = gnode /\ res' = res /\ dev' = dev
      PROVE  AllInv'
  BY <1>0, <1>1 DEF AllInv, NodeInv, NodeOK, WantInv
<1>2. CASE ClientReceives
  <2>1. gnode' = gnode /\ res' = res /\ dev' = dev
    BY <1>2 DEF ClientReceives
  <2> QED
    BY <1>0, <1>1, <1>2, <2>1, ReceiveKeeps, LineVerdict
<1>3. CASE ClientConnects
  <2>1. gnode' = gnode /\ res' = res /\ dev' = dev
    BY <1>3 DEF ClientConnects
  <2> DEFINE wa == cli.want \ {"slide"}
  <2>2. cli' = [cli EXCEPT !.conn = TRUE, !.epoch = 0, !.caps = FALSE, !.cancel = FALSE,
                           !.waiting = FALSE, !.stopEp = 0, !.st = NoState, !.want = wa]
    BY <1>3 DEF ClientConnects
  <2>3. wa \subseteq cli.want
    OBVIOUS
  <2> HIDE DEF wa
  <2>4. /\ cli'.fly = cli.fly /\ cli'.gdone = cli.gdone /\ cli'.moved = cli.moved
        /\ cli'.fails = cli.fails /\ cli'.want = wa
    BY <1>0, <2>2 DEF CliShape
  <2> QED
    BY <1>0, <1>1, <1>3, <2>1, <2>3, <2>4, ConnectKeeps, VerdictSame
<1>4. CASE ClientSends
  <2>1. gnode' = gnode /\ res' = res /\ dev' = dev /\ cli' = [cli EXCEPT !.cancel = FALSE, !.cmd = FALSE]
    BY <1>4 DEF ClientSends
  <2>2. /\ cli'.fly = cli.fly /\ cli'.gdone = cli.gdone /\ cli'.moved = cli.moved
        /\ cli'.fails = cli.fails /\ cli'.want = cli.want
    BY <1>0, <2>1 DEF CliShape
  <2> QED
    BY <1>0, <1>1, <1>4, <2>1, <2>2, SendKeeps, VerdictSame
<1>5. CASE LinkLost
  <2>1. PICK f : f = FlyFailed(cli)
    OBVIOUS
  <2>2. /\ gnode' = gnode /\ res' = res /\ dev' = dev
        /\ cli' = [f EXCEPT !.conn = FALSE, !.epoch = 0, !.caps = FALSE, !.st = NoState]
    BY <1>5, <2>1 DEF LinkLost
  <2>3. CliShape(f) /\ f.want \subseteq cli.want
    BY <1>0, <2>1, FailedFields DEF CliTyped
  <2>4. /\ cli'.fly = f.fly /\ cli'.gdone = f.gdone /\ cli'.moved = f.moved
        /\ cli'.fails = f.fails /\ cli'.want = f.want
    BY <2>2, <2>3 DEF CliShape
  <2>5. gnode.asked \in Nat
    BY <1>0, HandAssumption
  <2>6. VerdictOK(gnode.asked, gnode.job, f, dev.fin)
    BY <1>0, <2>1, <2>5, FailedVerdict
  <2> QED
    BY <1>0, <1>1, <1>5, <2>2, <2>3, <2>4, <2>6, LostKeeps, VerdictSame
<1>6. CASE ClientWants
  BY <1>6, WishKeeps
<1> QED
  BY <1>2, <1>3, <1>4, <1>5, <1>6 DEF Client

(* The bridge's steps: the client and the node are as they were, and what  *)
(* the device has finished well stays so.                                  *)
LEMMA BridgeKeeps ==
  ASSUME AllInv,
         \/ Server \/ PushesMeta \/ Actor \/ SessionOpens \/ ActionEnds \/ Stopper \/ SimStops
         \/ SimSamples \/ SessionLostActing \/ SessionLostReading \/ ObjectDrops
  PROVE  AllInv'
<1>0. HandInv /\ NodeInv /\ WantInv
  BY DEF AllInv
<1>1. ASSUME HandInv', cli' = cli, gnode' = gnode, res' = res, dev.fin \subseteq dev'.fin
      PROVE  AllInv'
  <2>1. NodeOK(gnode, cli, res, dev'.fin)
    BY <1>0, <1>1, MoreFinished DEF NodeInv
  <2> QED
    BY <1>0, <1>1, <2>1 DEF AllInv, NodeInv, WantInv
<1>2. CASE Server
  <2>1. HandInv'
    BY <1>0, <1>2, CommandKeeps, StopKeeps, DisconnectKeeps, DoneKeeps DEF Server
  <2>2. cli' = cli /\ gnode' = gnode /\ res' = res /\ dev' = dev
    BY <1>2, Zenon DEF Server, ServesCommand, ServesStop, Disconnect, Accepts, PushesDone
  <2> QED
    BY <1>1, <2>1, <2>2
<1>3. CASE PushesMeta
  <2>1. cli' = cli /\ gnode' = gnode /\ res' = res /\ dev' = dev
    BY <1>3, Zenon DEF PushesMeta
  <2> QED
    BY <1>0, <1>1, <1>3, <2>1, MetaKeeps
<1>4. CASE \/ Actor \/ SessionOpens \/ ActionEnds \/ Stopper \/ SimStops \/ SimSamples
           \/ SessionLostActing \/ SessionLostReading \/ ObjectDrops
  <2>1. HandInv'
    BY <1>0, <1>4, ThreadsKeep
  <2>2. Within
    BY <1>0, <1>4, SessionWithin, WatchWithin, CallWithin, ActorWithin, SimWithin DEF Actor, Stopper
  <2>3. cli' = cli /\ dev.fin \subseteq dev'.fin
    BY <2>2 DEF Within, HandsOn
  <2>4. gnode' = gnode /\ res' = res
    <3>1. CASE Actor
      BY <3>1, Zenon DEF Actor, Takes, Begins, Enters, Returns, Reads
    <3>2. CASE Stopper
      BY <3>2, Zenon DEF Stopper, StopBegins, StopCalls, StopFinishes
    <3>3. CASE SessionOpens \/ ActionEnds \/ SessionLostActing \/ SessionLostReading \/ ObjectDrops
      BY <3>3, Zenon DEF SessionOpens, ActionEnds, SessionLostActing, SessionLostReading, ObjectDrops
    <3>4. CASE SimStops \/ SimSamples
      BY <3>4, Zenon DEF SimStops, SimSamples
    <3> QED
      BY <1>4, <3>1, <3>2, <3>3, <3>4
  <2> QED
    BY <1>1, <2>1, <2>3, <2>4
<1> QED
  BY <1>2, <1>3, <1>4

(* The invariant holds when nothing has been asked or said yet.            *)
LEMMA AllStarts ==
  ASSUME HandInit
  PROVE  AllInv
<1>1. StopInv
  BY StopStarts
<1>2. /\ up = <<>> /\ down = <<>> /\ res = [i \in Ids |-> "none"]
      /\ dev = [act |-> NoAct, held |-> FALSE, there |-> 0, fin |-> {}]
      /\ stopper = [at |-> "idle", was |-> FALSE, same |-> FALSE, ok |-> FALSE]
      /\ gnode = [auth |-> TRUE, asked |-> 0, job |-> NoJob, held |-> NoHeld]
  BY DEF HandInit
<1>3. /\ cli.epoch = 0 /\ cli.fly = NoAct /\ cli.stopEp = 0 /\ cli.since = Marks /\ cli.st = NoState
      /\ cli.gdone = "none" /\ cli.fails = <<>> /\ cli.moved = <<>> /\ cli.want = {} /\ CliShape(cli)
  BY DEF HandInit, CliShape
<1>4. ~cli.conn /\ ~cli.cmd /\ ~cli.cancel /\ ~cli.waiting
  BY DEF HandInit
<1>5. br.epoch = 1 /\ br.pend = NoAct /\ br.there = 0 /\ br.done = NoDone /\ br.news = TRUE
  BY DEF HandInit
<1>6. ~br.client /\ ~br.acting /\ ~br.real
  BY DEF HandInit
<1>7. actor.act = NoAct /\ actor.ok = FALSE
  BY DEF HandInit
<1>8. /\ NoAct \in Acts /\ NoAct.id = 0 /\ NoAct.kind = "none" /\ NoDone \in Dones /\ ~NoDone.some
      /\ ~NoState.meas
  BY DEF NoAct, Acts, NoDone, Dones, NoState
<1>9. \A i : i \notin DOMAIN up /\ i \notin DOMAIN down
  BY <1>2
<1>10. up \in Seq(Lines) /\ down \in Seq(Lines)
  BY <1>2
<1>11. Typed
  <2>1. CliTyped(cli)
    BY <1>3, <1>8 DEF CliTyped
  <2>4. br.news \in BOOLEAN
    BY <1>5, Zenon
  <2>5. br.there \in Nat
    BY <1>5
  <2>2. BrTyped(br)
    BY <1>5, <1>8, <2>4, <2>5, Zenon DEF BrTyped
  <2>3. /\ actor.act \in Acts /\ actor.ok \in BOOLEAN /\ dev.there \in Nat
        /\ stopper = [at |-> stopper.at, was |-> stopper.was, same |-> stopper.same, ok |-> stopper.ok]
    BY <1>2, <1>7, <1>8
  <2> QED
    BY <1>10, <2>1, <2>2, <2>3 DEF Typed
<1>12. BridgeInv
  <2>1. stopper.at = "idle" /\ dev.act = NoAct
    BY <1>2
  <2> QED
    BY <1>5, <1>6, <1>8, <2>1 DEF BridgeInv
<1>13. LinkInv
  BY <1>2, <1>3, <1>6, <1>9 DEF LinkInv
<1>14. ViewInv
  BY <1>3, <1>4, <1>5, <1>8, <1>9 DEF ViewInv, ViewOK, FlyOK
<1>15. StopLines
  BY <1>3, <1>4, <1>9 DEF StopLines
<1>16. TokenInv
  BY <1>3, <1>4, <1>5, <1>6, <1>8, <1>9 DEF TokenInv, Below, Joined
<1>17. NodeInv
  <2>1. NodeShape(gnode) /\ gnode.asked = 0 /\ gnode.job = NoJob /\ gnode.held = NoHeld
    BY <1>2 DEF NodeShape
  <2>2. /\ NoJob.id = 0 /\ NoJob.kind = "none" /\ NoJob.done = FALSE /\ NoHeld.id = 0
        /\ NoJob = [id |-> NoJob.id, kind |-> NoJob.kind, done |-> NoJob.done, late |-> NoJob.late]
        /\ NoHeld = [id |-> NoHeld.id, seen |-> NoHeld.seen]
    BY DEF NoJob, NoHeld
  <2>3. ResOK(0, res, dev.fin)
    BY <1>2 DEF ResOK, Results
  <2>4. 0 \in 0..MaxAsks /\ 0 \in 0..0
    BY HandAssumption
  <2>5. JobOK(0, NoJob, NoHeld, res, dev.fin)
    BY <2>2, <2>4 DEF JobOK
  <2>6. MovedOK(cli.moved, dev.fin) /\ FailsOK(cli.fails, 0, NoJob)
    BY <1>3 DEF MovedOK, FailsOK
  <2>7. VerdictOK(0, NoJob, cli, dev.fin)
    BY <1>3, <1>8, <2>2, <2>6 DEF VerdictOK, GraspKinds
  <2> QED
    BY <2>1, <2>3, <2>5, <2>7 DEF NodeInv, NodeOK
<1> QED
  BY <1>1, <1>3, <1>11, <1>12, <1>13, <1>14, <1>15, <1>16, <1>17 DEF AllInv, HandInv, WantInv

(* Every step keeps it.                                                    *)
LEMMA AllKeeps == AllInv /\ [HandNext]_handVars => AllInv'
  BY ClientKeeps, BridgeKeeps, NodeKeeps DEF HandNext

(* Where the client sees an idle Hand, every command on its way is of an   *)
(* epoch before the one it sees, and one under way would be of that epoch  *)
(* or a later one.                                                         *)
LEMMA IdleIsStill == AllInv => IdleMeansStill
<1> SUFFICES ASSUME AllInv, Believed.meas, ~Believed.busy
             PROVE  /\ dev.act.id = 0 /\ ~br.acting /\ br.pend.id = 0
                    /\ \A i \in DOMAIN up : up[i].op = "CMD" => up[i].ep < br.epoch
  BY DEF IdleMeansStill
<1>1. StopInv /\ Typed /\ BridgeInv /\ ViewInv /\ TokenInv
  BY DEF AllInv, HandInv
<1>2. cli.st.meas /\ ~cli.waiting /\ cli.fly.id = 0
  BY SnapshotSays DEF Believed
<1>3. /\ cli.epoch # 0 /\ cli.epoch <= br.epoch /\ cli.epoch \in Nat /\ br.epoch \in Nat
      /\ Quiet(br, actor.act, cli.epoch)
  BY <1>1, <1>2 DEF ViewInv, ViewOK, Typed, CliTyped, StopInv
<1>4. Below(up, down, br, actor.act, cli.epoch)
  BY <1>1, <1>2, <1>3 DEF TokenInv
<1>5. actor.act.ep \in Nat /\ br.pend.ep \in Nat /\ \A i \in DOMAIN up : up[i].ep \in Nat
  BY <1>1, LinesAre DEF Typed, BrTyped, Acts
<1>6. ~br.acting
  BY <1>3, <1>4, <1>5 DEF Quiet, Below
<1>7. dev.act.id = 0
  BY <1>1, <1>6 DEF StopInv
<1>8. br.pend.id = 0
  <2>1. SUFFICES ASSUME br.pend.id # 0 PROVE FALSE
    OBVIOUS
  <2>2. br.pend.ep + 1 = br.epoch /\ br.pend.ep < cli.epoch
    BY <1>1, <1>4, <2>1 DEF BridgeInv, Below
  <2>3. br.epoch = cli.epoch
    BY <1>3, <1>5, <2>2
  <2> QED
    BY <1>3, <2>1, <2>3 DEF Quiet, Ready
<1>9. \A i \in DOMAIN up : up[i].op = "CMD" => up[i].ep < br.epoch
  BY <1>3, <1>4, <1>5 DEF Below
<1> QED
  BY <1>6, <1>7, <1>8, <1>9

(* The two ways into the device are the actor's call and the plant tick    *)
(* that takes a pending action; neither brings a move to a held object.    *)
LEMMA NoHeldMove ==
  ASSUME AllInv, [HandNext]_handVars, dev.act.id = 0, dev'.act.kind = "move"
  PROVE  ~dev.held
<1>1. StopInv /\ Typed /\ BridgeInv /\ DevShape(dev) /\ dev.act = NoAct /\ NoAct.kind = "none" /\ NoAct.id = 0
  BY DEF AllInv, HandInv, StopInv, BridgeInv, NoAct
<1>2. ASSUME dev'.act \in {dev.act, NoAct} PROVE FALSE
  BY <1>1, <1>2
<1>3. CASE Enters
  <2>1. dev' = Into(dev, actor.act) /\ ~graph.sim /\ actor.at = "begun"
    BY <1>3 DEF Enters, ActorAt, Real
  <2>2. dev'.act = actor.act
    BY <1>1, <2>1 DEF Into, DevShape
  <2>3. br.acting
    BY <1>1, <2>1 DEF StopInv
  <2> QED
    BY <1>1, <2>2, <2>3 DEF BridgeInv
<1>4. CASE SimSamples
  <2>1. CASE dev' = dev
    BY <1>2, <2>1
  <2>2. CASE \E ok \in BOOLEAN : dev' = OutOf(dev, actor.act, ok)
    BY <1>1, <1>2, <2>2, OutFields DEF Typed
  <2>3. CASE dev' = Into(dev, br.pend)
    <3>1. dev'.act = br.pend
      BY <1>1, <2>3 DEF Into, DevShape
    <3>2. br.pend.id # 0
      BY <1>1, <3>1 DEF BridgeInv
    <3> QED
      BY <1>1, <3>1, <3>2 DEF BridgeInv
  <2> QED
    BY <1>4, <2>1, <2>2, <2>3, Zenon DEF SimSamples
<1>5. CASE ActionEnds \/ SessionLostActing
  <2>1. \E ok \in BOOLEAN : dev' = OutOf(dev, actor.act, ok)
    BY <1>5, Zenon DEF ActionEnds, SessionLostActing
  <2> QED
    BY <1>1, <1>2, <2>1, OutFields DEF Typed
<1>6. CASE StopCalls \/ SimStops
  <2>1. dev' = dev \/ \E t : dev' = [dev EXCEPT !.act = NoAct, !.held = FALSE, !.there = t]
    BY <1>6, Zenon DEF StopCalls, SimStops
  <2>2. dev' = dev \/ dev'.act = NoAct
    BY <1>1, <2>1 DEF DevShape
  <2> QED
    BY <1>2, <2>2
<1>7. CASE ObjectDrops
  <2>1. dev'.act = dev.act
    BY <1>1, <1>7 DEF ObjectDrops, DevShape
  <2> QED
    BY <1>2, <2>1
<1>8. CASE dev' = dev
  BY <1>2, <1>8
<1>9. CASE \/ Client \/ Server \/ PushesMeta \/ LinkLost \/ NodeTick \/ DeadlinePasses \/ Requests
           \/ AuthorityLost \/ AuthorityBack \/ SessionOpens \/ SessionLostReading \/ UNCHANGED handVars
  <2>1. CASE Client \/ LinkLost
    BY <1>8, <2>1, Zenon DEF Client, ClientConnects, ClientReceives, ClientWants, ClientSends, LinkLost
  <2>2. CASE Server \/ PushesMeta
    BY <1>8, <2>2, Zenon DEF Server, ServesCommand, ServesStop, Disconnect, Accepts, PushesDone, PushesMeta
  <2>3. CASE NodeTick \/ DeadlinePasses \/ AuthorityLost \/ AuthorityBack
    BY <1>8, <2>3, Zenon DEF NodeTick, DeadlinePasses, AuthorityLost, AuthorityBack
  <2>4. CASE Requests
    BY <1>8, <2>4, Zenon DEF Requests, AskMove, AskGrasp, AskPlain, Asked
  <2>5. CASE SessionOpens \/ SessionLostReading \/ UNCHANGED handVars
    BY <1>8, <2>5, Zenon DEF SessionOpens, SessionLostReading, handVars
  <2> QED
    BY <1>9, <2>1, <2>2, <2>3, <2>4, <2>5
<1>10. CASE Takes \/ Begins \/ Returns \/ Reads \/ StopBegins \/ StopFinishes
  BY <1>8, <1>10, Zenon DEF Takes, Begins, Returns, Reads, StopBegins, StopFinishes
<1> QED
  BY <1>3, <1>4, <1>5, <1>6, <1>7, <1>9, <1>10 DEF HandNext, Actor, Stopper

-----------------------------------------------------------------------------
(* The invariant of the Hand holds always: where every line, action and    *)
(* verdict may be, from a request to the fingers and back.                 *)
THEOREM HandSafe == HandSpec => []AllInv
  BY AllStarts, AllKeeps, PTL DEF HandSpec

(* What the node takes for an idle Hand is one, for any number of requests *)
(* and of lost links, sessions and stops: nothing is inside the device,    *)
(* with the actor, pending or on its way in an epoch that would still be   *)
(* admitted (franka_adapter.py snapshot, hand_admission.hpp admit).        *)
THEOREM HandIdleMeansStill == HandSpec => []IdleMeansStill
  BY HandSafe, IdleIsStill, PTL

(* A request told ok is one the device finished well, and one told that it *)
(* failed is never told it succeeded (HandGraspFsm.poll, HandMove.poll).   *)
THEOREM HandOkIsTrue == HandSpec => []OkIsTrue
<1>1. AllInv => OkIsTrue
  BY DEF AllInv, NodeInv, NodeOK, ResOK, OkIsTrue
<1> QED
  BY <1>1, HandSafe, PTL

(* No position move enters the device while it holds an object, however    *)
(* stale what the node saw of it (HandMove.start, hand_admission.hpp).     *)
THEOREM HandNoMoveWhileHeld == HandSpec => NoMoveWhileHeld
<1>1. AllInv /\ [HandNext]_handVars => [dev.act.id = 0 /\ dev'.act.kind = "move" => ~dev.held]_handVars
  BY NoHeldMove
<1> QED
  BY <1>1, HandSafe, PTL DEF HandSpec, NoMoveWhileHeld

-----------------------------------------------------------------------------
(* The mailbox.                                                            *)

(* The inductive invariant.  A slot other than the writer's holds one      *)
(* whole value; the writer's is torn only between its first fill and its   *)
(* numbering.  The newest published value is in transit while FRESH, and   *)
(* otherwise already the reader's.                                         *)
Whole(s) == slots[s].lo = slots[s].version /\ slots[s].hi = slots[s].version

SlotsWhole ==
  /\ \A s \in Slot : s # back => Whole(s)
  /\ wpc = "idle" => Whole(back)
  /\ wpc = "hi" => slots[back].lo = written + 1
  /\ wpc = "version" => slots[back].lo = written + 1 /\ slots[back].hi = written + 1
  /\ wpc = "publish" => Whole(back) /\ slots[back].version = written

NewestPlaced ==
  /\ published = IF wpc = "publish" THEN written - 1 ELSE written
  /\ wpc = "publish" => written > 0
  /\ middle.fresh => slots[middle.slot].version = published
  /\ ~middle.fresh => slots[front].version = published
  /\ slots[front].version <= published

ReadBound ==
  /\ rpc # "idle" => floor <= published
  /\ rpc = "take" => middle.fresh
  /\ rpc \in {"lo", "hi"} => slots[front].version >= floor
  /\ rpc = "hi" => copy = slots[front].lo
  /\ out.version <= slots[front].version

IInv ==
  /\ TypeOK /\ SlotsDisjoint /\ SlotsWhole /\ NewestPlaced /\ ReadBound
  /\ NotTorn /\ NoOlderThanPublished

\* A freshly constructed mailbox satisfies the inductive invariant.
LEMMA InitIInv == Init => IInv
BY DEF Init, IInv, TypeOK, SlotsDisjoint, SlotsWhole, Whole, NewestPlaced,
       ReadBound, NotTorn, NoOlderThanPublished, Slot, Held, Value

(* One step per action of the two calls.                                   *)
LEMMA NextIInv == IInv /\ [Next]_vars => IInv'
<1> SUFFICES ASSUME IInv, [Next]_vars PROVE IInv'
  OBVIOUS
<1> USE DEF IInv, TypeOK, SlotsDisjoint, SlotsWhole, Whole, NewestPlaced,
            ReadBound, NotTorn, NoOlderThanPublished, Slot, Value
<1>1. CASE FillLo
  BY <1>1 DEF FillLo
<1>2. CASE FillHi
  BY <1>2 DEF FillHi
<1>3. CASE Number
  BY <1>3 DEF Number
<1>4. CASE Publish
  BY <1>4 DEF Publish
<1>5. CASE Look
  BY <1>5 DEF Look
<1>6. CASE Take
  BY <1>6 DEF Take
<1>7. CASE CopyLo
  BY <1>7 DEF CopyLo
<1>8. CASE CopyHi
  BY <1>8 DEF CopyHi
<1>9. CASE UNCHANGED vars
  BY <1>9 DEF vars
<1>10. QED
  BY <1>1, <1>2, <1>3, <1>4, <1>5, <1>6, <1>7, <1>8, <1>9 DEF Next, Write, Read

\* The inductive invariant holds in every state of every execution.
LEMMA AlwaysIInv == Spec => []IInv
BY InitIInv, NextIInv, PTL DEF Spec

(* The triple buffer's types hold for ever, whatever the two threads do.   *)
THEOREM MailboxTypes == Spec => []TypeOK
<1>1. IInv => TypeOK
  BY DEF IInv
<1>2. QED
  BY <1>1, AlwaysIInv, PTL

(* No slot is ever accessed by both threads, so the ordinary copies of     *)
(* write() and read() never overlap.                                       *)
THEOREM MailboxSlotsDisjoint == Spec => []SlotsDisjoint
<1>1. IInv => SlotsDisjoint
  BY DEF IInv
<1>2. QED
  BY <1>1, AlwaysIInv, PTL

(* read() returns one whole value, at least as new as the newest published *)
(* when it began.                                                          *)
THEOREM MailboxReads == Spec => [](NotTorn /\ NoOlderThanPublished)
<1>1. IInv => NotTorn /\ NoOlderThanPublished
  BY DEF IInv
<1>2. QED
  BY <1>1, AlwaysIInv, PTL

(* The versions a reader is given never go back.                           *)
THEOREM MailboxVersionsForward == Spec => VersionsForward
<1>1. IInv /\ [Next]_vars => [out'.version >= out.version]_vars
  <2> SUFFICES ASSUME IInv, Next PROVE out'.version >= out.version
    OBVIOUS
  <2>1. CASE CopyHi
    BY <2>1 DEF CopyHi, IInv, TypeOK, Value, Slot, ReadBound
  <2>2. CASE ~CopyHi
    <3>1. out' = out
      BY <2>2 DEF Next, Write, Read, FillLo, FillHi, Number, Publish, Look, Take, CopyLo
    <3>2. out.version \in Nat
      BY DEF IInv, TypeOK, Value
    <3> QED BY <3>1, <3>2
  <2> QED BY <2>1, <2>2
<1>2. QED
  BY <1>1, AlwaysIInv, PTL DEF Spec, VersionsForward

(* The mailbox implements the register, for any number of writes.          *)
THEOREM MailboxImplementsRegister == Spec => ImplementsRegister
<1>1. Init => Register!Init
  BY DEF Init, Register!Init, Held
<1>2. IInv /\ IInv' /\ [Next]_vars => [Register!Next]_(Register!vars)
  <2> SUFFICES ASSUME IInv, IInv', [Next]_vars
               PROVE  [Register!Next]_(Register!vars)
    OBVIOUS
  <2> USE DEF IInv, TypeOK, Register!Next, Register!vars
  <2>1. CASE FillLo \/ FillHi \/ Number \/ UNCHANGED vars
    BY <2>1 DEF FillLo, FillHi, Number, vars
  <2>2. CASE Publish
    BY <2>2 DEF Publish, NewestPlaced, Register!Put
  <2>3. CASE Look
    BY <2>3 DEF Look, Register!Ask
  <2>4. CASE Take \/ CopyLo
    BY <2>4 DEF Take, CopyLo
  <2>5. CASE CopyHi
    <3>1. out'.version = slots[front].version
      BY <2>5 DEF CopyHi, Value
    <3>2. slots[front].version \in floor..published
      BY <2>5 DEF CopyHi, ReadBound, NewestPlaced, Value
    <3> QED
      BY <2>5, <3>1, <3>2 DEF CopyHi, ReadBound, Value, Register!Get
  <2> QED
    BY <2>1, <2>2, <2>3, <2>4, <2>5 DEF Next, Write, Read
<1> QED
  BY <1>1, <1>2, AlwaysIInv, PTL DEF Spec, ImplementsRegister, Register!Spec
=============================================================================
