--------------------------- MODULE SupervisorProofs ---------------------------
(***************************************************************************)
(* Proofs about the supervisor (Supervisor), for every bound, every number *)
(* of clients and every scene.                                             *)
(***************************************************************************)
EXTENDS SupervisorOpsProofs

-----------------------------------------------------------------------------
(* The inductive invariant.                                                *)

Acks == [armed : BOOLEAN, faulted : BOOLEAN, num : Nat]
Servers == [armed : BOOLEAN, faulted : BOOLEAN, epoch : Nat, last : 0..MaxExec, stop : Nat]
Wires == [reqs : Seq(BOOLEAN), acks : Seq(Acks), cmd : Cmds, notice : BOOLEAN, up : BOOLEAN]
Links == [latest : Packets, inbox : Seq(Packets), fresh : BOOLEAN, epoch : Nat,
          latched : BOOLEAN, later : BOOLEAN, need : Nat]
Lifecycles == {"DISCONNECTED", "CONNECTED", "CLAIMED", "ARMED", "FAULTED"}

Clients ==
  /\ owner \in Sessions \cup {NoOwner}
  /\ sess \in [Sessions -> {"open", "closing", "gone"}]
  /\ auth \in Lifecycles
  /\ ops \in [arm : 0..MaxArm, disarm : Nat, scene : Scenes]

\* A lost session carries no request.
WireOK == wire \in Wires /\ (~wire.up => wire.reqs = <<>>)

\* With no owner nothing is left to finish, and no setpoint is live.
Idle == owner = NoOwner => ~ctl.jog /\ \A e \in Exec : ~Unf(led[e])

\* A server at fault is armed, in a generation; while the session is up the fault
\* is one of the arm's.
ServerOK ==
  /\ rt \in Servers /\ (rt.faulted => rt.armed) /\ (rt.armed => rt.epoch >= 1)
  /\ wire.up /\ rt.faulted => "fault" \in ops.scene.trouble

\* The last packet shows the fault that is on, if anything received tells of it.
Shown ==
  /\ Shows(trk, link.latest)
  /\ \A i \in DOMAIN link.inbox : Shows(link.inbox[i], link.latest)

Inv ==
  /\ Clients /\ WireOK /\ ServerOK /\ link \in Links /\ LinkOK /\ Shown
  /\ Rest(World) /\ Whole(World) /\ ~ctl.stopped /\ Idle

\* Whole, of the state.
Tidy ==
  OneTrouble =>
    /\ ctl.stopped => ~ctl.armed
    /\ Queue(pend, ctl.armed) /\ Word(pend) /\ Single(pend)
    /\ Wanted(pend, ctl.armed, authFault) /\ Agreed(pend, ctl.armed, authFault)
Proven ==
  /\ trk.candidate <= rt.last /\ trk.confirmed <= rt.last /\ Warned(trk)
  /\ \A e \in Exec : Prov(led[e]) => rt.last >= e
  /\ \A e \in Exec : Unf(led[e]) /\ led[e].epoch # None => Dated(led[e].epoch)

\* Rest, of the state.
Calm ==
  /\ World \in Worlds /\ Ledger(led) /\ OneSource(ctl)
  /\ ctl.asks = <<>> /\ ctl.out = <<>> /\ ~ctl.commands
  /\ ctl.plan # 0 => Carries(led[ctl.plan], ctl.running, trk)
  /\ \A e \in Exec : Unf(led[e]) => ctl.plan = e

(* The two say the same, in every state.                                   *)
LEMMA WholeIs ==
  /\ Whole(World) <=> Tidy /\ Proven
  /\ Whole(World)' <=> Tidy' /\ Proven'
<1>1. /\ World.led = led /\ World.ctl = ctl /\ World.pend = pend /\ World.trk = trk
      /\ World.authFault = authFault
  BY DEF World
<1>2. /\ World'.led = led' /\ World'.ctl = ctl' /\ World'.pend = pend' /\ World'.trk = trk'
      /\ World'.authFault = authFault'
  BY DEF World
<1>3. Whole(World) <=> Tidy /\ Proven
  BY <1>1 DEF Whole, Guarded, Evid, Tidy, Proven
<1>4. Whole(World)' <=> Tidy' /\ Proven'
  BY <1>2 DEF Whole, Guarded, Evid, Tidy, Proven
<1> QED
  BY <1>3, <1>4

(* So do these.                                                            *)
LEMMA RestIs ==
  (Rest(World) <=> Calm) /\ (Rest(World)' <=> Calm')
<1>1. World.led = led /\ World.ctl = ctl /\ World.trk = trk
  BY DEF World
<1>2. World'.led = led' /\ World'.ctl = ctl' /\ World'.trk = trk'
  BY DEF World
<1>3. Rest(World) <=> Calm
  BY <1>1 DEF Rest, Quiet, Mid, Steady, Held, Calm
<1>4. Rest(World)' <=> Calm'
  BY <1>2 DEF Rest, Quiet, Mid, Steady, Held, Calm
<1> QED
  BY <1>3, <1>4

(* A loop operation: its record is the next state's.                       *)
LEMMA BecomeKeeps ==
  ASSUME Inv, NEW v, Rest(v), Whole(v), ~v.ctl.stopped, Become(v), rt' = rt,
         ops'.scene = ops.scene, link'.epoch = link.epoch
  PROVE  /\ Rest(World)' /\ Whole(World)' /\ ~ctl'.stopped /\ WireOK' /\ ServerOK'
         /\ led' = v.led /\ ctl' = v.ctl /\ trk' = v.trk
<1>1. /\ led' = v.led /\ ctl' = v.ctl /\ pend' = v.pend /\ authFault' = v.authFault
      /\ trk' = v.trk /\ mark' = v.mark /\ wire' = [wire EXCEPT !.cmd = v.cmd]
  BY DEF Become
<1>2. wire \in Wires /\ (~wire.up => wire.reqs = <<>>) /\ v \in Worlds /\ v.cmd \in Cmds
  BY DEF Inv, WireOK, Rest, Quiet, Mid, Worlds
<1>3. /\ wire' \in Wires /\ wire'.cmd = v.cmd /\ wire'.reqs = wire.reqs
      /\ wire'.acks = wire.acks /\ wire'.up = wire.up
  BY <1>1, <1>2 DEF Wires
<1>4. World' = v
  BY <1>1, <1>2, <1>3 DEF World, Worlds
<1>5. Rest(World)'
  <2>1. /\ World' \in Worlds /\ Ledger(v.led) /\ OneSource(v.ctl)
        /\ v.ctl.asks = <<>> /\ v.ctl.out = <<>> /\ ~v.ctl.commands
        /\ v.ctl.plan # 0 => Carries(v.led[v.ctl.plan], v.ctl.running, v.trk)
        /\ \A e \in Exec : Unf(v.led[e]) => v.ctl.plan = e
    BY <1>2, <1>4 DEF Rest, Quiet, Mid, Steady, Held
  <2>2. Carries(v.led[v.ctl.plan], v.ctl.running, v.trk) =>
          Carries(led[ctl.plan], ctl.running, trk)'
    BY <1>1 DEF Carries, Runs, Excuse, OneFault
  <2>3. Calm'
    BY <1>1, <2>1, <2>2 DEF Calm, Unf, Live, Ledger, Sound
  <2> QED
    BY <2>3, RestIs
<1>6. Tidy'
  <2>1. Guarded(v)
    BY DEF Whole
  <2>2. Hot' = Hot /\ OneTrouble' = OneTrouble
    BY <1>3 DEF Hot, OneTrouble
  <2>3. OneTrouble => /\ Queue(v.pend, v.ctl.armed) /\ Word(v.pend) /\ Single(v.pend)
                      /\ Wanted(v.pend, v.ctl.armed, v.authFault)
                      /\ Agreed(v.pend, v.ctl.armed, v.authFault)
    BY <2>1 DEF Guarded
  <2>4. Word(v.pend) => Word(pend)'
    BY <1>1, <1>3, <2>2 DEF Word
  <2>5. Single(v.pend) => Single(pend)'
    BY <1>1, <1>3 DEF Single
  <2>6. Wanted(v.pend, v.ctl.armed, v.authFault) => Wanted(pend, ctl.armed, authFault)'
    BY <1>1, <2>2 DEF Wanted
  <2>7. Queue(v.pend, v.ctl.armed) => Queue(pend, ctl.armed)'
    BY <1>1
  <2>8. Agreed(v.pend, v.ctl.armed, v.authFault) => Agreed(pend, ctl.armed, authFault)'
    BY <1>1, <1>3 DEF Agreed, Matched
  <2> QED
    BY <1>1, <2>2, <2>3, <2>4, <2>5, <2>6, <2>7, <2>8 DEF Tidy
<1>7. Proven'
  <2>1. \A x : Dated(x) => Dated(x)'
    BY DEF Dated
  <2>2. \A e \in Exec : Unf(v.led[e]) /\ v.led[e].epoch # None => Dated(v.led[e].epoch)
    BY DEF Whole, Evid
  <2>3. (\A e \in Exec : Unf(led[e]) /\ led[e].epoch # None => Dated(led[e].epoch))'
    BY <1>1, <2>1, <2>2 DEF Dated, Unf, Live
  <2>4. Warned(trk)'
    BY <1>1 DEF Whole, Evid, Warned, Spent
  <2> QED
    BY <1>1, <2>3, <2>4 DEF Whole, Evid, Proven, Prov
<1>8. Whole(World)'
  BY <1>6, <1>7, WholeIs
<1>9. ServerOK'
  BY <1>3 DEF Inv, ServerOK
<1> QED
  BY <1>1, <1>2, <1>3, <1>5, <1>8, <1>9 DEF WireOK

-----------------------------------------------------------------------------
(* The worker.                                                             *)

\* q is p with the status st for request i.
Answers(p, i, st, q) ==
  /\ q \in Seq(Pends) /\ DOMAIN q = DOMAIN p /\ q[i].arm = p[i].arm /\ q[i].st = st
  /\ \A j \in DOMAIN p : j # i => q[j] = p[j]

(* A request gets another status.                                          *)
LEMMA AnswerIs ==
  ASSUME NEW p \in Seq(Pends), NEW i \in DOMAIN p, NEW st \in {"sent", "acked", "ok", "failed"}
  PROVE  Answers(p, i, st, [p EXCEPT ![i].st = st])
<1> DEFINE r == [p[i] EXCEPT !.st = st]
           q == [p EXCEPT ![i] = r]
           n == Len(p)
<1>1. n \in Nat /\ DOMAIN p = 1..n /\ p \in [1..n -> Pends]
  OBVIOUS
<1>2. [p EXCEPT ![i].st = st] = q
  OBVIOUS
<1>3. p[i] \in Pends /\ r \in Pends /\ r.arm = p[i].arm /\ r.st = st
  BY <1>1 DEF Pends, Answered
<1> HIDE DEF r
<1>4. q \in [1..n -> Pends] /\ q[i] = r /\ \A j \in DOMAIN p : j # i => q[j] = p[j]
  BY <1>1, <1>3
<1>5. q \in Seq(Pends) /\ DOMAIN q = DOMAIN p
  BY <1>1, <1>4, SeqDef
<1> HIDE DEF q
<1>6. Answers(p, i, st, q)
  BY <1>3, <1>4, <1>5 DEF Answers
<1> QED
  BY <1>2, <1>6

(* The first unanswered one does.                                          *)
LEMMA AnswerQueue ==
  ASSUME NEW p \in Seq(Pends), NEW q, NEW armed, Queue(p, armed), NEW i \in DOMAIN p,
         p[i].st \notin Answered, \A j \in 1..(i - 1) : p[j].st \in Answered,
         NEW st \in {"sent", "acked", "ok", "failed"}, Answers(p, i, st, q)
  PROVE  /\ Queue(q, armed)
         /\ \A j \in DOMAIN p : j # i => /\ p[j].st \notin {"sent", "acked"}
                                         /\ p[j].st = "ok" => j < i
<1> DEFINE n == Len(p)
<1>1. n \in Nat /\ DOMAIN p = 1..n
  OBVIOUS
<1>3. q[i].arm = p[i].arm /\ q[i].st = st
  BY DEF Answers
<1>4. \A j \in DOMAIN p : j # i => q[j] = p[j]
  BY DEF Answers
<1>5. DOMAIN q = DOMAIN p
  BY DEF Answers
<1> HIDE DEF n
<1>6. \A j \in DOMAIN q : q[j].arm = p[j].arm
  BY <1>3, <1>4, <1>5
<1>7. ASSUME NEW a \in DOMAIN p, NEW b \in DOMAIN p, a < b, q[a].st \notin Answered
      PROVE  q[b].st \in {"queued", "cancelled"}
  <2>1. a >= i
    BY <1>1, <1>4, <1>7
  <2>2. b # i /\ p[a].st \notin Answered
    BY <1>1, <1>4, <1>7, <2>1
  <2>3. p[b].st \in {"queued", "cancelled"}
    BY <1>7, <2>2 DEF Queue
  <2> QED
    BY <1>4, <2>2, <2>3
<1>8. \A j \in DOMAIN q : q[j].st \in {"queued", "cancelled"} => q[j] = p[j]
  BY <1>3, <1>4, <1>5
<1>9. Queue(q, armed)
  <2>1. \A a, b \in DOMAIN q : a < b /\ q[a].st \notin Answered => q[b].st \in {"queued", "cancelled"}
    BY <1>5, <1>7
  <2>2. \A a, b \in DOMAIN q : a < b /\ ~q[a].arm => ~q[b].arm
    BY <1>5, <1>6 DEF Queue
  <2>3. \A a \in DOMAIN q : q[a].st = "cancelled" => q[a].arm
    BY <1>5, <1>8 DEF Queue
  <2>4. \A a \in DOMAIN q : q[a].arm /\ q[a].st = "queued" => armed /\ \A b \in DOMAIN q : q[b].arm
    <3>1. ASSUME NEW a \in DOMAIN q, q[a].arm, q[a].st = "queued"
          PROVE  armed /\ \A b \in DOMAIN q : q[b].arm
      <4>1. p[a].arm /\ p[a].st = "queued" /\ a \in DOMAIN p
        BY <1>5, <1>8, <3>1
      <4>2. armed /\ \A b \in DOMAIN p : p[b].arm
        BY <4>1 DEF Queue
      <4> QED
        BY <1>5, <1>6, <4>2
    <3> QED
      BY <3>1
  <2>5. \A a \in DOMAIN q : q[a].arm /\ ~armed => \E b \in DOMAIN q : a < b /\ ~q[b].arm
    BY <1>5, <1>6 DEF Queue
  <2> QED
    BY <2>1, <2>2, <2>3, <2>4, <2>5 DEF Queue
<1>10. ASSUME NEW j \in DOMAIN p, j # i
       PROVE  p[j].st \notin {"sent", "acked"} /\ (p[j].st = "ok" => j < i)
  <2>1. CASE j < i
    <3>1. j \in 1..(i - 1)
      BY <1>1, <2>1
    <3> QED
      BY <2>1, <3>1 DEF Answered
  <2>2. CASE j > i
    BY <2>2 DEF Queue
  <2> QED
    BY <1>1, <1>10, <2>1, <2>2
<1> QED
  BY <1>9, <1>10

(* Only the requests and the wire's queues change.                         *)
LEMMA PendRest ==
  ASSUME Rest(World), pend' \in Seq(Pends), wire'.cmd = wire.cmd,
         UNCHANGED <<led, ctl, authFault, trk, mark, rt, ops>>
  PROVE  Rest(World)'
<1> DEFINE w == World
           v == [w EXCEPT !.pend = pend']
<1>1. World' = v
  BY DEF World
<1>2. w \in Worlds /\ Calm
  BY RestIs DEF Calm
<1> HIDE DEF w
<1>3. v \in Worlds
  BY <1>2 DEF Worlds
<1>4. Calm'
  BY <1>1, <1>2, <1>3 DEF Calm, Carries, Runs, Excuse, OneFault, Unf, Live, Ledger, Sound
<1> QED
  BY <1>4, RestIs

\* What the worker's request meets, and what becomes of it.
Turn(i, st) ==
  /\ i \in DOMAIN pend /\ pend \in Seq(Pends) /\ Answers(pend, i, st, pend')
  /\ Tidy => (OneTrouble =>
       /\ Queue(pend', ctl.armed)
       /\ \A j \in DOMAIN pend : j # i => /\ pend[j].st \notin {"sent", "acked"}
                                          /\ pend[j].st = "ok" => j < i)

(* The request the worker is at.                                           *)
LEMMA TurnIs ==
  ASSUME Inv, NEW i, At(i), NEW st \in {"sent", "acked", "ok", "failed"}, Answer(i, st)
  PROVE  Turn(i, st)
<1>1. /\ pend \in Seq(Pends) /\ i \in DOMAIN pend /\ pend[i].st \notin Answered
      /\ \A j \in 1..(i - 1) : pend[j].st \in Answered
      /\ pend' = [pend EXCEPT ![i].st = st]
  BY DEF Inv, Rest, Quiet, Mid, Worlds, World, At, Answer
<1>2. Answers(pend, i, st, pend')
  BY <1>1, AnswerIs
<1>3. ASSUME Tidy, OneTrouble
      PROVE  /\ Queue(pend', ctl.armed)
             /\ \A j \in DOMAIN pend : j # i => /\ pend[j].st \notin {"sent", "acked"}
                                                /\ pend[j].st = "ok" => j < i
  <2>1. Queue(pend, ctl.armed)
    BY <1>3 DEF Tidy
  <2> QED
    BY <1>1, <1>2, <2>1, AnswerQueue
<1> QED
  BY <1>1, <1>2, <1>3 DEF Turn

(* What every step of the worker keeps.                                    *)
LEMMA WorkerFrame ==
  ASSUME Inv, NEW i, NEW st, Turn(i, st), WorkerLeaves, WireOK', wire'.cmd = wire.cmd,
         wire'.up = wire.up, link' \in Links, link'.latest = link.latest, link'.inbox = link.inbox, Tidy'
  PROVE  Inv'
<1>1. pend' \in Seq(Pends)
  BY DEF Turn, Answers
<1>2. /\ UNCHANGED <<led, ctl, authFault, trk, mark>>
      /\ UNCHANGED <<owner, sess, auth, ops, rt>>
  BY DEF WorkerLeaves
<1>8. wire'.up = wire.up
  OBVIOUS
<1>3. Rest(World)'
  BY <1>1, <1>2, PendRest DEF Inv
<1>4. Proven'
  BY <1>2, WholeIs DEF Inv, Proven, Warned, Spent, Dated, Prov, Unf, Live
<1>5. Whole(World)'
  BY <1>4, WholeIs
<1>6. LinkOK'
  BY <1>2 DEF Inv, LinkOK, Links, Truthful, Warned, Spent
<1>7. Clients' /\ Idle' /\ ~ctl'.stopped
  BY <1>2 DEF Inv, Clients, Idle, Unf, Live
<1>9. ServerOK'
  BY <1>2, <1>8 DEF Inv, ServerOK
<1>10. Shown'
  BY <1>2 DEF Inv, Shown, Shows, OneFault
<1> QED
  BY <1>3, <1>5, <1>6, <1>7, <1>9, <1>10 DEF Inv

(* A request is sent, or cannot be.                                        *)
LEMMA SendKeeps ==
  ASSUME Inv, NEW i, NEW k, WorkerSend(i, k)
  PROVE  Inv'
<1> DEFINE b == pend[i].arm
           rest == SubSeq(wire.acks, k + 1, Len(wire.acks))
<1>1. /\ wire \in Wires /\ wire.reqs \in Seq(BOOLEAN) /\ wire.acks \in Seq(Acks)
      /\ link \in Links /\ pend \in Seq(Pends) /\ Tidy /\ WorkerLeaves /\ i \in DOMAIN pend
      /\ k \in 0..Len(wire.acks) /\ pend[i].st = "queued" /\ At(i)
      /\ (~wire.up => wire.reqs = <<>>)
  <2>2. wire \in Wires /\ (~wire.up => wire.reqs = <<>>) /\ link \in Links /\ Tidy
    BY WholeIs DEF Inv, WireOK
  <2>3. pend \in Seq(Pends)
    BY DEF Inv, Rest, Quiet, Mid, Worlds, World
  <2>4. wire.reqs \in Seq(BOOLEAN) /\ wire.acks \in Seq(Acks)
    BY <2>2 DEF Wires
  <2>5. /\ WorkerLeaves /\ i \in DOMAIN pend /\ k \in 0..Len(wire.acks)
        /\ pend[i].st = "queued" /\ At(i)
    BY DEF WorkerSend, At
  <2> QED
    BY <2>2, <2>3, <2>4, <2>5
<1>2. b \in BOOLEAN
  <2>1. pend[i] \in Pends
    BY <1>1
  <2> QED
    BY <2>1 DEF Pends
<1>3. /\ link' \in Links /\ link'.latest = link.latest /\ link'.inbox = link.inbox
      /\ link'.epoch = link.epoch
  BY <1>1 DEF WorkerSend, Links
<1>4. rest \in Seq(Acks) /\ (wire.acks = <<>> => rest = <<>>)
  <2>1. Len(wire.acks) \in Nat /\ k \in Nat
    BY <1>1
  <2>2. rest \in Seq(Acks)
    BY <1>1, <2>1
  <2>3. wire.acks = <<>> => rest = <<>>
    <3>1. ASSUME wire.acks = <<>> PROVE rest = <<>>
      <4>1. Len(wire.acks) = 0 /\ k = 0
        BY <1>1, <3>1
      <4> QED
        BY <1>1, <4>1, <2>2
    <3> QED
      BY <3>1
  <2> QED
    BY <2>2, <2>3
<1>5. rt' = rt /\ ops' = ops /\ ctl' = ctl /\ authFault' = authFault
  BY <1>1 DEF WorkerLeaves
<1>6. CASE wire.up
  <2>1. /\ Answer(i, "sent")
        /\ wire' = [wire EXCEPT !.reqs = Append(wire.reqs, b), !.acks = rest]
    BY <1>6 DEF WorkerSend
  <2>2. Turn(i, "sent")
    BY <1>1, <2>1, TurnIs
  <2>3. /\ Append(wire.reqs, b) \in Seq(BOOLEAN) /\ Append(wire.reqs, b) # <<>>
        /\ Append(wire.reqs, b)[Len(Append(wire.reqs, b))] = b
    BY <1>1, <1>2
  <2>4. wire.reqs = <<>> => Append(wire.reqs, b) = <<b>>
    <3>1. Append(<<>>, b) = <<b>>
      OBVIOUS
    <3> QED
      BY <3>1
  <2> DEFINE rs == Append(wire.reqs, b)
  <2> HIDE DEF rs, rest
  <2>5. /\ wire' \in Wires /\ wire'.reqs = rs /\ wire'.acks = rest /\ wire'.up /\ wire'.up = wire.up
        /\ wire'.cmd = wire.cmd
    BY <1>1, <1>4, <1>6, <2>1, <2>3 DEF Wires, rs
  <2>6. Hot' = b
    BY <1>2, <2>3, <2>5 DEF Hot, rs
  <2>7. ASSUME OneTrouble'
        PROVE  (/\ ctl.stopped => ~ctl.armed
                /\ Queue(pend, ctl.armed) /\ Word(pend) /\ Single(pend)
                /\ Wanted(pend, ctl.armed, authFault) /\ Agreed(pend, ctl.armed, authFault))'
    <3>1. OneTrouble
      BY <1>5, <2>7 DEF OneTrouble
    <3>2. /\ Queue(pend, ctl.armed) /\ Single(pend) /\ (ctl.stopped => ~ctl.armed)
          /\ Agreed(pend, ctl.armed, authFault)
      BY <1>1, <3>1 DEF Tidy
    <3>3. /\ Queue(pend', ctl.armed)
          /\ DOMAIN pend' = DOMAIN pend /\ pend'[i].arm = b /\ pend'[i].st = "sent"
          /\ \A j \in DOMAIN pend : j # i => /\ pend'[j] = pend[j]
                                             /\ pend[j].st \notin {"sent", "acked"}
                                             /\ pend[j].st = "ok" => j < i
      BY <1>1, <2>2, <3>1 DEF Turn, Answers
    <3>4. Word(pend)'
      <4>1. ASSUME NEW j \in DOMAIN pend, ~pend'[j].arm,
                   pend'[j].st \in {"sent", "acked", "ok"}
            PROVE  ~b
        <5>1. CASE j = i
          BY <3>3, <4>1, <5>1
        <5>2. CASE j # i
          <6>1. j < i /\ ~pend[j].arm
            BY <3>3, <4>1, <5>2
          <6> QED
            BY <1>1, <3>2, <6>1 DEF Queue
        <5> QED
          BY <5>1, <5>2
      <4> QED
        BY <2>6, <3>3, <4>1 DEF Word
    <3>5. Single(pend)'
      <4>1. ASSUME "slow" \notin ops.scene.trouble
            PROVE  /\ wire.reqs = <<>> /\ wire.acks = <<>>
                   /\ \A j \in DOMAIN pend : ~pend[j].arm /\ pend[j].st \in {"acked", "ok"} => ~rt.armed
        <5>1. \A j \in DOMAIN pend : pend[j].st # "sent"
          BY <1>1, <3>3
        <5> QED
          BY <1>6, <3>2, <4>1, <5>1 DEF Single
      <4>2. ASSUME "slow" \notin ops.scene.trouble
            PROVE  wire'.reqs = <<b>> /\ wire'.acks = <<>>
        BY <1>4, <2>4, <2>5, <4>1, <4>2 DEF rs
      <4>3. ASSUME NEW j \in DOMAIN pend, pend'[j].st = "sent" PROVE pend'[j].arm = b
        BY <3>3, <4>3
      <4>4. i \in DOMAIN pend' /\ pend'[i].st = "sent"
        BY <1>1, <3>3
      <4>5. ASSUME "slow" \notin ops.scene.trouble,
                   NEW j \in DOMAIN pend, ~pend'[j].arm, pend'[j].st \in {"acked", "ok"}
            PROVE  ~rt.armed
        BY <3>3, <4>1, <4>5
      <4> QED
        BY <1>5, <3>3, <4>2, <4>3, <4>4, <4>5 DEF Single
    <3>6. Wanted(pend, ctl.armed, authFault)'
      <4>1. b => ctl.armed
        BY <1>1, <3>2 DEF Queue
      <4> QED
        BY <1>5, <2>6, <4>1 DEF Wanted
    <3>7. Agreed(pend, ctl.armed, authFault)'
      <4>1. ASSUME "slow" \notin ops.scene.trouble PROVE wire'.acks = <<>>
        <5>1. \A j \in DOMAIN pend : pend[j].st # "sent"
          BY <1>1, <3>3
        <5>2. wire.acks = <<>>
          BY <1>6, <3>2, <4>1, <5>1 DEF Single
        <5> QED
          BY <1>4, <2>5, <5>2
      <4>2. \A j \in DOMAIN pend : pend'[j].arm = pend[j].arm
        BY <3>3
      <4>3. \A j \in DOMAIN pend : pend'[j].st \in {"ok", "acked", "failed"} =>
              pend'[j].st = pend[j].st
        BY <3>3
      <4>4. pend' # <<>>
        BY <1>1, <3>3
      <4> QED
        BY <1>3, <1>5, <2>5, <3>2, <3>3, <4>1, <4>2, <4>3, <4>4 DEF Agreed, Matched
    <3> QED
      BY <1>5, <3>2, <3>3, <3>4, <3>5, <3>6, <3>7
  <2>8. Tidy'
    BY <2>7 DEF Tidy
  <2>9. WireOK'
    BY <2>5 DEF WireOK
  <2> QED
    BY <1>1, <1>3, <2>2, <2>5, <2>8, <2>9, WorkerFrame
<1>7. CASE ~wire.up
  <2>1. Answer(i, "failed") /\ wire' = [wire EXCEPT !.acks = rest]
    BY <1>7 DEF WorkerSend
  <2>2. Turn(i, "failed")
    BY <1>1, <2>1, TurnIs
  <2> HIDE DEF rest
  <2>3. /\ wire' \in Wires /\ wire'.reqs = wire.reqs /\ wire'.acks = rest /\ wire'.up = wire.up
        /\ wire'.cmd = wire.cmd
    BY <1>1, <1>4, <2>1 DEF Wires
  <2>4. Hot' = Hot
    BY <1>5, <2>3 DEF Hot
  <2>5. ASSUME OneTrouble'
        PROVE  (/\ ctl.stopped => ~ctl.armed
                /\ Queue(pend, ctl.armed) /\ Word(pend) /\ Single(pend)
                /\ Wanted(pend, ctl.armed, authFault) /\ Agreed(pend, ctl.armed, authFault))'
    <3>1. OneTrouble
      BY <1>5, <2>5 DEF OneTrouble
    <3>2. /\ Word(pend) /\ Wanted(pend, ctl.armed, authFault) /\ (ctl.stopped => ~ctl.armed)
          /\ Agreed(pend, ctl.armed, authFault)
      BY <1>1, <3>1 DEF Tidy
    <3>3. /\ Queue(pend', ctl.armed)
          /\ DOMAIN pend' = DOMAIN pend /\ pend'[i].arm = b /\ pend'[i].st = "failed"
          /\ \A j \in DOMAIN pend : j # i => /\ pend'[j] = pend[j]
                                             /\ pend[j].st \notin {"sent", "acked"}
      BY <1>1, <2>2, <3>1 DEF Turn, Answers
    <3>4. Word(pend)'
      BY <2>4, <3>2, <3>3 DEF Word
    <3>5. Single(pend)'
      BY <1>7, <2>3 DEF Single
    <3>6. Wanted(pend, ctl.armed, authFault)'
      BY <1>1, <1>5, <2>4, <3>2, <3>3 DEF Wanted
    <3>7. Agreed(pend, ctl.armed, authFault)'
      <4>1. \A j \in DOMAIN pend : pend'[j].arm = pend[j].arm /\ pend'[j].st # "sent"
        BY <3>3
      <4>2. \A j \in DOMAIN pend : pend'[j].st \in {"ok", "acked"} => pend'[j].st = pend[j].st
        BY <3>3
      <4>3. pend' # <<>>
        BY <1>1, <3>3
      <4> QED
        BY <1>3, <1>5, <1>7, <2>3, <3>2, <3>3, <4>1, <4>2, <4>3 DEF Agreed, Matched
    <3> QED
      BY <1>5, <3>2, <3>3, <3>4, <3>5, <3>6, <3>7
  <2>6. Tidy'
    BY <2>5 DEF Tidy
  <2>7. WireOK'
    BY <1>1, <2>3 DEF WireOK
  <2> QED
    BY <1>1, <1>3, <2>2, <2>3, <2>6, <2>7, WorkerFrame
<1> QED
  BY <1>6, <1>7

(* An ack is taken for the answer.                                         *)
LEMMA AckKeeps ==
  ASSUME Inv, NEW i, WorkerAck(i)
  PROVE  Inv'
<1> DEFINE b == pend[i].arm
           a == Head(wire.acks)
<1>1. /\ wire \in Wires /\ (~wire.up => wire.reqs = <<>>) /\ link \in Links /\ Tidy
  BY WholeIs DEF Inv, WireOK
<1>2. /\ WorkerLeaves /\ At(i) /\ i \in DOMAIN pend /\ pend[i].st = "sent" /\ wire.acks # <<>>
      /\ wire' = [wire EXCEPT !.acks = Tail(wire.acks)]
  BY DEF WorkerAck, At
<1>3. wire.acks \in Seq(Acks)
  BY <1>1 DEF Wires
<1>4. Tail(wire.acks) \in Seq(Acks) /\ (Len(wire.acks) = 1 => Tail(wire.acks) = <<>>)
  <2>1. Tail(wire.acks) \in Seq(Acks) /\ Len(Tail(wire.acks)) = Len(wire.acks) - 1
    BY <1>2, <1>3
  <2>2. Len(wire.acks) \in Nat
    BY <1>3
  <2> DEFINE r == Tail(wire.acks)
  <2> HIDE DEF r
  <2>3. r \in Seq(Acks) /\ Len(r) = Len(wire.acks) - 1
    BY <2>1 DEF r
  <2>4. Len(wire.acks) = 1 => r = <<>>
    BY <2>3
  <2> QED
    BY <2>1, <2>4 DEF r
<1>5. a \in Acks
  BY <1>2, <1>3
<1>6. a.num \in Nat
  BY <1>5 DEF Acks
<1> HIDE DEF a
<1>7. /\ wire' \in Wires /\ wire'.reqs = wire.reqs /\ wire'.acks = Tail(wire.acks)
      /\ wire'.up = wire.up /\ wire'.cmd = wire.cmd
  BY <1>1, <1>2, <1>4 DEF Wires
<1>8. WireOK'
  BY <1>1, <1>7 DEF WireOK
<1>9. rt' = rt /\ ops' = ops /\ ctl' = ctl /\ authFault' = authFault
  BY <1>2 DEF WorkerLeaves
<1>10. link' \in {link, [link EXCEPT !.epoch = a.num], [link EXCEPT !.epoch = 0],
                  [link EXCEPT !.epoch = 0, !.need = a.num]}
  BY DEF WorkerAck, a
<1>11. link' \in Links /\ link'.latest = link.latest /\ link'.inbox = link.inbox
  <2>1. CASE link' = link
    BY <1>1, <2>1 DEF Links
  <2>2. CASE link' = [link EXCEPT !.epoch = a.num]
    BY <1>1, <1>6, <2>2 DEF Links
  <2>3. CASE link' = [link EXCEPT !.epoch = 0]
    BY <1>1, <2>3 DEF Links
  <2>4. CASE link' = [link EXCEPT !.epoch = 0, !.need = a.num]
    BY <1>1, <1>6, <2>4 DEF Links
  <2> QED
    BY <1>10, <2>1, <2>2, <2>3, <2>4
<1>12. PICK st \in {"ok", "failed", "acked"} :
         /\ Answer(i, st)
         /\ b => st # "acked" /\ (st = "ok" => ~a.faulted /\ a.armed /\ link' = [link EXCEPT !.epoch = a.num])
         /\ b /\ st = "failed" => link' = link
         /\ ~b => /\ st # "ok"
                  /\ link' \in {[link EXCEPT !.epoch = 0], [link EXCEPT !.epoch = 0, !.need = a.num]}
  BY DEF WorkerAck, a
<1>17. /\ b /\ st = "ok" => ~a.faulted /\ a.armed /\ link'.epoch = a.num
       /\ b /\ st = "failed" => link'.epoch = link.epoch
       /\ ~b => link'.epoch = 0
  BY <1>1, <1>12 DEF Links
<1>13. Turn(i, st)
  BY <1>2, <1>12, TurnIs
<1>14. Hot' = Hot
  BY <1>7, <1>9 DEF Hot
<1>15. ASSUME OneTrouble'
       PROVE  (/\ ctl.stopped => ~ctl.armed
               /\ Queue(pend, ctl.armed) /\ Word(pend) /\ Single(pend)
               /\ Wanted(pend, ctl.armed, authFault) /\ Agreed(pend, ctl.armed, authFault))'
  <2>1. OneTrouble
    BY <1>9, <1>15 DEF OneTrouble
  <2>2. /\ Word(pend) /\ Single(pend) /\ Wanted(pend, ctl.armed, authFault)
        /\ Queue(pend, ctl.armed) /\ (ctl.stopped => ~ctl.armed)
        /\ Agreed(pend, ctl.armed, authFault)
    BY <1>1, <2>1 DEF Tidy
  <2>3. /\ Queue(pend', ctl.armed)
        /\ DOMAIN pend' = DOMAIN pend /\ pend'[i].arm = b /\ pend'[i].st = st
        /\ \A j \in DOMAIN pend : j # i => /\ pend'[j] = pend[j]
                                           /\ pend[j].st \notin {"sent", "acked"}
    BY <1>1, <1>13, <2>1 DEF Turn, Answers
  <2>4. ~b => ~Hot
    BY <1>2, <2>2 DEF Word
  <2>5. Word(pend)'
    BY <1>12, <1>14, <2>2, <2>3, <2>4 DEF Word
  <2>6. ASSUME "slow" \notin ops.scene.trouble, wire.up
        PROVE  wire.reqs = <<>> /\ wire'.acks = <<>> /\ (~b => ~rt.armed)
    <3>1. wire.reqs = <<>> /\ Len(wire.acks) = 1
      BY <1>2, <2>2, <2>6 DEF Single
    <3> QED
      BY <1>4, <1>7, <2>4, <3>1 DEF Hot
  <2>7. Single(pend)'
    <3>1. \A j \in DOMAIN pend : pend'[j].st # "sent"
      BY <1>12, <2>3
    <3>2. ASSUME "slow" \notin ops.scene.trouble, wire.up, NEW j \in DOMAIN pend,
                 ~pend'[j].arm, pend'[j].st \in {"acked", "ok"}
          PROVE  ~rt.armed
      <4>1. CASE j = i
        BY <2>3, <2>6, <3>2, <4>1
      <4>2. CASE j # i
        BY <2>2, <2>3, <3>2, <4>2 DEF Single
      <4> QED
        BY <4>1, <4>2
    <3> QED
      BY <1>7, <1>9, <2>3, <2>6, <3>1, <3>2 DEF Single
  <2>8. Wanted(pend, ctl.armed, authFault)'
    <3>1. ASSUME Hot, ~ctl.armed, ~authFault
          PROVE  \E j \in DOMAIN pend : ~pend'[j].arm /\ pend'[j].st \in {"queued", "sent", "failed"}
      <4>1. PICK j \in DOMAIN pend : ~pend[j].arm /\ pend[j].st \in {"queued", "sent", "failed"}
        BY <2>2, <3>1 DEF Wanted
      <4>2. j # i
        BY <2>4, <3>1, <4>1
      <4> QED
        BY <2>3, <4>1, <4>2
    <3> QED
      BY <1>9, <1>14, <2>3, <3>1 DEF Wanted
  <2>9. Agreed(pend, ctl.armed, authFault)'
    <3>1. \A j \in DOMAIN pend : pend'[j].arm = pend[j].arm /\ pend'[j].st # "sent"
      BY <1>12, <2>3
    <3>2. pend' # <<>>
      BY <1>2, <2>3
    <3>3. CASE ~b
      <4>1. "slow" \notin ops.scene.trouble => ~ctl.armed
        BY <1>2, <2>2, <3>3 DEF Agreed
      <4>2. \A j \in DOMAIN pend : pend'[j].arm => pend'[j].st # "acked" \/ "slow" \in ops.scene.trouble
        BY <1>12, <2>2, <2>3, <3>3 DEF Agreed
      <4> QED
        BY <1>9, <1>17, <2>3, <3>1, <3>2, <3>3, <4>1, <4>2 DEF Agreed
    <3>4. CASE b /\ st = "failed"
      <4>1. \A j \in DOMAIN pend : pend'[j] = pend[j] \/ (pend'[j].arm /\ pend'[j].st = "failed")
        BY <2>3, <3>4
      <4> QED
        BY <1>7, <1>9, <1>17, <2>2, <2>3, <3>1, <3>2, <3>4, <4>1 DEF Agreed, Matched
    <3>5. CASE b /\ st = "ok"
      <4>1. \A j \in DOMAIN pend : pend[j].st = "sent" => j = i
        BY <2>3
      <4>2. 1 \in DOMAIN wire.acks /\ wire.acks[1] = a
        BY <1>2, <1>3 DEF a
      <4>3. "slow" \notin ops.scene.trouble => rt.armed /\ a.num = rt.epoch
        BY <1>2, <1>17, <2>2, <3>5, <4>2 DEF Agreed
      <4>4. "slow" \notin ops.scene.trouble => Matched'
        BY <1>9, <1>17, <3>5, <4>3 DEF Matched
      <4>5. ASSUME NEW j \in DOMAIN pend, ~pend[j].arm
            PROVE  pend'[j].st \notin {"acked", "ok", "failed"}
        <5>1. j # i
          BY <3>5, <4>5
        <5>2. ~(j < i)
          BY <1>2, <2>2, <3>5, <4>5 DEF Queue
        <5>3. i < j
          <6>1. i \in Nat /\ j \in Nat
            BY <1>2 DEF Inv, Rest, Quiet, Mid, Worlds, World
          <6> QED
            BY <5>1, <5>2, <6>1
        <5>4. pend[j].st \in {"queued", "cancelled"}
          BY <1>2, <2>2, <5>3 DEF Queue, Answered
        <5> QED
          BY <2>3, <5>1, <5>4
      <4>6. \A j \in DOMAIN pend : pend'[j].st # "acked"
        BY <2>3, <3>5
      <4>7. ctl.armed /\ "slow" \notin ops.scene.trouble => \A j \in DOMAIN pend : pend[j].arm
        BY <2>2 DEF Agreed
      <4> QED
        BY <1>9, <2>3, <3>1, <3>2, <4>4, <4>5, <4>6, <4>7 DEF Agreed
    <3> QED
      BY <1>12, <3>3, <3>4, <3>5
  <2> QED
    BY <1>9, <2>2, <2>3, <2>5, <2>7, <2>8, <2>9
<1>16. Tidy'
  BY <1>15 DEF Tidy
<1> QED
  BY <1>2, <1>7, <1>8, <1>11, <1>13, <1>16, WorkerFrame

(* A request is given up, or a DISARM is confirmed.                        *)
LEMMA EndKeeps ==
  ASSUME Inv, NEW i, WorkerTimeout(i) \/ WorkerConfirm(i)
  PROVE  Inv'
<1> DEFINE b == pend[i].arm
<1>1. /\ wire \in Wires /\ link \in Links /\ Tidy /\ WireOK
  BY WholeIs DEF Inv, WireOK
<1>2. WorkerLeaves /\ At(i) /\ i \in DOMAIN pend /\ wire' = wire
  BY DEF WorkerTimeout, WorkerConfirm, At
<1>3. WireOK' /\ wire'.cmd = wire.cmd /\ wire'.up = wire.up
  BY <1>1, <1>2 DEF WireOK
<1>4. rt' = rt /\ ops' = ops /\ ctl' = ctl /\ authFault' = authFault
  BY <1>2 DEF WorkerLeaves
<1>5. /\ link' \in Links /\ link'.latest = link.latest /\ link'.inbox = link.inbox
      /\ link'.epoch = link.epoch
  <2>1. CASE link' = [link EXCEPT !.later = FALSE, !.need = 0]
    BY <1>1, <2>1 DEF Links
  <2>2. CASE link' = [link EXCEPT !.latched = FALSE, !.later = FALSE, !.need = 0]
    BY <1>1, <2>2 DEF Links
  <2> QED
    BY <2>1, <2>2 DEF WorkerTimeout, WorkerConfirm
<1>6. PICK st \in {"ok", "failed"} :
        /\ Answer(i, st)
        /\ st = "failed" => /\ pend[i].st \in {"sent", "acked"}
                            /\ "slow" \in ops.scene.trouble \/ ~wire.up
        /\ st = "ok" => pend[i].st = "acked"
  BY DEF WorkerTimeout, WorkerConfirm
<1>7. Turn(i, st)
  BY <1>2, <1>6, TurnIs
<1>8. Hot' = Hot
  BY <1>2, <1>4 DEF Hot
<1>9. ASSUME OneTrouble'
      PROVE  (/\ ctl.stopped => ~ctl.armed
              /\ Queue(pend, ctl.armed) /\ Word(pend) /\ Single(pend)
              /\ Wanted(pend, ctl.armed, authFault) /\ Agreed(pend, ctl.armed, authFault))'
  <2>1. OneTrouble
    BY <1>4, <1>9 DEF OneTrouble
  <2>2. /\ Word(pend) /\ Single(pend) /\ Wanted(pend, ctl.armed, authFault)
        /\ Queue(pend, ctl.armed) /\ (ctl.stopped => ~ctl.armed)
        /\ Agreed(pend, ctl.armed, authFault)
    BY <1>1, <2>1 DEF Tidy
  <2>3. /\ Queue(pend', ctl.armed)
        /\ DOMAIN pend' = DOMAIN pend /\ pend'[i].arm = b /\ pend'[i].st = st
        /\ \A j \in DOMAIN pend : j # i => /\ pend'[j] = pend[j]
                                           /\ pend[j].st \notin {"sent", "acked"}
    BY <1>1, <1>7, <2>1 DEF Turn, Answers
  <2>4. Word(pend)'
    BY <1>2, <1>6, <1>8, <2>2, <2>3 DEF Word
  <2>5. Single(pend)'
    <3>1. CASE st = "failed"
      BY <1>2, <1>4, <1>6, <3>1 DEF Single
    <3>2. CASE st = "ok"
      <4>1. \A j \in DOMAIN pend : pend[j].st # "sent" /\ pend'[j].st # "sent"
        BY <1>6, <2>3, <3>2
      <4>2. \A j \in DOMAIN pend : ~pend'[j].arm /\ pend'[j].st \in {"acked", "ok"} =>
                                     ~pend[j].arm /\ pend[j].st \in {"acked", "ok"}
        BY <1>6, <2>3, <3>2
      <4> QED
        BY <1>2, <1>4, <2>2, <2>3, <4>1, <4>2 DEF Single
    <3> QED
      BY <1>6, <3>1, <3>2
  <2>6. Wanted(pend, ctl.armed, authFault)'
    <3>1. \A j \in DOMAIN pend :
            ~pend[j].arm /\ pend[j].st \in {"queued", "sent", "failed"} =>
              ~pend'[j].arm /\ pend'[j].st \in {"queued", "sent", "failed"}
      BY <1>6, <2>3
    <3> QED
      BY <1>4, <1>8, <2>2, <2>3, <3>1 DEF Wanted
  <2>7. Agreed(pend, ctl.armed, authFault)'
    <3>1. \A j \in DOMAIN pend : pend'[j].arm = pend[j].arm /\ pend'[j].st # "sent"
      BY <1>6, <2>3
    <3>2. pend' # <<>>
      BY <1>2, <2>3
    <3>3. CASE st = "failed"
      <4>1. \A j \in DOMAIN pend :
              pend'[j] = pend[j] \/ (pend'[j].st = "failed" /\ ("slow" \in ops.scene.trouble \/ ~wire.up))
        BY <1>6, <2>3, <3>3
      <4> QED
        BY <1>2, <1>4, <1>5, <2>2, <2>3, <3>1, <3>2, <4>1 DEF Agreed, Matched
    <3>4. CASE st = "ok"
      <4>1. "slow" \notin ops.scene.trouble => ~b
        BY <1>2, <1>6, <2>2, <3>4 DEF Agreed
      <4>2. \A j \in DOMAIN pend :
              pend'[j] = pend[j] \/ (j = i /\ pend[j].st = "acked" /\ pend'[j].st = "ok")
        BY <1>6, <2>3, <3>4
      <4> QED
        BY <1>2, <1>4, <1>5, <2>2, <2>3, <3>1, <3>2, <4>1, <4>2 DEF Agreed, Matched
    <3> QED
      BY <1>6, <3>3, <3>4
  <2> QED
    BY <1>4, <2>2, <2>3, <2>4, <2>5, <2>6, <2>7
<1>10. Tidy'
  BY <1>9 DEF Tidy
<1> QED
  BY <1>2, <1>3, <1>5, <1>7, <1>10, WorkerFrame

(* A step of the worker.                                                   *)
LEMMA WorkerKeeps ==
  ASSUME Inv, Worker
  PROVE  Inv'
BY SendKeeps, AckKeeps, EndKeeps DEF Worker

-----------------------------------------------------------------------------
(* The server and the link.                                                *)

\* What every step does to the server: the servo goes on, a fault comes up in the
\* generation that is armed and goes only with it, and with no time-outs that
\* generation does not end while the controller wants it.
Serves ==
  /\ rt' \in Servers /\ rt.last <= rt'.last /\ rt.epoch <= rt'.epoch
  /\ rt'.armed => rt'.epoch >= 1
  /\ rt'.faulted => rt'.armed /\ rt.armed /\ rt'.epoch = rt.epoch
  /\ wire'.up /\ rt'.faulted => "fault" \in ops.scene.trouble
  /\ rt'.armed /\ rt'.epoch = rt.epoch => rt.armed /\ (rt.faulted => rt'.faulted)
  /\ "slow" \notin ops.scene.trouble /\ ctl.armed /\ rt.armed =>
       rt'.armed /\ rt'.epoch = rt.epoch

(* It may do nothing.                                                      *)
LEMMA ServesStill ==
  ASSUME Inv, rt' = rt, wire'.up = wire.up
  PROVE  Serves
<1>1. rt \in Servers /\ ServerOK
  BY DEF Inv, ServerOK
<1>2. rt.last \in Nat /\ rt.epoch \in Nat
  BY <1>1 DEF Servers
<1> QED
  BY <1>1, <1>2 DEF Serves, ServerOK

(* A generation that has met a fault stays so.                             *)
LEMMA SpentLater ==
  ASSUME Inv, Serves
  PROVE  \A x \in Int : Spent(x) => /\ 1 <= x /\ x <= rt'.epoch
                                    /\ rt'.epoch = x /\ rt'.armed => rt'.faulted
<1>1. rt.epoch \in Nat /\ rt'.epoch \in Nat /\ rt.epoch <= rt'.epoch
  BY DEF Inv, ServerOK, Serves, Servers
<1>2. ASSUME NEW x \in Int, Spent(x), rt'.epoch = x, rt'.armed PROVE rt'.faulted
  <2>1. rt'.epoch = rt.epoch
    BY <1>1, <1>2 DEF Spent
  <2> QED
    BY <1>2, <2>1 DEF Serves, Spent
<1> QED
  BY <1>1, <1>2 DEF Spent

(* What the packets say stays true, and the last one shows what is on.     *)
LEMMA LinkLater ==
  ASSUME Inv, UNCHANGED supVars, link' \in Links, link'.latest = link.latest,
         link'.inbox = link.inbox, Serves
  PROVE  LinkOK' /\ Shown'
<1>1. rt.last \in Nat /\ rt'.last \in Nat /\ rt.last <= rt'.last
  BY DEF Inv, ServerOK, Serves, Servers
<1>2. ops' = ops /\ trk' = trk
  BY DEF supVars
<1>3. /\ link'.epoch \in Nat /\ link'.fresh \in BOOLEAN /\ link'.latched \in BOOLEAN
      /\ link'.inbox \in Seq(Packets)
  BY DEF Links
<1>4. Truthful(link.latest) /\ \A i \in DOMAIN link.inbox : Truthful(link.inbox[i])
  BY DEF Inv, LinkOK
<1>5. \A p : Truthful(p) => /\ p \in Packets /\ p.last <= rt'.last /\ p.epoch \in Int
                            /\ Warned(p)
  BY <1>1 DEF Truthful, Packets
<1>6. ASSUME NEW p, Truthful(p), p.faulted
      PROVE  /\ "fault" \in ops.scene.trouble /\ 1 <= p.epoch /\ p.epoch <= rt'.epoch
             /\ rt'.epoch = p.epoch /\ rt'.armed => rt'.faulted
  <2>1. Spent(p.epoch) /\ "fault" \in ops.scene.trouble /\ p.epoch \in Int
    BY <1>5, <1>6 DEF Warned
  <2>2. \A x \in Int : Spent(x) => /\ 1 <= x /\ x <= rt'.epoch
                                   /\ rt'.epoch = x /\ rt'.armed => rt'.faulted
    BY SpentLater
  <2> QED
    BY <2>1, <2>2, Zenon
<1>7. LinkOK'
  <2>1. Truthful(link.latest)'
    BY <1>2, <1>4, <1>5, <1>6 DEF Truthful, Warned, Spent
  <2>2. (\A i \in DOMAIN link.inbox : Truthful(link.inbox[i]))'
    BY <1>2, <1>4, <1>5, <1>6 DEF Truthful, Warned, Spent
  <2> QED
    BY <1>3, <2>1, <2>2 DEF LinkOK
<1>8. ASSUME NEW x, Warned(x), Shows(x, link.latest), OneFault, x.faulted,
             x.epoch = rt'.epoch, rt'.faulted
      PROVE  link.latest.faulted
  <2>1. rt'.epoch = rt.epoch /\ rt.armed
    BY <1>8 DEF Serves
  <2>2. rt.faulted
    BY <1>8, <2>1 DEF Warned, Spent
  <2> QED
    BY <1>8, <2>1, <2>2 DEF Shows
<1>9. Warned(trk) /\ Shows(trk, link.latest)
  <2>1. Proven
    BY WholeIs DEF Inv
  <2> QED
    BY <2>1 DEF Proven, Inv, Shown
<1>10. \A i \in DOMAIN link.inbox : Warned(link.inbox[i]) /\ Shows(link.inbox[i], link.latest)
  BY <1>4 DEF Truthful, Inv, Shown
<1>11. Shown'
  <2>1. Shows(trk, link.latest)'
    BY <1>2, <1>8, <1>9 DEF Shows, OneFault
  <2>2. (\A i \in DOMAIN link.inbox : Shows(link.inbox[i], link.latest))'
    BY <1>2, <1>8, <1>10 DEF Shows, OneFault
  <2> QED
    BY <2>1, <2>2 DEF Shown
<1> QED
  BY <1>7, <1>11

(* A packet that arrives now is true now.                                  *)
LEMMA ReceivedOK ==
  ASSUME Inv, wire.up
  PROVE  /\ Received \in Links /\ Truthful(Received.latest) /\ Received.epoch = link.epoch
         /\ \A i \in DOMAIN Received.inbox : Truthful(Received.inbox[i])
         /\ \A x : Shows(x, Received.latest)
<1> DEFINE p == Packet
           s == Append(link.inbox, p)
           b == \E i \in DOMAIN pend : pend[i].st = "acked"
<1>1. p \in Packets /\ p.last = rt.last /\ p.faulted = rt.faulted /\ p.epoch = rt.epoch
  <2>1. rt \in Servers
    BY DEF Inv, ServerOK
  <2> QED
    BY <2>1, Bounds DEF Packet, Packets, Servers
<1>2. Truthful(p)
  <2>1. rt.last \in Nat /\ rt.epoch \in Nat
    BY DEF Inv, ServerOK, Servers
  <2>2. Warned(p)
    BY <1>1, <2>1 DEF Warned, Spent, Inv, ServerOK
  <2> QED
    BY <1>1, <2>1, <2>2 DEF Truthful
<1> HIDE DEF p
<1>3. /\ link \in Links /\ link.inbox \in Seq(Packets)
      /\ \A i \in DOMAIN link.inbox : Truthful(link.inbox[i])
  BY DEF Inv, LinkOK
<1>4. s \in Seq(Packets) /\ \A i \in DOMAIN s : s[i] = p \/ (i \in DOMAIN link.inbox /\ s[i] = link.inbox[i])
  BY <1>1, <1>3
<1>5. \A i \in DOMAIN s : Truthful(s[i])
  BY <1>2, <1>3, <1>4
<1>6. b \in BOOLEAN
  OBVIOUS
<1>7. Received = [link EXCEPT !.latest = p, !.inbox = s, !.fresh = TRUE, !.later = b]
  BY DEF Received, p
<1> HIDE DEF s, b
<1>8. /\ Received \in Links /\ Received.latest = p /\ Received.inbox = s
      /\ Received.epoch = link.epoch
  BY <1>1, <1>3, <1>4, <1>6, <1>7 DEF Links
<1>9. \A x : Shows(x, p)
  BY <1>1 DEF Shows
<1> QED
  BY <1>2, <1>5, <1>8, <1>9

(* What the leg under way, or the one whose fault was seen, rests on.      *)
LEMMA LegLater ==
  ASSUME Inv, UNCHANGED supVars, Serves
  PROVE  /\ \A e \in Exec : Unf(led[e]) /\ led[e].epoch # None => Dated(led[e].epoch)'
         /\ ctl.plan # 0 => Carries(led[ctl.plan], ctl.running, trk)'
<1>1. Calm /\ Proven /\ ServerOK
  BY RestIs, WholeIs DEF Inv
<1>2. ops' = ops /\ trk' = trk /\ led' = led /\ ctl' = ctl
  BY DEF supVars
<1>3. ctl.running => ctl.armed /\ ctl.plan # 0
  BY <1>1 DEF Calm, OneSource
<1>4. ASSUME NEW e \in Exec, Unf(led[e]), led[e].epoch # None
      PROVE  Dated(led[e].epoch)'
  <2>1. ctl.plan = e /\ led[e].phase # "ADMITTED" /\ e # 0
    BY <1>1, <1>4, Bounds DEF Calm, Ledger, Sound, Exec
  <2>2. ctl.armed
    BY <1>1, <1>3, <2>1 DEF Calm, Carries
  <2>3. Dated(led[e].epoch)
    BY <1>1, <1>4 DEF Proven
  <2> QED
    BY <1>2, <2>2, <2>3 DEF Dated, Serves
<1>5. ASSUME ctl.plan # 0 PROVE Carries(led[ctl.plan], ctl.running, trk)'
  <2>1. Carries(led[ctl.plan], ctl.running, trk)
    BY <1>1, <1>5 DEF Calm
  <2>2. ASSUME ctl.running, Excuse(trk), OneFault
        PROVE  rt'.faulted /\ trk.faulted /\ trk.epoch = rt'.epoch
    <3>1. rt.faulted /\ trk.faulted /\ trk.epoch = rt.epoch /\ rt.armed /\ ctl.armed
      BY <1>1, <1>3, <2>2 DEF Excuse, ServerOK
    <3>2. "slow" \notin ops.scene.trouble
      BY <1>1, <2>2, <3>1 DEF Proven, Warned, OneFault
    <3> QED
      BY <3>1, <3>2 DEF Serves
  <2> QED
    BY <1>2, <2>1, <2>2 DEF Carries, Runs, Excuse, OneFault
<1> QED
  BY <1>4, <1>5

(* What a step of the server or the link keeps.                            *)
LEMMA ServerFrame ==
  ASSUME Inv, UNCHANGED supVars, WireOK', wire'.cmd = wire.cmd, Serves,
         link' \in Links, LinkOK', Shown', Tidy'
  PROVE  Inv'
<1>1. UNCHANGED <<owner, sess, led, ctl, pend, authFault, trk, mark, auth, ops>>
  BY DEF supVars
<1>2. World' = World
  BY <1>1 DEF World
<1>3. Rest(World)'
  <2>1. Calm
    BY RestIs DEF Inv
  <2>2. ctl'.plan # 0 => Carries(led[ctl.plan], ctl.running, trk)'
    BY <1>1, LegLater
  <2>3. Calm'
    BY <1>1, <1>2, <2>1, <2>2 DEF Calm, Unf, Live, Ledger, Sound
  <2> QED
    BY <2>3, RestIs
<1>4. Proven'
  <2>1. Proven
    BY WholeIs DEF Inv
  <2>2. /\ trk.candidate \in Int /\ trk.confirmed \in Int /\ trk.epoch \in Int
        /\ rt.last \in Int /\ rt'.last \in Int
    BY DEF Inv, ServerOK, Serves, Rest, Quiet, Mid, Worlds, World, Trks, Servers
  <2>3. \A e \in Exec : rt.last >= e => rt'.last >= e
    BY <2>2, Bounds DEF Exec, Serves
  <2>4. Warned(trk)'
    <3>1. ASSUME trk.faulted
          PROVE  /\ "fault" \in ops.scene.trouble /\ 1 <= trk.epoch /\ trk.epoch <= rt'.epoch
                 /\ rt'.epoch = trk.epoch /\ rt'.armed => rt'.faulted
      <4>1. Spent(trk.epoch) /\ "fault" \in ops.scene.trouble
        BY <2>1, <3>1 DEF Proven, Warned
      <4>2. \A x \in Int : Spent(x) => /\ 1 <= x /\ x <= rt'.epoch
                                       /\ rt'.epoch = x /\ rt'.armed => rt'.faulted
        BY SpentLater
      <4> QED
        BY <2>2, <4>1, <4>2, Zenon
    <3> QED
      BY <1>1, <3>1 DEF Warned, Spent
  <2>5. (\A e \in Exec : Unf(led[e]) /\ led[e].epoch # None => Dated(led[e].epoch))'
    <3>1. ASSUME NEW e \in Exec, Unf(led[e]), led[e].epoch # None PROVE Dated(led[e].epoch)'
      BY <3>1, LegLater
    <3> QED
      BY <1>1, <3>1 DEF Unf, Live
  <2>6. (trk.candidate <= rt.last /\ trk.confirmed <= rt.last)'
    BY <1>1, <2>1, <2>2 DEF Proven, Serves
  <2>7. (\A e \in Exec : Prov(led[e]) => rt.last >= e)'
    BY <1>1, <2>1, <2>3 DEF Proven, Prov
  <2> QED
    BY <2>4, <2>5, <2>6, <2>7 DEF Proven
<1>5. Whole(World)'
  BY <1>4, WholeIs
<1>6. Clients' /\ Idle' /\ ~ctl'.stopped
  BY <1>1 DEF Inv, Clients, Idle, Unf, Live
<1>7. ServerOK'
  BY <1>1 DEF Serves, ServerOK
<1> QED
  BY <1>3, <1>5, <1>6, <1>7 DEF Inv

(* The requests keep their order when the server is as hot as it was.      *)
LEMMA SameHeat ==
  ASSUME Inv, UNCHANGED supVars, wire'.reqs = wire.reqs, wire'.acks = wire.acks,
         wire'.up = wire.up, rt'.armed = rt.armed, rt'.epoch = rt.epoch,
         link'.epoch = link.epoch
  PROVE  Tidy'
<1>1. Tidy
  BY WholeIs DEF Inv
<1>2. pend' = pend /\ ctl' = ctl /\ authFault' = authFault /\ ops' = ops
  BY DEF supVars
<1>3. Hot' = Hot /\ OneTrouble' = OneTrouble
  BY <1>2 DEF Hot, OneTrouble
<1>4. (Word(pend) => Word(pend)') /\ (Single(pend) => Single(pend)')
  BY <1>2, <1>3 DEF Word, Single
<1>5. Wanted(pend, ctl.armed, authFault) => Wanted(pend, ctl.armed, authFault)'
  BY <1>2, <1>3 DEF Wanted
<1>6. Agreed(pend, ctl.armed, authFault) => Agreed(pend, ctl.armed, authFault)'
  BY <1>2 DEF Agreed, Matched
<1> QED
  BY <1>1, <1>2, <1>3, <1>4, <1>5, <1>6 DEF Tidy

(* The servo, the notice of a fault and the state packets.                 *)
LEMMA ServoKeeps ==
  ASSUME Inv, \/ \E accepted \in BOOLEAN : RtTakes(accepted)
              \/ RtFaults \/ NoticeArrives \/ RtPublishes \/ StateStale
  PROVE  Inv'
<1>1. /\ wire \in Wires /\ rt \in Servers /\ link \in Links /\ (~wire.up => wire.reqs = <<>>)
      /\ ServerOK
  BY DEF Inv, WireOK, ServerOK
<1>10. rt.epoch \in Nat
  BY <1>1 DEF Servers
<1>2. wire.cmd \in Cmds /\ rt.last \in 0..MaxExec
  BY <1>1 DEF Wires, Servers
<1>3. wire.cmd.mark \in 0..MaxExec
  BY <1>2 DEF Cmds
<1>4. UNCHANGED supVars
  BY DEF RtTakes, RtFaults, NoticeArrives, RtPublishes, StateStale
<1>5. CASE \E accepted \in BOOLEAN : RtTakes(accepted)
  <2>1. PICK accepted \in BOOLEAN : RtTakes(accepted)
    BY <1>5
  <2>2. /\ wire.cmd.mark > rt.last /\ link' = link /\ rt.armed /\ ~rt.faulted
        /\ accepted \/ "fault" \in ops.scene.trouble
        /\ rt' = [rt EXCEPT !.last = wire.cmd.mark, !.faulted = ~accepted]
        /\ wire' = [wire EXCEPT !.notice = wire.notice \/ ~accepted]
    BY <2>1, Zenon DEF RtTakes
  <2>10. (~accepted) \in BOOLEAN /\ (wire.notice \/ ~accepted) \in BOOLEAN
    OBVIOUS
  <2>7. PICK broke \in BOOLEAN : /\ broke <=> ~accepted
                               /\ rt' = [rt EXCEPT !.last = wire.cmd.mark, !.faulted = broke]
    BY <2>2, <2>10, Zenon
  <2>11. /\ rt' \in Servers /\ rt'.armed = rt.armed /\ rt'.last = wire.cmd.mark
         /\ rt'.epoch = rt.epoch /\ rt'.faulted = broke
    BY <1>1, <1>3, <2>7 DEF Servers
  <2>8. rt'.faulted => "fault" \in ops.scene.trouble
    BY <2>2, <2>7, <2>11, Zenon
  <2>9. wire.cmd.mark > rt.last
    BY <2>2, Zenon
  <2>3. rt' \in Servers /\ rt'.armed = rt.armed /\ rt.last <= rt'.last
    BY <1>2, <1>3, <2>9, <2>11, Bounds
  <2>4. /\ wire' \in Wires /\ wire'.reqs = wire.reqs /\ wire'.acks = wire.acks
        /\ wire'.up = wire.up /\ wire'.cmd = wire.cmd
    BY <1>1, <2>2, <2>10 DEF Wires
  <2>6. Serves
    <3>1. rt.armed /\ ~rt.faulted
      BY <2>2, Zenon
    <3> QED
      BY <1>1, <1>10, <2>3, <2>8, <2>11, <3>1 DEF Serves, ServerOK
  <2>5. LinkOK' /\ Shown' /\ Tidy' /\ WireOK'
    BY <1>1, <1>4, <2>2, <2>4, <2>6, <2>11, LinkLater, SameHeat DEF WireOK
  <2> QED
    BY <1>1, <1>4, <2>2, <2>4, <2>5, <2>6, ServerFrame
<1>6. CASE RtFaults
  <2>1. /\ rt' = [rt EXCEPT !.faulted = TRUE] /\ wire' = [wire EXCEPT !.notice = TRUE]
        /\ link' = link /\ rt.armed /\ ~rt.faulted /\ "fault" \in ops.scene.trouble
    BY <1>6 DEF RtFaults
  <2>10. /\ rt' \in Servers /\ rt'.armed = rt.armed /\ rt'.last = rt.last
         /\ rt'.epoch = rt.epoch /\ rt'.faulted = TRUE
    BY <1>1, <2>1 DEF Servers
  <2>2. rt' \in Servers /\ rt'.armed = rt.armed /\ rt.last <= rt'.last
    BY <1>2, <2>10, Bounds
  <2>3. /\ wire' \in Wires /\ wire'.reqs = wire.reqs /\ wire'.acks = wire.acks
        /\ wire'.up = wire.up /\ wire'.cmd = wire.cmd
    BY <1>1, <2>1 DEF Wires
  <2>5. Serves
    BY <1>1, <1>10, <2>1, <2>2, <2>10 DEF Serves, ServerOK
  <2>4. LinkOK' /\ Shown' /\ Tidy' /\ WireOK'
    BY <1>1, <1>4, <2>1, <2>3, <2>5, <2>10, LinkLater, SameHeat DEF WireOK
  <2> QED
    BY <1>1, <1>4, <2>1, <2>3, <2>4, <2>5, ServerFrame
<1>7. CASE NoticeArrives
  <2>1. /\ rt' = rt /\ wire' = [wire EXCEPT !.notice = FALSE]
        /\ link' = [link EXCEPT !.latched = TRUE]
    BY <1>7 DEF NoticeArrives
  <2>3. /\ wire' \in Wires /\ wire'.reqs = wire.reqs /\ wire'.acks = wire.acks
        /\ wire'.up = wire.up /\ wire'.cmd = wire.cmd
    BY <1>1, <2>1 DEF Wires
  <2>2. Serves
    BY <2>1, <2>3, ServesStill
  <2>4. /\ link' \in Links /\ link'.latest = link.latest /\ link'.inbox = link.inbox
        /\ link'.epoch = link.epoch
    BY <1>1, <2>1 DEF Links
  <2>5. LinkOK' /\ Shown' /\ Tidy' /\ WireOK'
    BY <1>1, <1>4, <2>1, <2>2, <2>3, <2>4, LinkLater, SameHeat DEF WireOK
  <2> QED
    BY <1>1, <1>4, <2>1, <2>2, <2>3, <2>4, <2>5, ServerFrame
<1>8. CASE RtPublishes
  <2>1. rt' = rt /\ wire' = wire /\ link' = Received /\ wire.up
    BY <1>8 DEF RtPublishes
  <2>2. Serves
    BY <2>1, ServesStill
  <2>3. LinkOK' /\ Shown' /\ link' \in Links /\ link'.epoch = link.epoch
    <3>1. /\ link' \in Links /\ Truthful(link'.latest) /\ link'.epoch = link.epoch
          /\ \A i \in DOMAIN link'.inbox : Truthful(link'.inbox[i])
          /\ \A x : Shows(x, link'.latest)
      BY <2>1, ReceivedOK
    <3>2. ops' = ops /\ trk' = trk
      BY <1>4 DEF supVars
    <3>3. /\ link'.epoch \in Nat /\ link'.fresh \in BOOLEAN /\ link'.latched \in BOOLEAN
          /\ link'.inbox \in Seq(Packets)
      BY <3>1 DEF Links
    <3>4. Truthful(link.latest)' /\ (\A i \in DOMAIN link.inbox : Truthful(link.inbox[i]))'
      BY <2>1, <3>1, <3>2 DEF Truthful, Warned, Spent
    <3>5. Shown'
      BY <2>1, <3>1, <3>2 DEF Shown, Shows, OneFault
    <3> QED
      BY <3>1, <3>3, <3>4, <3>5 DEF LinkOK
  <2>4. Tidy' /\ WireOK'
    BY <1>1, <1>4, <2>1, <2>3, SameHeat DEF WireOK
  <2> QED
    BY <1>1, <1>4, <2>1, <2>2, <2>3, <2>4, ServerFrame
<1>9. CASE StateStale
  <2>1. rt' = rt /\ wire' = wire /\ link' = [link EXCEPT !.fresh = FALSE]
    BY <1>9 DEF StateStale
  <2>2. Serves
    BY <2>1, ServesStill
  <2>3. /\ link' \in Links /\ link'.latest = link.latest /\ link'.inbox = link.inbox
        /\ link'.epoch = link.epoch
    BY <1>1, <2>1 DEF Links
  <2>4. LinkOK' /\ Shown' /\ Tidy' /\ WireOK'
    BY <1>1, <1>4, <2>1, <2>2, <2>3, LinkLater, SameHeat DEF WireOK
  <2> QED
    BY <1>1, <1>4, <2>1, <2>2, <2>3, <2>4, ServerFrame
<1> QED
  BY <1>5, <1>6, <1>7, <1>8, <1>9

(* The server handles a request.                                           *)
LEMMA HandleKeeps ==
  ASSUME Inv, ServerHandles
  PROVE  Inv'
<1> DEFINE arm == Head(wire.reqs)
           rest == Tail(wire.reqs)
           bumps == arm /\ ~rt.armed /\ ~rt.faulted
           after == IF arm
                    THEN [rt EXCEPT !.armed = rt.armed \/ bumps,
                                    !.epoch = IF bumps THEN rt.epoch + 1 ELSE rt.epoch]
                    ELSE [rt EXCEPT !.armed = FALSE, !.faulted = FALSE, !.stop = rt.stop + 1]
           ack == [armed |-> after.armed, faulted |-> after.faulted,
                   num |-> IF ~arm THEN after.stop ELSE IF after.faulted THEN 0 ELSE after.epoch]
<1>1. /\ wire \in Wires /\ rt \in Servers /\ link \in Links /\ wire.up /\ wire.reqs # <<>>
      /\ Tidy /\ ServerOK
  <2>1. wire.up /\ wire.reqs # <<>>
    BY Zenon DEF ServerHandles
  <2> QED
    BY <2>1, WholeIs DEF Inv, WireOK, ServerOK
<1>2. /\ UNCHANGED supVars /\ link' = link /\ rt' = after
      /\ wire' = [wire EXCEPT !.reqs = rest, !.acks = Append(wire.acks, ack)]
  BY DEF ServerHandles
<1>3. wire.reqs \in Seq(BOOLEAN) /\ wire.acks \in Seq(Acks) /\ rt.last \in 0..MaxExec
  BY <1>1 DEF Wires, Servers
<1>4. /\ arm \in BOOLEAN /\ arm = wire.reqs[1] /\ rest \in Seq(BOOLEAN)
      /\ Len(wire.reqs) \in Nat \ {0} /\ Len(rest) = Len(wire.reqs) - 1
      /\ \A i \in 1..Len(rest) : rest[i] = wire.reqs[i + 1]
  <2>1. Len(wire.reqs) \in Nat \ {0}
    BY <1>1, <1>3
  <2>2. arm = wire.reqs[1] /\ wire.reqs[1] \in BOOLEAN
    BY <1>1, <1>3, <2>1
  <2>3. /\ rest \in Seq(BOOLEAN) /\ Len(rest) = Len(wire.reqs) - 1
        /\ \A i \in 1..Len(rest) : rest[i] = wire.reqs[i + 1]
    BY <1>1, <1>3, HeadTailProperties, Zenon
  <2> QED
    BY <2>1, <2>2, <2>3, Zenon
<1> HIDE DEF arm, rest
<1>5. bumps \in BOOLEAN
  OBVIOUS
<1>6. /\ after \in Servers /\ after.last = rt.last
      /\ ~arm => ~after.armed /\ ~after.faulted /\ after.epoch = rt.epoch
      /\ arm /\ bumps => after.armed /\ ~after.faulted /\ after.epoch = rt.epoch + 1
      /\ arm /\ ~bumps => after.armed = rt.armed /\ after.faulted = rt.faulted /\ after.epoch = rt.epoch
  <2>1. CASE arm
    <3>1. CASE bumps
      <4>1. after = [rt EXCEPT !.armed = TRUE, !.epoch = rt.epoch + 1] /\ ~rt.faulted
        BY <2>1, <3>1
      <4>2. rt.epoch + 1 \in Nat
        BY <1>1 DEF Servers
      <4> HIDE DEF after, bumps
      <4> QED
        BY <1>1, <2>1, <3>1, <4>1, <4>2 DEF Servers
    <3>2. CASE ~bumps
      <4>1. after = [rt EXCEPT !.armed = rt.armed, !.epoch = rt.epoch]
        <5>1. rt.armed \in BOOLEAN
          BY <1>1 DEF Servers
        <5>2. (rt.armed \/ bumps) = rt.armed
          BY <3>2, <5>1
        <5> QED
          BY <2>1, <3>2, <5>2
      <4> HIDE DEF after, bumps
      <4> QED
        BY <1>1, <2>1, <3>2, <4>1 DEF Servers
    <3> QED
      BY <3>1, <3>2
  <2>2. CASE ~arm
    <3>1. rt.stop + 1 \in Nat
      BY <1>1 DEF Servers
    <3>2. after = [rt EXCEPT !.armed = FALSE, !.faulted = FALSE, !.stop = rt.stop + 1]
      BY <2>2
    <3> HIDE DEF after, bumps
    <3> QED
      BY <1>1, <2>2, <3>1, <3>2 DEF Servers
  <2> QED
    BY <1>4, <2>1, <2>2
<1> HIDE DEF after
<1>7. ack \in Acks /\ (arm /\ ~ack.faulted => ack.num = after.epoch) /\ ack.armed = after.armed
  <2>1. /\ after.armed \in BOOLEAN /\ after.faulted \in BOOLEAN /\ after.stop \in Nat
        /\ after.epoch \in Nat
    BY <1>6 DEF Servers
  <2> QED
    BY <2>1 DEF Acks
<1> HIDE DEF ack
<1>16. arm /\ rt.armed => ~bumps
  OBVIOUS
<1>17. arm /\ ~bumps => rt.armed
  BY <1>1 DEF ServerOK
<1> HIDE DEF bumps
<1>8. /\ Append(wire.acks, ack) \in Seq(Acks)
      /\ Len(Append(wire.acks, ack)) = Len(wire.acks) + 1
  BY <1>3, <1>7
<1>9. /\ wire' \in Wires /\ wire'.reqs = rest /\ wire'.acks = Append(wire.acks, ack)
      /\ wire'.up /\ wire.up /\ wire'.cmd = wire.cmd
  BY <1>1, <1>2, <1>4, <1>8 DEF Wires
<1>10. Hot' => Hot
  <2>1. CASE rest = <<>>
    <3>1. Len(wire.reqs) = 1
      BY <1>4, <2>1
    <3>2. Hot = arm
      BY <1>1, <1>4, <3>1 DEF Hot
    <3>3. Hot' = rt'.armed
      BY <1>9, <2>1 DEF Hot
    <3> QED
      BY <1>2, <1>4, <1>6, <3>2, <3>3
  <2>2. CASE rest # <<>>
    <3>1. Len(rest) \in Nat \ {0}
      BY <1>4, <2>2
    <3> DEFINE n == Len(rest)
               m == Len(wire.reqs)
    <3>2. n \in Nat \ {0} /\ m \in Nat \ {0} /\ n = m - 1
      BY <1>4, <3>1
    <3>3. ASSUME NEW a \in Nat \ {0}, NEW b \in Nat \ {0}, a = b - 1
          PROVE  a \in 1..a /\ a + 1 = b
      BY <3>3
    <3>4. Len(rest) \in 1..Len(rest) /\ Len(rest) + 1 = Len(wire.reqs)
      BY <3>2, <3>3, Zenon
    <3>5. rest[Len(rest)] = wire.reqs[Len(rest) + 1]
      BY <1>4, <3>4, Zenon
    <3>6. rest[Len(rest)] = wire.reqs[Len(wire.reqs)]
      BY <3>4, <3>5, Zenon
    <3> QED
      BY <1>1, <1>9, <2>2, <3>6 DEF Hot
  <2> QED
    BY <2>1, <2>2
<1>11. pend' = pend /\ ctl' = ctl /\ authFault' = authFault /\ ops' = ops
  BY <1>2 DEF supVars
<1>14. Serves
  <2>1. rt.last <= rt'.last /\ rt' \in Servers /\ rt.epoch \in Nat
    BY <1>1, <1>2, <1>3, <1>6, Bounds DEF Servers
  <2>2. ASSUME "slow" \notin ops.scene.trouble, ctl.armed PROVE arm
    <3>1. Single(pend) /\ Agreed(pend, ctl.armed, authFault)
      BY <1>1, <2>2 DEF Tidy, OneTrouble
    <3>2. PICK i \in DOMAIN pend : pend[i].st = "sent"
      BY <1>1, <2>2, <3>1 DEF Single
    <3>3. wire.reqs = <<pend[i].arm>>
      BY <1>1, <2>2, <3>1, <3>2 DEF Single
    <3>4. wire.reqs[1] = pend[i].arm /\ pend[i].arm
      BY <2>2, <3>1, <3>3 DEF Agreed
    <3> QED
      BY <1>4, <3>4
  <2>3. CASE ~arm
    BY <1>1, <1>2, <1>6, <2>1, <2>2, <2>3 DEF Serves, ServerOK
  <2>4. CASE arm /\ bumps
    BY <1>1, <1>2, <1>6, <1>16, <2>1, <2>4 DEF Serves, ServerOK
  <2>5. CASE arm /\ ~bumps
    BY <1>1, <1>2, <1>6, <1>17, <2>1, <2>5 DEF Serves, ServerOK
  <2> QED
    BY <2>3, <2>4, <2>5
<1>12. ASSUME OneTrouble'
       PROVE  (/\ ctl.stopped => ~ctl.armed
               /\ Queue(pend, ctl.armed) /\ Word(pend) /\ Single(pend)
               /\ Wanted(pend, ctl.armed, authFault) /\ Agreed(pend, ctl.armed, authFault))'
  <2>1. OneTrouble
    BY <1>11, <1>12 DEF OneTrouble
  <2>2. /\ Queue(pend, ctl.armed) /\ Word(pend) /\ Single(pend)
        /\ Wanted(pend, ctl.armed, authFault) /\ (ctl.stopped => ~ctl.armed)
        /\ Agreed(pend, ctl.armed, authFault)
    BY <1>1, <2>1 DEF Tidy
  <2>3. Word(pend)'
    BY <1>9, <1>10, <1>11, <2>2 DEF Word
  <2>4. Single(pend)'
    <3>1. ASSUME "slow" \notin ops.scene.trouble
          PROVE  /\ rest = <<>> /\ wire.acks = <<>>
                 /\ \E i \in DOMAIN pend : pend[i].st = "sent" /\ pend[i].arm = arm
      <4>1. PICK i \in DOMAIN pend : pend[i].st = "sent"
        BY <1>1, <2>2, <3>1 DEF Single
      <4>2. wire.reqs = <<pend[i].arm>> /\ wire.acks = <<>>
        BY <1>1, <2>2, <3>1, <4>1 DEF Single
      <4>3. Len(wire.reqs) = 1 /\ wire.reqs[1] = pend[i].arm
        BY <4>2
      <4>4. rest = <<>>
        BY <1>4, <4>3
      <4> QED
        BY <1>4, <4>1, <4>2, <4>3, <4>4
    <3>2. ASSUME "slow" \notin ops.scene.trouble PROVE Len(wire'.acks) = 1
      <4>1. Len(wire.acks) = 0
        BY <3>1, <3>2
      <4> QED
        BY <1>8, <1>9, <4>1
    <3>3. ASSUME "slow" \notin ops.scene.trouble, NEW j \in DOMAIN pend, ~pend[j].arm,
                 pend[j].st \in {"acked", "ok"}
          PROVE  ~rt'.armed
      <4>1. PICK i \in DOMAIN pend : pend[i].st = "sent" /\ pend[i].arm = arm
        BY <3>1, <3>3
      <4>2. i \in Nat /\ j \in Nat
        BY DEF Inv, Rest, Quiet, Mid, Worlds, World
      <4>3. i # j /\ pend[i].st \notin Answered
        BY <3>3, <4>1 DEF Answered
      <4>4. ~(i < j)
        BY <2>2, <3>3, <4>3 DEF Queue
      <4>5. j < i
        BY <4>2, <4>3, <4>4
      <4>6. ~arm
        BY <2>2, <3>3, <4>1, <4>5 DEF Queue
      <4> QED
        BY <1>2, <1>6, <4>6
    <3> QED
      BY <1>9, <1>11, <3>1, <3>2, <3>3 DEF Single
  <2>5. Wanted(pend, ctl.armed, authFault)'
    BY <1>10, <1>11, <2>2 DEF Wanted
  <2>6. Agreed(pend, ctl.armed, authFault)'
    <3> SUFFICES ASSUME "slow" \notin ops.scene.trouble PROVE Agreed(pend, ctl.armed, authFault)'
      BY <1>11 DEF Agreed
    <3>1. ctl.armed /\ Matched => Matched'
      BY <1>2, <1>14 DEF Matched, Serves
    <3>2. pend' # <<>>
      BY <1>1, <1>11, <2>2 DEF Single
    <3>3. ASSUME NEW i \in DOMAIN pend, pend[i].arm, pend[i].st = "sent",
                 NEW j \in DOMAIN wire'.acks, wire'.acks[j].armed, ~wire'.acks[j].faulted
          PROVE  rt'.armed /\ wire'.acks[j].num = rt'.epoch
      <4>1. wire.reqs = <<pend[i].arm>> /\ wire.acks = <<>>
        BY <1>1, <2>2, <3>3 DEF Single
      <4>2. wire.reqs[1] = pend[i].arm
        BY <4>1
      <4>3. wire'.acks = <<ack>>
        <5>1. Append(<<>>, ack) = <<ack>>
          OBVIOUS
        <5> QED
          BY <1>9, <4>1, <5>1
      <4>4. wire'.acks[j] = ack
        BY <3>3, <4>3
      <4> QED
        BY <1>2, <1>4, <1>7, <3>3, <4>2, <4>4
    <3> QED
      BY <1>2, <1>9, <1>11, <2>2, <3>1, <3>2, <3>3 DEF Agreed
  <2> QED
    BY <1>11, <2>2, <2>3, <2>4, <2>5, <2>6
<1>13. Tidy'
  BY <1>12 DEF Tidy
<1>15. WireOK' /\ LinkOK' /\ Shown'
  BY <1>1, <1>2, <1>9, <1>14, LinkLater DEF WireOK
<1> QED
  BY <1>1, <1>2, <1>9, <1>13, <1>14, <1>15, ServerFrame

(* The control session is lost.                                            *)
LEMMA DownKeeps ==
  ASSUME Inv, LinkDown
  PROVE  Inv'
<1>1. /\ wire \in Wires /\ rt \in Servers /\ link \in Links /\ wire.up /\ Tidy
      /\ "down" \in ops.scene.trouble /\ ServerOK
  BY WholeIs DEF Inv, WireOK, ServerOK, LinkDown
<1>2. /\ UNCHANGED supVars /\ link' = link
      /\ rt' = [rt EXCEPT !.faulted = rt.faulted \/ rt.armed]
      /\ wire' = [wire EXCEPT !.up = FALSE, !.reqs = <<>>, !.notice = TRUE]
  BY DEF LinkDown
<1>3. <<>> \in Seq(BOOLEAN) /\ rt.last \in 0..MaxExec
  BY <1>1 DEF Servers
<1>4. /\ rt' \in Servers /\ rt'.armed = rt.armed /\ rt'.last = rt.last
      /\ rt'.epoch = rt.epoch /\ (rt'.faulted <=> rt.faulted \/ rt.armed)
  <2> DEFINE b == rt.faulted \/ rt.armed
  <2>1. b \in BOOLEAN
    OBVIOUS
  <2>2. rt' = [rt EXCEPT !.faulted = b]
    BY <1>2
  <2> HIDE DEF b
  <2>3. /\ rt' \in Servers /\ rt'.armed = rt.armed /\ rt'.last = rt.last
        /\ rt'.epoch = rt.epoch /\ rt'.faulted = b
    BY <1>1, <2>1, <2>2 DEF Servers
  <2> QED
    BY <2>3 DEF b
<1>5. /\ wire' \in Wires /\ wire'.reqs = <<>> /\ wire'.acks = wire.acks
      /\ ~wire'.up /\ wire'.cmd = wire.cmd
  BY <1>1, <1>2, <1>3 DEF Wires
<1>6. pend' = pend /\ ctl' = ctl /\ authFault' = authFault /\ ops' = ops
  BY <1>2 DEF supVars
<1>7. Hot' = rt.armed /\ (wire.reqs = <<>> => Hot = rt.armed)
  BY <1>4, <1>5 DEF Hot
<1>8. ASSUME OneTrouble'
      PROVE  (/\ ctl.stopped => ~ctl.armed
              /\ Queue(pend, ctl.armed) /\ Word(pend) /\ Single(pend)
              /\ Wanted(pend, ctl.armed, authFault) /\ Agreed(pend, ctl.armed, authFault))'
  <2>1. OneTrouble /\ "slow" \notin ops.scene.trouble
    BY <1>1, <1>6, <1>8 DEF OneTrouble
  <2>2. /\ Queue(pend, ctl.armed) /\ Word(pend) /\ Single(pend)
        /\ Wanted(pend, ctl.armed, authFault) /\ (ctl.stopped => ~ctl.armed)
        /\ Agreed(pend, ctl.armed, authFault)
    BY <1>1, <2>1 DEF Tidy
  <2>3. /\ \A i \in DOMAIN pend : pend[i].st = "sent" =>
             \/ wire.reqs = <<pend[i].arm>> /\ wire.acks = <<>>
             \/ wire.reqs = <<>> /\ Len(wire.acks) = 1
        /\ (\A i \in DOMAIN pend : pend[i].st # "sent") => wire.reqs = <<>>
        /\ \A i \in DOMAIN pend : ~pend[i].arm /\ pend[i].st \in {"acked", "ok"} => ~rt.armed
    BY <1>1, <2>1, <2>2 DEF Single
  <2>4. Word(pend)'
    <3>1. ASSUME NEW i \in DOMAIN pend, ~pend[i].arm, pend[i].st = "sent"
          PROVE  ~rt.armed \/ wire.acks = <<>>
      BY <1>1, <1>7, <2>2, <2>3, <3>1 DEF Word
    <3> QED
      BY <1>5, <1>6, <1>7, <2>3, <3>1 DEF Word
  <2>5. Single(pend)'
    BY <1>5 DEF Single
  <2>6. Wanted(pend, ctl.armed, authFault)'
    <3>1. CASE wire.reqs = <<>>
      BY <1>6, <1>7, <2>2, <3>1 DEF Wanted
    <3>2. CASE wire.reqs # <<>>
      <4>1. PICK i \in DOMAIN pend : pend[i].st = "sent" /\ wire.reqs = <<pend[i].arm>>
        BY <2>3, <3>2
      <4>2. Hot = pend[i].arm
        <5>1. Len(wire.reqs) = 1 /\ wire.reqs[1] = pend[i].arm
          BY <4>1
        <5> QED
          BY <3>2, <5>1 DEF Hot
      <4>3. CASE pend[i].arm
        BY <1>6, <2>2, <4>2, <4>3 DEF Wanted
      <4>4. CASE ~pend[i].arm
        BY <1>6, <4>1, <4>4 DEF Wanted
      <4> QED
        BY <4>3, <4>4
    <3> QED
      BY <3>1, <3>2
  <2>7. Agreed(pend, ctl.armed, authFault)'
    BY <1>1, <1>2, <1>4, <1>5, <1>6, <2>2 DEF Agreed, Matched
  <2> QED
    BY <1>6, <2>2, <2>4, <2>5, <2>6, <2>7
<1>9. Tidy'
  BY <1>8 DEF Tidy
<1>10. Serves
  <2>1. rt.last <= rt'.last /\ rt.epoch \in Nat
    BY <1>1, <1>3, <1>4, Bounds DEF Servers
  <2> QED
    BY <1>1, <1>4, <1>5, <2>1 DEF Serves, ServerOK
<1>11. WireOK' /\ LinkOK' /\ Shown'
  BY <1>1, <1>2, <1>4, <1>5, <1>10, LinkLater DEF WireOK
<1> QED
  BY <1>1, <1>2, <1>4, <1>5, <1>9, <1>10, <1>11, ServerFrame

-----------------------------------------------------------------------------
(* The clients' operations.                                                *)

(* The loop thread's record, of the state.                                 *)
LEMMA InvFacts ==
  ASSUME Inv
  PROVE  /\ Rest(World) /\ Whole(World) /\ ~World.ctl.stopped /\ rt.last \in Nat
         /\ link.epoch \in Nat /\ LinkOK /\ Mid(World) /\ Ledger(led)
         /\ World.ctl = ctl /\ World.led = led /\ World.pend = pend /\ World.trk = trk
<1>1. World.ctl = ctl /\ World.led = led /\ World.pend = pend /\ World.trk = trk
  BY DEF World
<1>2. Rest(World) /\ Whole(World) /\ ~ctl.stopped /\ LinkOK /\ rt \in Servers
  BY DEF Inv, ServerOK
<1>3. Mid(World) /\ link.epoch \in Nat /\ rt.last \in Nat
  BY <1>2 DEF Rest, Quiet, LinkOK, Servers
<1>4. Ledger(World.led)
  BY <1>3 DEF Mid
<1> QED
  BY <1>1, <1>2, <1>3, <1>4

(* What an operation on the loop thread has to keep.                       *)
LEMMA LoopKeeps ==
  ASSUME Inv, NEW v, Rest(v), Whole(v), ~v.ctl.stopped, AsSeen(World, v), Become(v),
         rt' = rt, link' = link,
         ops'.scene = ops.scene, Clients', owner' = NoOwner => ~v.ctl.jog /\ \A e \in Exec : ~Unf(v.led[e])
  PROVE  Inv'
<1>1. /\ Rest(World)' /\ Whole(World)' /\ ~ctl'.stopped /\ WireOK' /\ ServerOK'
      /\ led' = v.led /\ ctl' = v.ctl /\ trk' = v.trk
  BY BecomeKeeps
<1>2. Idle'
  BY <1>1 DEF Idle, Unf, Live
<1>3. link' \in Links
  BY DEF Inv
<1>4. LinkOK'
  BY DEF Inv, LinkOK, Truthful, Warned, Spent
<1>5. Shown'
  <2>1. trk'.faulted = trk.faulted /\ trk'.epoch = trk.epoch
    BY <1>1, InvFacts DEF AsSeen
  <2> QED
    BY <2>1 DEF Inv, Shown, Shows, OneFault
<1> QED
  BY <1>1, <1>2, <1>3, <1>4, <1>5 DEF Inv

(* An operation of the owner.                                              *)
LEMMA OwnerKeeps ==
  ASSUME Inv, NEW s \in Sessions, NEW v, Rest(v), Whole(v), ~v.ctl.stopped,
         AsSeen(World, v), OwnerOp(s, v), ops'.scene = ops.scene, ops' \in [arm : 0..MaxArm, disarm : Nat, scene : Scenes]
  PROVE  Inv'
<1>1. /\ owner = s /\ Become(v) /\ owner' = owner /\ sess' = sess /\ auth' = auth
      /\ link' = link /\ rt' = rt
  BY DEF OwnerOp, Owns
<1>2. owner' # NoOwner
  BY <1>1, SupervisorAssumption
<1>3. Clients'
  BY <1>1 DEF Inv, Clients
<1> QED
  BY <1>1, <1>2, <1>3, LoopKeeps

(* One that leaves the counts alone.                                       *)
LEMMA PlainKeeps ==
  ASSUME Inv, NEW s \in Sessions, NEW v, Rest(v), Whole(v), ~v.ctl.stopped,
         AsSeen(World, v), OwnerOp(s, v), ops' = ops
  PROVE  Inv'
<1>1. ops' \in [arm : 0..MaxArm, disarm : Nat, scene : Scenes]
  BY DEF Inv, Clients
<1> QED
  BY <1>1, OwnerKeeps

(* A step that changes only who is there.                                  *)
LEMMA ClientFrame ==
  ASSUME Inv, UNCHANGED <<led, ctl, pend, authFault, trk, mark, ops, link, rt, wire>>,
         Clients', owner' = NoOwner => owner = NoOwner
  PROVE  Inv'
<1>1. World' = World
  BY DEF World
<1>2. Rest(World)'
  <2>1. Calm
    BY RestIs DEF Inv
  <2>2. Calm'
    BY <1>1, <2>1 DEF Calm, Carries, Runs, Excuse, OneFault, Unf, Live, Ledger, Sound
  <2> QED
    BY <2>2, RestIs
<1>3. Tidy /\ Proven
  BY WholeIs DEF Inv
<1>4. Tidy'
  BY <1>3 DEF Tidy, OneTrouble, Word, Single, Wanted, Hot, Agreed, Matched
<1>5. Proven'
  BY <1>3 DEF Proven, Warned, Spent, Dated, Prov, Unf, Live
<1>6. Whole(World)'
  BY <1>4, <1>5, WholeIs
<1>7. Idle' /\ WireOK' /\ link' \in Links /\ ~ctl'.stopped
  BY DEF Inv, Idle, Unf, Live, WireOK
<1>8. LinkOK' /\ Shown' /\ ServerOK'
  BY DEF Inv, LinkOK, Truthful, Warned, Spent, Shown, Shows, OneFault, ServerOK
<1> QED
  BY <1>2, <1>6, <1>7, <1>8 DEF Inv

(* claim, and the connection that closes.                                  *)
LEMMA ClaimKeeps ==
  ASSUME Inv, NEW s \in Sessions, Claim(s) \/ CloseSession(s)
  PROVE  Inv'
<1>1. UNCHANGED <<led, ctl, pend, authFault, trk, mark, beat, ops, link, rt, wire>>
  BY DEF Claim, CloseSession
<1>2. Clients' /\ (owner' = NoOwner => owner = NoOwner)
  <2>1. CASE Claim(s)
    <3>1. owner' = s /\ sess' = sess /\ auth' = Lifecycle(link, s) /\ ops' = ops
      BY <2>1 DEF Claim
    <3>2. auth' \in Lifecycles
      BY <3>1 DEF Lifecycle, Lifecycles
    <3> QED
      BY <3>1, <3>2, SupervisorAssumption DEF Inv, Clients
  <2>2. CASE CloseSession(s)
    <3>1. sess' = [sess EXCEPT ![s] = "closing"] /\ owner' = owner /\ auth' = auth /\ ops' = ops
      BY <2>2 DEF CloseSession
    <3> QED
      BY <3>1 DEF Inv, Clients
  <2> QED
    BY <2>1, <2>2
<1> QED
  BY <1>1, <1>2, ClientFrame

(* _abandon: the owner leaves, or is lost.                                 *)
LEMMA AbandonKeeps ==
  ASSUME Inv, NEW s \in Sessions, Unclaim(s) \/ OwnerLost(s)
  PROVE  Inv'
<1>1. /\ ops' = ops /\ link' = link /\ rt' = rt
      /\ sess' = sess \/ sess' = [sess EXCEPT ![s] = "gone"]
  BY DEF Unclaim, OwnerLost
<1>2. sess' \in [Sessions -> {"open", "closing", "gone"}]
  BY <1>1 DEF Inv, Clients
<1>3. CASE Abandon
  <2> DEFINE v == [CancelAll(World) EXCEPT !.ctl.jog = FALSE]
  <2>1. Become(v) /\ owner' = NoOwner /\ auth' = Lifecycle(link, NoOwner)
    BY <1>3 DEF Abandon
  <2>2. /\ Rest(v) /\ Whole(v) /\ ~v.ctl.stopped /\ ~v.ctl.jog /\ AsSeen(World, v)
        /\ \A e \in Exec : ~Unf(v.led[e])
    BY InvFacts, AbandonRest
  <2> HIDE DEF v
  <2>3. auth' \in Lifecycles
    BY <2>1 DEF Lifecycle, Lifecycles
  <2>4. Clients'
    BY <1>1, <1>2, <2>1, <2>3 DEF Inv, Clients
  <2> QED
    BY <1>1, <2>1, <2>2, <2>4, LoopKeeps
<1>4. CASE UNCHANGED <<owner, led, ctl, pend, authFault, trk, mark, auth, wire>>
  <2>1. Clients'
    BY <1>1, <1>2, <1>4 DEF Inv, Clients
  <2> QED
    BY <1>1, <1>4, <2>1, ClientFrame
<1> QED
  BY <1>3, <1>4 DEF Unclaim, OwnerLost

(* arm and disarm.                                                         *)
LEMMA PowerKeeps ==
  ASSUME Inv, NEW s \in Sessions, Arm(s) \/ Disarm(s)
  PROVE  Inv'
<1>1. ops \in [arm : 0..MaxArm, disarm : Nat, scene : Scenes]
  BY DEF Inv, Clients
<1>2. CASE Arm(s)
  <2> DEFINE v == PumpOps(Control(World, C!SetArm(ctl, TRUE)))
  <2>1. /\ ops.arm < ops.scene.arm /\ ~DisarmPending(pend) /\ ~ctl.armed /\ OwnerOp(s, v)
        /\ ops' = [ops EXCEPT !.arm = @ + 1]
    BY <1>2 DEF Arm
  <2>2. Rest(v) /\ Whole(v) /\ ~v.ctl.stopped /\ AsSeen(World, v)
    BY <2>1, InvFacts, ArmRest
  <2> HIDE DEF v
  <2>3. ops.arm \in 0..MaxArm /\ ops.scene.arm \in 0..MaxArm
    BY <1>1, SupervisorAssumption
  <2>4. ops.arm + 1 \in 0..MaxArm
    BY <2>1, <2>3, Bounds
  <2>5. ops'.scene = ops.scene /\ ops' \in [arm : 0..MaxArm, disarm : Nat, scene : Scenes]
    BY <1>1, <2>1, <2>4
  <2> QED
    BY <2>1, <2>2, <2>5, OwnerKeeps
<1>3. CASE Disarm(s)
  <2> DEFINE a == CancelAll(World)
             v == PumpOps(Control(a, C!Cancel(C!SetArm(a.ctl, FALSE))))
  <2>1. OwnerOp(s, v) /\ ops' = [ops EXCEPT !.disarm = @ + 1]
    BY <1>3 DEF Disarm
  <2>2. Rest(v) /\ Whole(v) /\ ~v.ctl.stopped /\ AsSeen(World, v)
    BY InvFacts, DisarmRest
  <2> HIDE DEF v
  <2>3. ops'.scene = ops.scene /\ ops' \in [arm : 0..MaxArm, disarm : Nat, scene : Scenes]
    BY <1>1, <2>1
  <2> QED
    BY <2>1, <2>2, <2>3, OwnerKeeps
<1> QED
  BY <1>2, <1>3

(* execute.                                                                *)
LEMMA SubmitKeeps ==
  ASSUME Inv, NEW s \in Sessions, NEW e \in Exec, NEW gated \in BOOLEAN,
         NEW names \in 0..(e - 1), NEW verdict, Submit(s, e, gated, names, verdict)
  PROVE  Inv'
<1> DEFINE current == Current(led)
           phase == IF current = 0 THEN "NONE" ELSE led[current].phase
           refused == \/ verdict = "inadmissible" \/ auth \notin Owning
                      \/ SupersessionRefused(names, current, phase)
           made == [World EXCEPT !.led[e] =
                      Receipt([NoExec EXCEPT !.gated = gated, !.names = names], "REQUESTED")]
           no == [made EXCEPT !.led[e] = Receipt(@, "REJECTED")]
           yes == Begun(PumpOps(Control(made, C!OnPlan(ctl, e, verdict # "unfit"))),
                        e, gated, verdict)
           v == IF refused THEN no ELSE yes
<1>1. led[e].phase = "NONE" /\ OwnerOp(s, v) /\ ops' = ops
  BY DEF Submit
<1>2. names \in 0..MaxExec
  BY Bounds DEF Exec
<1>3. World.led[e].phase = "NONE" /\ Rest(World)
  BY <1>1, InvFacts
<1>4. Rest(no) /\ Grows(World, no)
  BY <1>2, <1>3, RefusedRest
<1>5. ASSUME ~refused PROVE Rest(yes) /\ Grows(World, yes)
  <2>1. Ledger(led) /\ ~SupersessionRefused(names, current, phase)
    BY <1>5, InvFacts
  <2>2. Names(led, e, names)
    BY <2>1, NotRefused
  <2>3. /\ Names(World.led, e, names) /\ link.epoch \in Nat
        /\ yes = Begun(PumpOps(Control(made, C!OnPlan(World.ctl, e, verdict # "unfit"))),
                       e, gated, verdict)
    BY <2>2, InvFacts
  <2> QED
    BY <1>2, <1>3, <2>3, TakenRest
<1>6. Rest(v) /\ Grows(World, v)
  <2> HIDE DEF refused, no, yes
  <2> QED
    BY <1>4, <1>5
<1> HIDE DEF v
<1>7. Whole(v) /\ ~v.ctl.stopped /\ AsSeen(World, v)
  BY <1>6, InvFacts, GrowsFacts DEF Grows, AsSeen
<1> QED
  BY <1>1, <1>6, <1>7, PlainKeeps

(* release, cancel, hold, setpoint and the choice of a law.                *)
LEMMA OtherKeeps ==
  ASSUME Inv, NEW s \in Sessions,
         \/ \E e \in Exec, verdict \in Selections : Release(s, e, verdict)
         \/ \E e \in Exec : CancelOne(s, e)
         \/ Hold(s) \/ Setpoint(s) \/ \E soft \in BOOLEAN : SelectPreset(s, soft)
  PROVE  Inv'
<1>1. CASE \E e \in Exec, verdict \in Selections : Release(s, e, verdict)
  <2>1. PICK e \in Exec, verdict \in Selections : Release(s, e, verdict)
    BY <1>1
  <2> DEFINE v == Select(World, e, verdict)
  <2>2. led[e].phase = "ADMITTED" /\ OwnerOp(s, v) /\ ops' = ops
    BY <2>1 DEF Release
  <2>3. Rest(v) /\ Calmer(World, v)
    BY <2>2, InvFacts, SelectRest
  <2> HIDE DEF v
  <2>4. Whole(v) /\ ~v.ctl.stopped /\ AsSeen(World, v)
    BY <2>3, InvFacts, CalmerWhole DEF Calmer, AsSeen
  <2> QED
    BY <2>2, <2>3, <2>4, PlainKeeps
<1>2. CASE \E e \in Exec : CancelOne(s, e)
  <2>1. PICK e \in Exec : CancelOne(s, e)
    BY <1>2
  <2> DEFINE v == CancelExecution(World, e)
  <2>2. e \in Unfinished(led) /\ OwnerOp(s, v) /\ ops' = ops
    BY <2>1 DEF CancelOne
  <2>3. Live(World.led[e])
    BY <2>2, InvFacts DEF Unfinished, LiveExecs
  <2>4. Rest(v) /\ Calmer(World, v)
    BY <2>3, InvFacts, CancelRest
  <2> HIDE DEF v
  <2>5. Whole(v) /\ ~v.ctl.stopped /\ AsSeen(World, v)
    BY <2>4, InvFacts, CalmerWhole DEF Calmer, AsSeen
  <2> QED
    BY <2>2, <2>4, <2>5, PlainKeeps
<1>3. CASE Hold(s)
  <2> DEFINE a == CancelAll(World)
             v == PumpOps(Control(a, C!Cancel(a.ctl)))
  <2>1. OwnerOp(s, v) /\ ops' = ops
    BY <1>3 DEF Hold
  <2>2. Rest(v) /\ Whole(v) /\ ~v.ctl.stopped /\ AsSeen(World, v)
    BY InvFacts, HoldRest
  <2> HIDE DEF v
  <2> QED
    BY <2>1, <2>2, PlainKeeps
<1>4. CASE Setpoint(s)
  <2> DEFINE v == [World EXCEPT !.ctl.jog = TRUE]
  <2>1. ~C!JogRefused(ctl) /\ OwnerOp(s, v) /\ ops' = ops
    BY <1>4 DEF Setpoint
  <2>2. Rest(v) /\ Whole(v) /\ v.ctl.stopped = World.ctl.stopped /\ AsSeen(World, v)
    BY <2>1, InvFacts, SetpointRest
  <2> HIDE DEF v
  <2> QED
    BY <2>1, <2>2, InvFacts, PlainKeeps
<1>5. CASE \E soft \in BOOLEAN : SelectPreset(s, soft)
  <2>1. PICK soft \in BOOLEAN : SelectPreset(s, soft)
    BY <1>5
  <2> DEFINE a == CancelEvery(World)
             v == PumpOps(Control(a, IF soft THEN C!SetPoseHold(a.ctl) ELSE C!SetGains(a.ctl)))
  <2>2. OwnerOp(s, v) /\ ops' = ops
    BY <2>1 DEF SelectPreset
  <2>3. Rest(v) /\ Whole(v) /\ ~v.ctl.stopped /\ AsSeen(World, v)
    BY InvFacts, PresetRest
  <2> HIDE DEF v
  <2> QED
    BY <2>2, <2>3, PlainKeeps
<1> QED
  BY <1>1, <1>2, <1>3, <1>4, <1>5

(* Every operation of a client.                                            *)
LEMMA ClientKeeps ==
  ASSUME Inv, NEW s \in Sessions, Client(s)
  PROVE  Inv'
<1>1. CASE Claim(s)
  BY <1>1, ClaimKeeps
<1>2. CASE Unclaim(s)
  BY <1>2, AbandonKeeps
<1>3. CASE Arm(s) \/ Disarm(s)
  BY <1>3, PowerKeeps
<1>4. CASE \E e \in Exec, gated \in BOOLEAN : \E names \in 0..(e - 1), verdict \in Verdicts :
             Submit(s, e, gated, names, verdict)
  BY <1>4, SubmitKeeps
<1>5. CASE \/ \E e \in Exec, verdict \in Selections : Release(s, e, verdict)
           \/ \E e \in Exec : CancelOne(s, e)
           \/ Hold(s) \/ Setpoint(s) \/ \E soft \in BOOLEAN : SelectPreset(s, soft)
  BY <1>5, OtherKeeps
<1> QED
  BY <1>1, <1>2, <1>3, <1>4, <1>5 DEF Client

-----------------------------------------------------------------------------
(* The step of the loop, and the theorems.                                 *)

(* One step of the loop.                                                   *)
LEMMA StepKeeps ==
  ASSUME Inv, NEW mid \in BOOLEAN, NEW expired \in BOOLEAN, NEW obs, Step(mid, obs, expired)
  PROVE  Inv'
<1> DEFINE here == Arrived(mid)
           seen == Observe(World, mid, obs)
           streams == C!Streaming(seen.ctl) /\ obs # "stale"
<1>1. /\ here \in Links /\ Truthful(here.latest) /\ here.inbox \in Seq(Packets)
      /\ \A i \in DOMAIN here.inbox : Truthful(here.inbox[i]) /\ Shows(here.inbox[i], here.latest)
      /\ here.epoch = link.epoch /\ Shows(World.trk, here.latest)
  <2>1. CASE mid
    <3>1. wire.up
      BY <2>1 DEF Step
    <3>2. here = Received
      BY <2>1 DEF Arrived
    <3> HIDE DEF here
    <3> QED
      BY <3>1, <3>2, ReceivedOK DEF Links
  <2>2. CASE ~mid
    BY <2>2, InvFacts DEF Arrived, Inv, LinkOK, Shown
  <2> QED
    BY <2>1, <2>2
<1>15. Shows(World.trk, link.latest)
  BY InvFacts DEF Inv, Shown
<1>2. /\ Mid(seen) /\ Whole(seen) /\ Onward(World, seen) /\ Shows(seen.trk, here.latest)
      /\ seen.ctl.plan # 0 => ~seen.authFault
  BY <1>1, <1>15, InvFacts, ObserveMid
<1>3. /\ link' = [here EXCEPT !.inbox = <<>>] /\ auth' = Lifecycle(here, owner)
      /\ UNCHANGED <<owner, sess, ops, rt>>
      /\ \E leg \in IF streams THEN C!LegOutcomes(seen.ctl) ELSE {"on"},
            send \in IF streams THEN C!SendOutcomes ELSE {"sent"} :
           Become(Act(seen, expired, obs = "stale", leg, send))
  BY DEF Step
<1> HIDE DEF seen, here
<1>4. PICK leg \in IF streams THEN C!LegOutcomes(seen.ctl) ELSE {"on"},
           send \in IF streams THEN C!SendOutcomes ELSE {"sent"} :
             Become(Act(seen, expired, obs = "stale", leg, send))
  BY <1>3
<1>5. leg \in {"settled", "timeout"} => seen.ctl.running
  BY <1>4 DEF C!LegOutcomes
<1> DEFINE stale == obs = "stale"
           v == Act(seen, expired, stale, leg, send)
<1>6. stale \in BOOLEAN /\ Become(v)
  BY <1>4
<1>7. Rest(v) /\ Whole(v) /\ Onward(seen, v) /\ ~v.ctl.stopped /\ AsSeen(seen, v)
  <2> HIDE DEF stale
  <2> QED
    BY <1>2, <1>5, <1>6, InvFacts, ActRest
<1> HIDE DEF v, stale
<1>12. /\ link' \in Links /\ link'.latest = here.latest /\ link'.inbox = <<>>
       /\ link'.epoch = link.epoch
  <2>1. <<>> \in Seq(Packets)
    OBVIOUS
  <2> QED
    BY <1>1, <1>3, <2>1 DEF Links
<1>8. /\ Rest(World)' /\ Whole(World)' /\ ~ctl'.stopped /\ WireOK' /\ ServerOK'
      /\ led' = v.led /\ ctl' = v.ctl /\ trk' = v.trk
  BY <1>3, <1>6, <1>7, <1>12, BecomeKeeps
<1>9. Idle'
  <2>1. World.ctl = ctl /\ World.led = led
    BY InvFacts
  <2> QED
    BY <1>2, <1>3, <1>7, <1>8, <2>1 DEF Inv, Idle, Onward, Unf, Live
<1>10. auth' \in Lifecycles
  BY <1>3 DEF Lifecycle, Lifecycles
<1>11. Clients'
  BY <1>3, <1>10 DEF Inv, Clients
<1>13. LinkOK'
  <2>1. \A i \in DOMAIN link'.inbox : FALSE
    BY <1>12
  <2>2. link'.epoch \in Nat /\ link'.fresh \in BOOLEAN /\ link'.latched \in BOOLEAN
        /\ link'.inbox \in Seq(Packets)
    BY <1>12 DEF Links
  <2>3. Truthful(link.latest)'
    BY <1>1, <1>3, <1>12 DEF Truthful, Warned, Spent
  <2> QED
    BY <2>1, <2>2, <2>3 DEF LinkOK
<1>14. Shown'
  <2>1. trk'.faulted = seen.trk.faulted /\ trk'.epoch = seen.trk.epoch
    BY <1>7, <1>8 DEF AsSeen
  <2>2. Shows(trk, link.latest)'
    BY <1>2, <1>3, <1>12, <2>1 DEF Shows, OneFault
  <2>3. \A i \in DOMAIN link'.inbox : FALSE
    BY <1>12
  <2> QED
    BY <2>2, <2>3 DEF Shown
<1> QED
  BY <1>8, <1>9, <1>11, <1>12, <1>13, <1>14 DEF Inv

(* The grace period of a finished leg ends.                                *)
LEMMA GraceKeeps ==
  ASSUME Inv, NEW e \in Exec, GracePasses(e)
  PROVE  Inv'
<1> DEFINE x == [led[e] EXCEPT !.done = "overdue"]
           v == [World EXCEPT !.led = [World.led EXCEPT ![e] = x]]
<1>1. /\ Live(led[e]) /\ led[e].done = "waiting" /\ led' = [led EXCEPT ![e] = x]
      /\ UNCHANGED <<owner, sess, ctl, pend, authFault, trk, mark, auth, beat, ops, link, rt, wire>>
  BY DEF GracePasses
<1>2. /\ Ledger(led) /\ Rest(World) /\ World.led = led /\ World.ctl = ctl /\ Sound(led[e])
      /\ World.trk = trk
  BY InvFacts DEF Ledger
<1>3. x \in Entries /\ x.phase = led[e].phase /\ x.done = "overdue" /\ x.epoch = led[e].epoch
  BY <1>2 DEF Sound, Entries
<1> HIDE DEF x
<1>4. Sound(x) /\ Live(x) /\ ~Unf(x)
  BY <1>1, <1>2, <1>3 DEF Sound, Live, Unf
<1>5. ctl.plan # e
  <2>1. SUFFICES ASSUME ctl.plan = e PROVE FALSE
    OBVIOUS
  <2>2. Carries(led[e], ctl.running, trk)
    <3>1. Steady(World) /\ ctl.plan # 0
      BY <1>2, <2>1, Bounds DEF Rest, Quiet, Exec
    <3> QED
      BY <1>2, <2>1, <3>1 DEF Steady
  <2> QED
    BY <1>1, <1>2, <2>2, PhaseSets DEF Carries, Runs, Sound, Live, Moving
<1>6. Mid(v) /\ Steady(v)
  BY <1>1, <1>2, <1>3, <1>4, <1>5, PutMid DEF Rest, Quiet
<1>7. World' = v /\ v.led = led' /\ v.ctl = ctl
  <2>1. World \in Worlds
    BY <1>2 DEF Rest, Quiet, Mid
  <2> QED
    BY <1>1, <1>2, <2>1 DEF World, Worlds
<1>8. \A d \in Exec : Unf(led'[d]) => d # e /\ led'[d] = led[d]
  BY <1>1, <1>2, <1>4 DEF Ledger
<1>9. \A d \in Exec : Prov(led'[d]) => Prov(led[d])
  BY <1>1, <1>2, <1>3 DEF Ledger, Prov
<1>10. Rest(v)
  <2>1. Held(v)
    BY <1>2, <1>7, <1>8 DEF Rest, Held
  <2>2. ~v.ctl.commands
    BY <1>2, <1>7 DEF Rest, Quiet
  <2> QED
    BY <1>6, <2>1, <2>2 DEF Rest, Quiet
<1>17. v.trk = trk' /\ Ledger(v.led)
  BY <1>1, <1>2, <1>7, <1>10 DEF Rest, Quiet, Mid, World
<1> HIDE DEF v
<1>11. Rest(World)'
  <2>1. /\ v \in Worlds /\ OneSource(v.ctl) /\ v.ctl.asks = <<>> /\ v.ctl.out = <<>>
        /\ ~v.ctl.commands /\ (v.ctl.plan # 0 => Carries(v.led[v.ctl.plan], v.ctl.running, v.trk))
        /\ \A d \in Exec : Unf(v.led[d]) => v.ctl.plan = d
    BY <1>10 DEF Rest, Quiet, Mid, Steady, Held
  <2>2. Carries(v.led[v.ctl.plan], v.ctl.running, v.trk) =>
          Carries(led[ctl.plan], ctl.running, trk)'
    BY <1>1, <1>7, <1>17 DEF Carries, Runs, Excuse, OneFault
  <2>3. Calm'
    BY <1>1, <1>7, <1>17, <2>1, <2>2 DEF Calm, Unf, Live, Ledger, Sound
  <2> QED
    BY <2>3, RestIs
<1>12. Tidy /\ Proven
  BY WholeIs DEF Inv
<1>13. Tidy'
  BY <1>1, <1>12 DEF Tidy, OneTrouble, Word, Single, Wanted, Hot, Agreed, Matched
<1>14. Proven'
  <2>1. \A d \in Exec : Unf(led'[d]) /\ led'[d].epoch # None => Dated(led'[d].epoch)
    BY <1>8, <1>12 DEF Proven
  <2>2. (\A d \in Exec : Unf(led[d]) /\ led[d].epoch # None => Dated(led[d].epoch))'
    BY <1>1, <2>1 DEF Dated, Unf, Live
  <2>3. Warned(trk)'
    BY <1>1, <1>12 DEF Proven, Warned, Spent
  <2> QED
    BY <1>1, <1>9, <1>12, <2>2, <2>3 DEF Proven, Prov
<1>15. Whole(World)'
  BY <1>13, <1>14, WholeIs
<1>16. Clients' /\ Idle' /\ WireOK' /\ link' \in Links /\ ~ctl'.stopped
  BY <1>1, <1>8 DEF Inv, Clients, Idle, WireOK, Unf, Live
<1>18. LinkOK' /\ Shown' /\ ServerOK'
  BY <1>1 DEF Inv, LinkOK, Truthful, Warned, Spent, Shown, Shows, OneFault, ServerOK
<1> QED
  BY <1>11, <1>15, <1>16, <1>18 DEF Inv

(* A step that changes nothing.                                            *)
LEMMA StutterKeeps ==
  ASSUME Inv, UNCHANGED vars
  PROVE  Inv'
<1>1. UNCHANGED supVars /\ link' = link /\ rt' = rt /\ wire' = wire
  BY DEF vars
<1>2. Serves /\ link' \in Links /\ WireOK'
  BY <1>1, ServesStill DEF Inv, WireOK
<1>3. LinkOK' /\ Shown' /\ Tidy'
  BY <1>1, <1>2, LinkLater, SameHeat
<1> QED
  BY <1>1, <1>2, <1>3, ServerFrame

(* The supervisor starts so.                                               *)
LEMMA InitKeeps ==
  ASSUME Init
  PROVE  Inv
<1>1. /\ owner = NoOwner /\ led = [e \in Exec |-> NoExec] /\ ctl = C!NewController
      /\ pend = <<>> /\ authFault = FALSE /\ mark = 0 /\ auth = "DISCONNECTED"
      /\ trk = NewTracker
      /\ rt = [armed |-> FALSE, faulted |-> FALSE, epoch |-> 0, last |-> 0, stop |-> 0]
      /\ link = [latest |-> Packet, inbox |-> <<>>, fresh |-> TRUE, epoch |-> 0,
                 latched |-> FALSE, later |-> FALSE, need |-> 0]
      /\ wire = [reqs |-> <<>>, acks |-> <<>>, cmd |-> [epoch |-> 0, mark |-> 0],
                 notice |-> FALSE, up |-> TRUE]
  BY DEF Init
<1>2. Clients
  <2>1. PICK scene \in Scenes :
          /\ ops = [arm |-> 0, disarm |-> 0, scene |-> scene]
          /\ \E open : sess = [s \in Sessions |-> IF s \in open THEN "open" ELSE "gone"]
    BY Zenon DEF Init
  <2>2. sess \in [Sessions -> {"open", "closing", "gone"}]
    BY <2>1
  <2>3. 0 \in 0..MaxArm
    BY Bounds
  <2>4. ops \in [arm : 0..MaxArm, disarm : Nat, scene : Scenes]
    BY <2>1, <2>3
  <2> QED
    BY <1>1, <2>2, <2>4 DEF Clients, Lifecycles
<1>3. rt \in Servers /\ ~rt.armed /\ rt.last = 0 /\ ~rt.faulted /\ ServerOK
  BY <1>1, Bounds DEF Servers, ServerOK
<1>4. <<>> \in Seq(BOOLEAN) /\ <<>> \in Seq(Acks) /\ <<>> \in Seq(Packets)
      /\ <<>> \in Seq(Pends) /\ <<>> \in Seq(Events)
  OBVIOUS
<1>5. wire \in Wires /\ WireOK /\ wire.reqs = <<>> /\ wire.acks = <<>> /\ wire.cmd \in Cmds
  <2>1. [epoch |-> 0, mark |-> 0] \in Cmds
    BY Bounds DEF Cmds
  <2>2. wire \in Wires /\ wire.reqs = <<>> /\ wire.acks = <<>> /\ wire.up
        /\ wire.cmd = [epoch |-> 0, mark |-> 0]
    BY <1>1, <1>4, <2>1 DEF Wires
  <2> QED
    BY <2>1, <2>2 DEF WireOK
<1>6. link \in Links /\ LinkOK /\ Shown
  <2>1. Packet \in Packets /\ Packet.last = 0 /\ ~Packet.faulted
    BY <1>1 DEF Packet, Packets
  <2>2. Truthful(Packet)
    BY <1>3, <2>1 DEF Truthful, Warned
  <2>3. link \in Links /\ link.latest = Packet /\ link.inbox = <<>>
    BY <1>1, <1>4, <2>1, Zenon DEF Links
  <2>4. link.epoch \in Nat /\ link.fresh \in BOOLEAN /\ link.latched \in BOOLEAN
        /\ link.inbox \in Seq(Packets)
    BY <2>3 DEF Links
  <2>5. \A i \in DOMAIN link.inbox : FALSE
    BY <2>3
  <2> QED
    BY <1>3, <2>2, <2>3, <2>4, <2>5 DEF LinkOK, Shown, Shows
<1>7. NoExec \in Entries /\ ~Live(NoExec) /\ Sound(NoExec) /\ ~Prov(NoExec) /\ ~Unf(NoExec)
  <2>1. NoExec \in Entries /\ NoExec.phase = "NONE" /\ NoExec.done = "no" /\ NoExec.epoch = None
    BY Bounds DEF NoExec, Entries
  <2> QED
    BY <2>1 DEF Live, Sound, Prov, Unf
<1>8. led \in [Exec -> Entries] /\ \A e \in Exec : led[e] = NoExec
  BY <1>1, <1>7
<1>9. Ledger(led)
  BY <1>7, <1>8 DEF Ledger
<1>10. /\ ctl \in Ctls /\ OneSource(ctl) /\ ctl.asks = <<>> /\ ctl.out = <<>> /\ ~ctl.commands
       /\ ctl.plan = 0 /\ ~ctl.stopped /\ ~ctl.armed /\ ~ctl.jog
  BY <1>1, <1>4, Bounds DEF C!NewController, C!NoPlan, Ctls, OneSource
<1>11. trk \in Trks /\ trk.candidate <= 0 /\ trk.confirmed <= 0 /\ ~trk.faulted
  BY <1>1 DEF NewTracker, None, Trks
<1>12. World \in Worlds /\ World.led = led /\ World.ctl = ctl
  BY <1>1, <1>4, <1>5, <1>8, <1>10, <1>11, Bounds DEF World, Worlds
<1>13. Rest(World)
  BY <1>7, <1>8, <1>9, <1>10, <1>12 DEF Rest, Quiet, Mid, Steady, Held
<1>14. Tidy
  <2>1. \A i \in DOMAIN pend : FALSE
    BY <1>1
  <2> QED
    BY <1>1, <1>3, <1>5, <1>10, <2>1 DEF Tidy, Queue, Word, Single, Wanted, Hot, Agreed
<1>15. Proven
  BY <1>3, <1>7, <1>8, <1>11 DEF Proven, Warned
<1>16. Whole(World)
  BY <1>14, <1>15, WholeIs
<1>17. Idle
  BY <1>7, <1>8, <1>10 DEF Idle
<1> QED
  BY <1>2, <1>3, <1>5, <1>6, <1>10, <1>13, <1>16, <1>17 DEF Inv

(* Every step keeps the invariant: one case per action.                    *)
LEMMA NextKeeps ==
  ASSUME Inv, [Next]_vars
  PROVE  Inv'
<1>1. CASE \E s \in Sessions : Client(s) \/ CloseSession(s) \/ OwnerLost(s)
  BY <1>1, ClientKeeps, ClaimKeeps, AbandonKeeps
<1>2. CASE \E mid, expired \in BOOLEAN, obs \in {"fine", "edge", "gap", "stale"} :
             Step(mid, obs, expired)
  BY <1>2, StepKeeps
<1>3. CASE \E e \in Exec : GracePasses(e)
  BY <1>3, GraceKeeps
<1>4. CASE Worker
  BY <1>4, WorkerKeeps
<1>5. CASE ServerHandles
  BY <1>5, HandleKeeps
<1>6. CASE \/ \E accepted \in BOOLEAN : RtTakes(accepted)
           \/ RtFaults \/ NoticeArrives \/ RtPublishes \/ StateStale
  BY <1>6, ServoKeeps
<1>7. CASE LinkDown
  BY <1>7, DownKeeps
<1>8. CASE UNCHANGED vars
  BY <1>8, StutterKeeps
<1> QED
  BY <1>1, <1>2, <1>3, <1>4, <1>5, <1>6, <1>7, <1>8 DEF Next

(* The inductive invariant holds throughout: the ledger and the controller *)
(* agree whenever the loop thread rests, the requests to the authority are *)
(* in order, and what is taken for applied the servo has taken.            *)
THEOREM SupervisorInv == Spec => []Inv
<1>1. Init => Inv
  BY InitKeeps
<1>2. Inv /\ [Next]_vars => Inv'
  BY NextKeeps
<1> QED
  BY <1>1, <1>2, PTL DEF Spec

(* The type invariant of the supervisor, and that no event, request or     *)
(* command of the controller is left behind between two operations.        *)
THEOREM SupervisorTypes == Spec => []TypeOK
<1>1. ASSUME Inv PROVE TypeOK
  <2>1. Ledger(led) /\ Rest(World) /\ World.ctl = ctl /\ World.pend = pend
    BY <1>1, InvFacts
  <2>2. World \in Worlds /\ Mid(World) /\ Steady(World) /\ ~World.ctl.commands
    BY <2>1 DEF Rest, Quiet, Mid
  <2>3. /\ ctl \in Ctls /\ pend \in Seq(Pends) /\ authFault \in BOOLEAN /\ mark \in 0..MaxExec
    BY <2>2 DEF Worlds, World
  <2>4. ctl.plan \in 0..MaxExec /\ ctl.asks = <<>> /\ ctl.out = <<>> /\ ~ctl.commands
    BY <2>1, <2>2, <2>3 DEF Ctls, Mid, Steady
  <2>5. \A i \in DOMAIN pend : pend[i].arm \in BOOLEAN
                               /\ pend[i].st \in Answered \cup {"queued", "sent", "acked"}
    <3>1. \A i \in DOMAIN pend : pend[i] \in Pends
      BY <2>3
    <3> QED
      BY <3>1 DEF Pends, Answered
  <2>6. led \in [Exec -> Entries]
    BY <2>1 DEF Ledger
  <2>7. /\ rt.epoch \in Nat /\ link.epoch \in Nat
        /\ link.fresh \in BOOLEAN /\ link.latched \in BOOLEAN
    BY <1>1 DEF Inv, LinkOK, ServerOK, Servers
  <2>8. /\ owner \in Sessions \cup {NoOwner} /\ sess \in [Sessions -> {"open", "closing", "gone"}]
        /\ auth \in Lifecycles /\ ops \in [arm : 0..MaxArm, disarm : Nat, scene : Scenes]
    BY <1>1 DEF Inv, Clients
  <2> QED
    BY <2>3, <2>4, <2>5, <2>6, <2>7, <2>8 DEF TypeOK, Entries, Lifecycles
<1> QED
  BY <1>1, SupervisorInv, PTL

(* No receipt is refused or repeated: whatever the operations of the       *)
(* clients, the controller's events and the RT evidence do in whatever     *)
(* order, ExecutionStatus.apply never raises inside the loop.              *)
THEOREM SupervisorLedgerLegal == Spec => []LedgerLegal
<1>1. ASSUME Inv PROVE LedgerLegal
  <2>1. Ledger(led)
    BY <1>1, InvFacts
  <2>2. DOMAIN led = Exec /\ \A e \in Exec : Sound(led[e])
    BY <2>1 DEF Ledger
  <2>3. \A e \in Exec : led[e].phase # "RAISED"
    BY <2>2, PhaseSets DEF Sound, Moving
  <2> QED
    BY <2>2, <2>3 DEF LedgerLegal
<1> QED
  BY <1>1, SupervisorInv, PTL

(* An execution is APPLIED or COMPLETED only if the servo has taken a      *)
(* command of it.                                                          *)
THEOREM SupervisorAppliedTaken == Spec => []AppliedMeansTaken
<1>1. ASSUME Inv PROVE AppliedMeansTaken
  <2>1. Ledger(led) /\ Proven
    BY <1>1, InvFacts, WholeIs
  <2>2. DOMAIN led = Exec
    BY <2>1 DEF Ledger
  <2> QED
    BY <2>1, <2>2 DEF AppliedMeansTaken, Proven, Prov
<1> QED
  BY <1>1, SupervisorInv, PTL

(* A leg, a setpoint and the soft hold never drive the arm together.       *)
THEOREM SupervisorOneSource == Spec => []OneMotionSource
<1>1. ASSUME Inv PROVE OneMotionSource
  <2> DEFINE M == {m \in {"running", "jog", "soft"} : ctl[m]}
  <2>1. OneSource(ctl) /\ ctl \in Ctls
    BY <1>1, InvFacts DEF Mid, Worlds
  <2>2. ~(ctl.running /\ ctl.jog) /\ ~(ctl.jog /\ ctl.soft) /\ ~(ctl.running /\ ctl.soft)
    BY <2>1 DEF OneSource
  <2>3. M = {} \/ \E m : M = {m}
    <3>1. CASE ctl.running
      <4>1. M = {"running"}
        BY <2>2, <3>1
      <4> QED
        BY <4>1
    <3>2. CASE ctl.jog
      <4>1. M = {"jog"}
        BY <2>2, <3>2
      <4> QED
        BY <4>1
    <3>3. CASE ctl.soft
      <4>1. M = {"soft"}
        BY <2>2, <3>3
      <4> QED
        BY <4>1
    <3>4. CASE ~ctl.running /\ ~ctl.jog /\ ~ctl.soft
      <4>1. M = {}
        BY <3>4
      <4> QED
        BY <4>1
    <3> QED
      BY <3>1, <3>2, <3>3, <3>4
  <2>4. Cardinality(M) \in {0, 1}
    BY <2>3, FS_EmptySet, FS_Singleton
  <2>5. Cardinality(M) <= 1
    BY <2>4
  <2> QED
    BY <2>5 DEF OneMotionSource
<1> QED
  BY <1>1, SupervisorInv, PTL

(* Where a link that is slow is not also lost, a DISARM wins in the end:   *)
(* when the supervisor rests disarmed, the server is disarmed or the last  *)
(* request on its way to it is a DISARM.                                   *)
THEOREM SupervisorDisarmWins ==
  ASSUME \A scene \in Scenes : ~({"slow", "down"} \subseteq scene.trouble)
  PROVE  Spec => []DisarmWins
<1>1. ASSUME Inv PROVE DisarmWins
  <2>1. Tidy /\ ops.scene \in Scenes
    BY <1>1, WholeIs DEF Inv, Clients
  <2>2. OneTrouble
    BY <2>1 DEF OneTrouble
  <2>3. Wanted(pend, ctl.armed, authFault)
    BY <2>1, <2>2 DEF Tidy
  <2>4. ASSUME DisarmedQuietly PROVE ~Hot
    <3>1. ~ctl.armed /\ ~authFault /\ \A i \in DOMAIN pend : FALSE
      BY <2>4 DEF DisarmedQuietly
    <3> QED
      BY <2>3, <3>1 DEF Wanted
  <2> QED
    BY <2>4 DEF DisarmWins, Hot
<1> QED
  BY <1>1, SupervisorInv, PTL

(* What there is to finish, the controller holds; and with no owner there  *)
(* is nothing to finish and no setpoint is live.                           *)
THEOREM SupervisorTracked ==
  Spec => []( /\ \A e \in Unfinished(led) : ctl.plan = e
              /\ owner = NoOwner => ~ctl.jog /\ Unfinished(led) = {} )
<1> DEFINE P == /\ \A e \in Unfinished(led) : ctl.plan = e
                /\ owner = NoOwner => ~ctl.jog /\ Unfinished(led) = {}
<1>1. ASSUME Inv PROVE P
  <2>1. Ledger(led) /\ Rest(World) /\ World.led = led /\ World.ctl = ctl /\ Idle
    BY <1>1, InvFacts DEF Inv
  <2>2. \A e \in Unfinished(led) : e \in Exec /\ Unf(led[e])
    BY <2>1 DEF Ledger, Unfinished, LiveExecs, Unf
  <2>3. \A e \in Unfinished(led) : ctl.plan = e
    BY <2>1, <2>2 DEF Rest, Held
  <2>4. owner = NoOwner => ~ctl.jog /\ Unfinished(led) = {}
    BY <2>1, <2>2 DEF Idle
  <2> QED
    BY <2>3, <2>4
<1>2. [](Inv => P)
  BY <1>1, PTL
<1> QED
  BY <1>2, SupervisorInv, PTL

(* A leg that runs after its receipt is closed is one whose fault is still *)
(* on, and the last packet shows that fault.                               *)
LEMMA ClosedShown ==
  ASSUME Inv, OneFault, ctl.plan # 0
  PROVE  \/ ctl.running /\ led[ctl.plan].phase = "FAULTED" /\ link.latest.faulted
         \/ /\ ctl.plan \in Exec /\ Unf(led[ctl.plan])
            /\ IF ctl.running THEN led[ctl.plan].phase \in Moving
               ELSE led[ctl.plan].phase = "ADMITTED"
<1>1. Calm
  BY RestIs DEF Inv
<1>2. ctl \in Ctls /\ Ledger(led) /\ World \in Worlds /\ Carries(led[ctl.plan], ctl.running, trk)
  BY <1>1, InvFacts DEF Calm, Worlds
<1>3. ctl.plan \in Exec /\ Sound(led[ctl.plan])
  <2>1. ctl.plan \in 0..MaxExec
    BY <1>2 DEF Ctls
  <2>2. ctl.plan \in Exec
    BY <2>1, Bounds DEF Exec
  <2> QED
    BY <1>2, <2>2 DEF Ledger
<1>4. CASE ctl.running /\ led[ctl.plan].phase = "FAULTED" /\ Excuse(trk)
  BY <1>4 DEF Excuse, Inv, Shown, Shows
<1>5. CASE ctl.running /\ led[ctl.plan].phase \in Moving /\ led[ctl.plan].done = "no"
  BY <1>3, <1>5, PhaseSets DEF Unf, Live, Moving
<1>6. CASE ~ctl.running /\ led[ctl.plan].phase = "ADMITTED"
  <2>1. led[ctl.plan].done = "no"
    BY <1>3, <1>6 DEF Sound, Moving
  <2> QED
    BY <1>3, <1>6, <2>1, PhaseSets DEF Unf, Live
<1> QED
  BY <1>2, <1>4, <1>5, <1>6 DEF Carries, Runs

(* Where a slow link does not also meet a fault of the arm, the ledger and *)
(* the controller agree between operations: the execution that has not     *)
(* finished its leg is the plan the controller holds, staged while         *)
(* ADMITTED and running after, and it holds no other, but for a leg whose  *)
(* fault the last packet still shows.                                      *)
THEOREM SupervisorPlanTracked ==
  ASSUME \A scene \in Scenes : ~({"slow", "fault"} \subseteq scene.trouble)
  PROVE  Spec => []PlanTracked
<1>1. ASSUME Inv PROVE PlanTracked
  <2>1. OneFault /\ Ledger(led) /\ Calm
    BY <1>1, InvFacts, RestIs DEF Inv, Clients, OneFault
  <2>2. \A e \in Unfinished(led) : e \in Exec /\ Unf(led[e])
    BY <2>1 DEF Ledger, Unfinished, LiveExecs, Unf
  <2>3. \A e \in Unfinished(led) : ctl.plan = e
    BY <2>1, <2>2 DEF Calm
  <2>4. ASSUME ctl.plan # 0
        PROVE  \/ led[ctl.plan].phase = "FAULTED" /\ link.latest.faulted
               \/ /\ led[ctl.plan].done = "no"
                  /\ IF ctl.running THEN led[ctl.plan].phase \in {"SELECTED", "SENT", "APPLIED"}
                     ELSE led[ctl.plan].phase = "ADMITTED"
    BY <1>1, <2>1, <2>4, ClosedShown DEF Unf, Moving
  <2> QED
    BY <2>3, <2>4 DEF PlanTracked
<1> QED
  BY <1>1, SupervisorInv, PTL

(* Under the same condition nothing moves without an owner: no setpoint is *)
(* live, nothing is left to finish or staged for a later owner's ARM, and  *)
(* no leg runs but one whose fault the last packet shows.                  *)
THEOREM SupervisorNoOwner ==
  ASSUME \A scene \in Scenes : ~({"slow", "fault"} \subseteq scene.trouble)
  PROVE  Spec => []NoOwnerNoMotion
<1>1. ASSUME Inv PROVE NoOwnerNoMotion
  <2>1. OneFault /\ Ledger(led) /\ Idle /\ Calm
    BY <1>1, InvFacts, RestIs DEF Inv, Clients, OneFault
  <2>2. \A e \in Unfinished(led) : e \in Exec /\ Unf(led[e])
    BY <2>1 DEF Ledger, Unfinished, LiveExecs, Unf
  <2>3. ASSUME owner = NoOwner PROVE ~ctl.jog /\ Unfinished(led) = {}
    BY <2>1, <2>2, <2>3 DEF Idle
  <2>4. ASSUME owner = NoOwner, ctl.running PROVE link.latest.faulted
    <3>1. ctl.plan # 0
      BY <2>1, <2>4 DEF Calm, OneSource
    <3> QED
      BY <1>1, <2>1, <2>4, <3>1, ClosedShown DEF Idle
  <2> QED
    BY <2>3, <2>4 DEF NoOwnerNoMotion
<1> QED
  BY <1>1, SupervisorInv, PTL
=============================================================================
