------------------------------ MODULE GroupProofs ------------------------------
(***************************************************************************)
(* Proofs about Group, for any number of peers, groups, references and     *)
(* commits, and for peers that do anything SlotStep allows.                *)
(***************************************************************************)
EXTENDS Group, TLAPS

-----------------------------------------------------------------------------
(* The types, as far as the argument looks: of serve_client, the seam and  *)
(* the tick it needs the fields to be there.                               *)

CtlShape(x) ==
  x = [at |-> x.at, cand |-> x.cand, pend |-> x.pend, waiting |-> x.waiting, mode |-> x.mode]
SeamShape(x) ==
  x = [pub |-> x.pub, in |-> x.in, done |-> x.done, ok |-> x.ok, cgen |-> x.cgen,
       cid |-> x.cid, csess |-> x.csess, cepoch |-> x.cepoch, fb |-> x.fb, mpub |-> x.mpub,
       min |-> x.min, mdone |-> x.mdone, mgen |-> x.mgen]
TickShape(x) ==
  x = [at |-> x.at, armed |-> x.armed, fault |-> x.fault, gen |-> x.gen, sess |-> x.sess,
       pub |-> x.pub, com |-> x.com, seen |-> x.seen, cseen |-> x.cseen, mseen |-> x.mseen,
       high |-> x.high, mode |-> x.mode, ref |-> x.ref]
RefShape(x) ==
  x = [id |-> x.id, rev |-> x.rev, st |-> x.st, sess |-> x.sess, gen |-> x.gen, grp |-> x.grp]
Shapes == CtlShape(ctl) /\ SeamShape(seam) /\ TickShape(tick) /\ RefShape(tick.ref)

AuthT == [armed : BOOLEAN, gen : Nat, fault : BOOLEAN, sess : Nat, last : Nat,
          opted : BOOLEAN]
Types ==
  /\ auth \in AuthT
  /\ grp \in [joined : BOOLEAN, id : Nat, epoch : Nat, hold : BOOLEAN, commit : BOOLEAN]
  /\ gsh \in [active : BOOLEAN, committed : BOOLEAN, id : Nat, sess : Nat, epoch : Nat,
              event : BOOLEAN]
  /\ gt \in [id : Nat, tripped : BOOLEAN, mirrored : BOOLEAN, stamp : BOOLEAN, done : BOOLEAN]
  /\ slot \in [Members -> [st : States, id : Nat]]
  /\ env = [last |-> env.last, late |-> env.late, contended |-> env.contended, was |-> env.was]
  /\ env.last \in Nat

(* Commits are answered after they are published.                          *)
Tickets ==
  /\ seam.pub \in Nat /\ seam.done \in Nat /\ tick.pub \in Nat
  /\ seam.done <= seam.pub /\ tick.pub <= seam.pub

(* A commit on its way to the servo, and the reference it follows, is of a *)
(* group that all have committed to; a peer whose slot says so, has.       *)
Together(c) == c.grp \in Groups => \A m \in Members : <<m, c.grp>> \in env.was
Past == {"COMMITTED", "RUNNING", "DONE"}
OnTheWay ==
  /\ Together(seam.in) /\ Together(tick.com) /\ Together(tick.ref)
  /\ \A b \in Peers : slot[b].st \in Past /\ slot[b].id \in Groups => <<b, slot[b].id>> \in env.was

(* A held commit is the member's own, and is not published yet; neither is *)
(* the one released.                                                       *)
Holding ==
  /\ grp.hold =>
       /\ grp.joined /\ ctl.waiting
       /\ ctl.pend.grp = grp.id /\ ctl.pend.ticket = seam.pub + 1
       /\ <<Me, grp.id>> \in env.was
  /\ ctl.at = "publish" => ~grp.hold /\ Together(ctl.pend) /\ ctl.pend.ticket = seam.pub + 1
  /\ ctl.at \in {"poll", "top", "commit", "publish"}

(* The member's slot: of the group it has joined, or was in last; not past *)
(* COMMITTED before it has committed.                                      *)
Mine ==
  /\ gsh.active <=> grp.joined
  /\ grp.joined => gsh.id = grp.id /\ slot[Me].id = grp.id /\ slot[Me].st # "NONE"
  /\ gsh.id # 0 => slot[Me].id = gsh.id /\ slot[Me].st # "NONE"
  /\ slot[Me].id <= env.last
  /\ gsh.committed => grp.joined /\ <<Me, grp.id>> \in env.was
  /\ grp.joined /\ <<Me, grp.id>> \notin env.was => slot[Me].st \in {"STAGED", "FAULTED"}
  /\ ctl.at = "commit" => grp.joined /\ <<Me, grp.id>> \notin env.was

GroupInv == Shapes /\ Types /\ Tickets /\ OnTheWay /\ Holding /\ Mine

\* What a step may do to the member's own slot.
MyWrite ==
  slot'[Me] # slot[Me] =>
    /\ SlotStep(slot[Me], slot'[Me])
    /\ slot[Me].st \in {"FAULTED", "DONE"} =>
         slot'[Me].st \in {"STAGED", "COMMITTED"} \/ auth'.sess = 0

-----------------------------------------------------------------------------
(* The initial states.                                                     *)
LEMMA GroupStart == Init => GroupInv
<1> SUFFICES ASSUME Init PROVE GroupInv
  OBVIOUS
<1>1. Earlier \in {0, 1} /\ Me \in Members /\ \A g \in Groups : g \in Nat /\ g > Earlier
  BY GroupAssumption DEF Members, Groups
<1>2. /\ auth = Armed /\ ctl = FreshCtl /\ tick.com = NoRef
      /\ tick.ref = IF Earlier = 0 THEN NoInfo(1, 1) ELSE First
      /\ seam.in = NoRef /\ seam.pub = Earlier /\ seam.done = Earlier /\ tick.pub = Earlier
  <2>1. CASE Earlier = 0
    BY <2>1 DEF Init, RefInit, FreshSeam, FreshTick
  <2>2. CASE Earlier = 1
    <3>1. After(First)
      BY <2>2 DEF Init
    <3>2. auth = Armed /\ ctl = FreshCtl
      BY <3>1 DEF After
    <3>3. seam.in = NoRef /\ seam.pub = 1 /\ seam.done = 1
      BY <3>1 DEF After, FreshSeam
    <3>4. tick.com = NoRef /\ tick.ref = First /\ tick.pub = 1
      BY <3>1 DEF After, FreshTick
    <3> QED
      BY <2>2, <3>2, <3>3, <3>4
  <2> QED
    BY <1>1, <2>1, <2>2
<1>3. Shapes
  <2>1. RefShape(tick.ref)
    BY <1>2 DEF NoInfo, First, RefShape
  <2>2. CASE Earlier = 0
    BY <1>2, <2>1, <2>2 DEF Init, RefInit, FreshSeam, FreshTick, FreshCtl, Shapes, CtlShape, SeamShape, TickShape, RefShape
  <2>3. CASE Earlier = 1
    BY <1>2, <2>1, <2>3 DEF Init, After, FreshSeam, FreshTick, FreshCtl, Shapes, CtlShape, SeamShape, TickShape, RefShape
  <2> QED
    BY <1>1, <2>2, <2>3
<1>4. Types
  <2>1. auth \in AuthT
    BY <1>2 DEF Armed, AuthT
  <2>2. slot \in [Members -> [st : States, id : Nat]]
    BY DEF Init, GroupInit, Empty, States
  <2>3. grp = NoGroup /\ env.last = Earlier /\ gt = [NoTick EXCEPT !.id = Earlier, !.done = Earlier # 0]
        /\ gsh = IF Earlier = 0 THEN NoShared ELSE [NoShared EXCEPT !.id = 1, !.sess = 1, !.epoch = 1]
    BY DEF Init, GroupInit
  <2>4. gt \in [id : Nat, tripped : BOOLEAN, mirrored : BOOLEAN, stamp : BOOLEAN, done : BOOLEAN]
    <3>1. (Earlier # 0) \in BOOLEAN /\ Earlier \in Nat
      BY <1>1
    <3> DEFINE over == Earlier # 0
    <3> HIDE DEF over
    <3>2. gt = [NoTick EXCEPT !.id = Earlier, !.done = over] /\ over \in BOOLEAN
      BY <2>3, <3>1 DEF over
    <3> QED
      BY <3>1, <3>2 DEF NoTick
  <2>5. gsh \in [active : BOOLEAN, committed : BOOLEAN, id : Nat, sess : Nat, epoch : Nat, event : BOOLEAN]
    BY <2>3 DEF NoShared
  <2>6. env = [last |-> env.last, late |-> env.late, contended |-> env.contended, was |-> env.was]
    BY DEF Init, GroupInit
  <2> QED
    BY <1>1, <2>1, <2>2, <2>3, <2>4, <2>5, <2>6 DEF NoGroup, Types
<1>5. Tickets
  BY <1>1, <1>2 DEF Tickets
<1>6. OnTheWay
  <2>1. Together(seam.in) /\ Together(tick.com) /\ Together(tick.ref)
    BY <1>1, <1>2 DEF Together, NoRef, NoInfo, First
  <2>2. \A b \in Peers : slot[b].st \in Past => slot[b].id = 1 /\ Earlier = 1
    BY <1>1 DEF Init, GroupInit, Empty, Past, Members
  <2> QED
    BY <1>1, <2>1, <2>2 DEF OnTheWay
<1>7. Holding
  BY <1>2 DEF Init, GroupInit, NoGroup, FreshCtl, Holding
<1>8. Mine
  BY <1>1, <1>2 DEF Init, GroupInit, NoGroup, NoShared, Empty, FreshCtl, Mine
<1> QED
  BY <1>3, <1>4, <1>5, <1>6, <1>7, <1>8 DEF GroupInv

-----------------------------------------------------------------------------
(* Reference beside the group.                                             *)

\* A step that publishes nothing, answers nothing and leaves the group alone.
MildStep ==
  /\ Shapes'
  /\ ctl'.pend = ctl.pend /\ ctl'.waiting = ctl.waiting /\ ctl'.at \in {ctl.at, "top"}
  /\ seam'.pub = seam.pub /\ seam'.in = seam.in /\ seam'.done = seam.done
  /\ tick' = tick

(* It keeps the invariant.                                                 *)
LEMMA MildKeeps ==
  ASSUME GroupInv, MildStep, UNCHANGED groupVars,
         auth' \in AuthT
  PROVE  GroupInv' /\ MyWrite
<1>1. /\ grp' = grp /\ gsh' = gsh /\ gt' = gt /\ slot' = slot /\ beat' = beat /\ env' = env
  BY DEF groupVars
<1>2. Types' /\ Tickets' /\ MyWrite
  BY <1>1 DEF GroupInv, Types, Tickets, MildStep, MyWrite
<1>3. OnTheWay'
  BY <1>1 DEF GroupInv, OnTheWay, Together, MildStep
<1>4. Holding' /\ Mine'
  BY <1>1 DEF GroupInv, Holding, Together, Mine, MildStep
<1> QED
  BY <1>2, <1>3, <1>4 DEF GroupInv, MildStep

(* What the authority's steps write.                                       *)
LEMMA AuthTyped ==
  ASSUME NEW a \in AuthT
  PROVE  /\ [a EXCEPT !.armed = FALSE, !.fault = FALSE] \in AuthT
         /\ [a EXCEPT !.opted = TRUE] \in AuthT
         /\ \A n \in Nat : [a EXCEPT !.armed = TRUE, !.gen = n] \in AuthT
         /\ [a EXCEPT !.fault = TRUE] \in AuthT
         /\ \A n \in Nat : [a EXCEPT !.sess = n, !.last = n] \in AuthT
         /\ a.gen + 1 \in Nat /\ a.last + 1 \in Nat
         /\ \A f \in BOOLEAN : [a EXCEPT !.fault = f, !.sess = 0, !.opted = FALSE] \in AuthT
<1>1. [a EXCEPT !.armed = FALSE, !.fault = FALSE] \in AuthT /\ [a EXCEPT !.opted = TRUE] \in AuthT
  BY DEF AuthT
<1>2. ASSUME NEW n \in Nat PROVE [a EXCEPT !.armed = TRUE, !.gen = n] \in AuthT
  BY DEF AuthT
<1>3. [a EXCEPT !.fault = TRUE] \in AuthT
  BY DEF AuthT
<1>4. ASSUME NEW n \in Nat PROVE [a EXCEPT !.sess = n, !.last = n] \in AuthT
  BY DEF AuthT
<1>7. a.gen + 1 \in Nat /\ a.last + 1 \in Nat
  <2>1. a.gen \in Nat /\ a.last \in Nat
    BY DEF AuthT
  <2> QED
    BY <2>1
<1>5. ASSUME NEW f \in BOOLEAN PROVE [a EXCEPT !.fault = f, !.sess = 0, !.opted = FALSE] \in AuthT
  BY DEF AuthT
<1> QED
  BY <1>1, <1>2, <1>3, <1>4, <1>5, <1>7

(* Uploads, cancels, mode selections, and the authority.                   *)
LEMMA MildPlain ==
  ASSUME GroupInv,
         \/ BeginUpload \/ Seal \/ AbortUpload \/ ModeSelect \/ Cancel
         \/ Disarm \/ OptIn \/ ArmEpoch \/ Latch \/ Accept
  PROVE  MildStep /\ auth' \in AuthT
<1>0. Shapes /\ auth \in AuthT
  BY DEF GroupInv, Types
<1>1. CASE BeginUpload
  BY <1>0, <1>1 DEF BeginUpload, BeginAs, Shapes, CtlShape, SeamShape, TickShape, RefShape, MildStep
<1>2. CASE Seal \/ AbortUpload
  BY <1>0, <1>2 DEF Seal, AbortUpload, Shapes, CtlShape, SeamShape, TickShape, RefShape, MildStep
<1>3. CASE ModeSelect
  <2>1. PICK req, id, epoch :
          /\ ctl' = [ctl EXCEPT !.mode = req, !.cand = NoCand, !.at = "top"]
          /\ seam' = [Fenced(id, epoch) EXCEPT !.min = req, !.mpub = req.ticket]
    BY <1>3 DEF ModeSelect
  <2>2. seam' = [seam EXCEPT !.cgen = seam.cgen + 1, !.cid = id, !.csess = auth.sess,
                             !.cepoch = epoch, !.min = req, !.mpub = req.ticket]
    BY <1>0, <2>1 DEF Fenced, Shapes, CtlShape, SeamShape, TickShape, RefShape
  <2>3. auth' = auth /\ tick' = tick
    BY <1>3 DEF ModeSelect
  <2> QED
    BY <1>0, <2>1, <2>2, <2>3 DEF Shapes, CtlShape, SeamShape, TickShape, RefShape, MildStep
<1>4. CASE Cancel
  <2>1. PICK id, epoch : seam' = Fenced(id, epoch)
    BY <1>4 DEF Cancel
  <2>2. ctl' = [ctl EXCEPT !.cand = NoCand, !.at = "top"] /\ auth' = auth /\ tick' = tick
    BY <1>4 DEF Cancel
  <2> QED
    BY <1>0, <2>1, <2>2 DEF Fenced, Shapes, CtlShape, SeamShape, TickShape, RefShape, MildStep
<1>5. CASE Disarm \/ OptIn \/ ArmEpoch
  <2>1. seam' = seam /\ tick' = tick
        /\ (ctl' = [ctl EXCEPT !.cand = NoCand, !.at = "top"] \/ ctl' = [ctl EXCEPT !.at = "top"])
    BY <1>5 DEF Disarm, OptIn, ArmEpoch
  <2>2. MildStep
    BY <1>0, <2>1 DEF Shapes, CtlShape, SeamShape, TickShape, RefShape, MildStep
  <2>3. \/ auth' = [auth EXCEPT !.armed = FALSE, !.fault = FALSE]
        \/ auth' = [auth EXCEPT !.opted = TRUE]
        \/ auth' = [auth EXCEPT !.armed = TRUE, !.gen = auth.gen + 1]
    BY <1>0, <1>5 DEF Disarm, OptIn, ArmEpoch
  <2> QED
    BY <1>0, <2>2, <2>3, AuthTyped
<1>6. CASE Latch \/ Accept
  <2>1. ctl' = ctl /\ seam' = seam /\ tick' = tick
    BY <1>6 DEF Latch, Accept
  <2>2. MildStep
    BY <1>0, <2>1 DEF Shapes, CtlShape, SeamShape, TickShape, RefShape, MildStep
  <2>3. \/ auth' = [auth EXCEPT !.fault = TRUE]
        \/ auth' = [auth EXCEPT !.sess = auth.last + 1, !.last = auth.last + 1]
    BY <1>0, <1>6 DEF Latch, Accept
  <2> QED
    BY <1>0, <2>2, <2>3, AuthTyped
<1> QED
  BY <1>1, <1>2, <1>3, <1>4, <1>5, <1>6

(* A commit outside a group is of no group.                                *)
LEMMA NoGroupZero == 0 \notin Groups /\ \A g \in Groups : g \in Nat
BY GroupAssumption DEF Groups

(* CTL_COMMIT.                                                             *)
LEMMA CommitKeeps ==
  ASSUME GroupInv, ~grp.joined, Commit, UNCHANGED groupVars
  PROVE  GroupInv' /\ MyWrite
<1>1. /\ grp' = grp /\ gsh' = gsh /\ gt' = gt /\ slot' = slot /\ beat' = beat /\ env' = env
      /\ auth' = auth /\ tick' = tick
  BY DEF groupVars, Commit
<1> DEFINE p == Pending(0)
<1>2. p.grp = 0 /\ p.ticket = seam.pub + 1
  BY DEF Pending
<1>3. /\ ctl' = [ctl EXCEPT !.pend = p, !.waiting = TRUE, !.at = "top"]
      /\ seam' = [seam EXCEPT !.in = p, !.pub = p.ticket]
  BY DEF Commit, Published
<1> HIDE DEF p
<1>4. Shapes' /\ ctl'.pend = p /\ ctl'.at = "top" /\ seam'.in = p /\ seam'.pub = seam.pub + 1
      /\ seam'.done = seam.done
  BY <1>1, <1>2, <1>3 DEF GroupInv, Shapes, CtlShape, SeamShape, TickShape, RefShape
<1>5. Types' /\ MyWrite
  BY <1>1 DEF GroupInv, Types, MyWrite
<1>6. Tickets'
  BY <1>1, <1>4 DEF GroupInv, Tickets
<1>7. OnTheWay'
  BY <1>1, <1>2, <1>4, NoGroupZero DEF GroupInv, OnTheWay, Together
<1>8. Holding' /\ Mine'
  BY <1>1, <1>4 DEF GroupInv, Holding, Mine
<1> QED
  BY <1>4, <1>5, <1>6, <1>7, <1>8 DEF GroupInv

(* What Reference has beside the group.                                    *)
LEMMA PlainKeeps ==
  ASSUME GroupInv, Plain
  PROVE  GroupInv' /\ MyWrite
BY MildPlain, MildKeeps, CommitKeeps DEF Plain

-----------------------------------------------------------------------------
(* The group's frames and the watch.                                       *)

GrpT == [joined : BOOLEAN, id : Nat, epoch : Nat, hold : BOOLEAN, commit : BOOLEAN]
GshT == [active : BOOLEAN, committed : BOOLEAN, id : Nat, sess : Nat, epoch : Nat,
         event : BOOLEAN]
SlotT == [st : States, id : Nat]

(* GROUP_JOIN: the group is later than the one the slot is of.             *)
LEMMA JoinKeeps ==
  ASSUME GroupInv, NEW g \in Groups, GJoin(g)
  PROVE  GroupInv' /\ MyWrite
<1>1. /\ g \in Nat /\ g > env.last /\ Me \in Members /\ Me \notin Peers
  BY NoGroupZero, GroupAssumption DEF GJoin, Members
<1>2. /\ auth' = auth /\ seam' = seam /\ tick' = tick /\ gt' = gt
      /\ ctl' = [ctl EXCEPT !.at = "top"] /\ env' = [env EXCEPT !.last = g]
      /\ slot' = [slot EXCEPT ![Me] = [st |-> "STAGED", id |-> g]]
      /\ grp' = [NoGroup EXCEPT !.joined = TRUE, !.id = g, !.epoch = auth.gen]
      /\ gsh' = [gsh EXCEPT !.active = TRUE, !.id = g, !.sess = auth.sess, !.epoch = auth.gen,
                            !.event = FALSE]
  BY DEF GJoin
<1>3. /\ ~grp.joined /\ auth.gen \in Nat /\ auth.sess \in Nat /\ gsh \in GshT
      /\ slot \in [Members -> SlotT] /\ ~gsh.committed
  BY DEF GJoin, GroupInv, Types, AuthT, GshT, SlotT, Mine
<1>4. grp' \in GrpT /\ grp'.joined = TRUE /\ grp'.id = g /\ ~grp'.hold
  BY <1>1, <1>2, <1>3 DEF NoGroup, GrpT
<1>5. gsh' \in GshT /\ gsh'.active = TRUE /\ gsh'.id = g /\ ~gsh'.committed
  BY <1>1, <1>2, <1>3 DEF GshT
<1>6. /\ slot' \in [Members -> SlotT] /\ slot'[Me] = [st |-> "STAGED", id |-> g]
      /\ \A b \in Peers : slot'[b] = slot[b]
  BY <1>1, <1>2, <1>3 DEF SlotT, States, Live, Members
<1>7. env'.last = g /\ env'.was = env.was
      /\ env' = [last |-> env'.last, late |-> env'.late, contended |-> env'.contended,
                 was |-> env'.was]
  BY <1>2 DEF GroupInv, Types
<1>8. Shapes' /\ ctl'.at = "top" /\ ctl'.pend = ctl.pend
  BY <1>2 DEF GroupInv, Shapes, CtlShape, SeamShape, TickShape, RefShape
<1>9. Types' /\ Tickets'
  BY <1>1, <1>2, <1>4, <1>5, <1>6, <1>7 DEF GroupInv, Types, GrpT, GshT, SlotT, Tickets
<1>10. OnTheWay' /\ Holding'
  BY <1>2, <1>4, <1>6, <1>7, <1>8 DEF GroupInv, OnTheWay, Together, Holding
<1>11. Mine'
  BY <1>1, <1>4, <1>5, <1>6, <1>7, <1>8 DEF Mine
<1>12. MyWrite
  <2>1. slot[Me].id \in Nat /\ slot[Me].id <= env.last
    BY <1>1, <1>3 DEF GroupInv, Mine, SlotT
  <2> QED
    BY <1>1, <1>6, <2>1 DEF GroupInv, Types, MyWrite, SlotStep
<1> QED
  BY <1>8, <1>9, <1>10, <1>11, <1>12 DEF GroupInv

(* A slot that is left.                                                    *)
LEMMA PutIs ==
  ASSUME NEW s \in SlotT, NEW st \in States, NEW from, NEW g \in Nat
  PROVE  /\ Put(s, st, from, g) \in SlotT
         /\ Put(s, st, from, g) # s => s.st \in from /\ Put(s, st, from, g) = [st |-> st, id |-> g]
BY DEF Put, SlotT

(* group_leave, with serve_client back at its poll or its top and nothing  *)
(* published: the slot keeps FAULTED and DONE, and its group.              *)
LEMMA LeaveKeeps ==
  ASSUME GroupInv, grp.joined, Leaves, Shapes', ctl'.at \in {"poll", "top"},
         seam'.pub = seam.pub, seam'.in = seam.in, seam'.done = seam.done,
         UNCHANGED <<auth, tick, told, gt, beat, env>>
  PROVE  GroupInv' /\ MyWrite
<1>1. /\ grp' = NoGroup
      /\ gsh' = [gsh EXCEPT !.active = FALSE, !.committed = FALSE, !.event = FALSE]
      /\ slot' = [slot EXCEPT ![Me] = Put(slot[Me], "CANCELLED", LeavesOver, grp.id)]
  BY DEF Leaves, GroupInv, Types
<1>2. /\ Me \in Members /\ Me \notin Peers /\ slot \in [Members -> SlotT] /\ grp.id \in Nat
      /\ gsh \in GshT /\ slot[Me] \in SlotT
  BY GroupAssumption DEF Members, GroupInv, Types, SlotT, GshT
<1>3. "CANCELLED" \in States
  BY DEF States
<1> DEFINE t == Put(slot[Me], "CANCELLED", LeavesOver, grp.id)
<1>4. /\ t \in SlotT
      /\ t # slot[Me] => slot[Me].st \in LeavesOver /\ t = [st |-> "CANCELLED", id |-> grp.id]
  BY <1>2, <1>3, PutIs
<1> HIDE DEF t
<1>5. slot' \in [Members -> SlotT] /\ slot'[Me] = t /\ \A b \in Peers : slot'[b] = slot[b]
  BY <1>1, <1>2, <1>4 DEF Members, t
<1>6. t.id = slot[Me].id /\ t.st # "NONE" /\ slot[Me].st # "NONE"
  BY <1>4 DEF GroupInv, Mine
<1>7. grp' \in GrpT /\ ~grp'.joined /\ ~grp'.hold /\ grp'.joined = FALSE
  BY <1>1 DEF NoGroup, GrpT
<1>8. gsh' \in GshT /\ gsh'.active = FALSE /\ ~gsh'.committed /\ gsh'.id = gsh.id
  BY <1>1, <1>2 DEF GshT
<1>9. Types' /\ Tickets'
  BY <1>5, <1>7, <1>8 DEF GroupInv, Types, GrpT, GshT, SlotT, Tickets
<1>10. OnTheWay' /\ Holding'
  BY <1>5, <1>7 DEF GroupInv, OnTheWay, Together, Holding
<1>11. Mine'
  BY <1>5, <1>6, <1>7, <1>8 DEF GroupInv, Mine
<1>12. MyWrite
  <2>1. slot'[Me] # slot[Me] => /\ slot'[Me].st = "CANCELLED" /\ slot'[Me].id = slot[Me].id
                                /\ slot[Me].st \in LeavesOver
    BY <1>4, <1>5, <1>6
  <2> QED
    BY <1>6, <2>1 DEF MyWrite, SlotStep, LeavesOver, Live
<1> QED
  BY <1>9, <1>10, <1>11, <1>12 DEF GroupInv

(* What retiring and abandoning the group's commit does to serve_client    *)
(* and the seam.                                                           *)
LEMMA RetiredIs ==
  ASSUME Shapes
  PROVE  /\ CtlShape(RetiredCtl) /\ RetiredCtl.at = ctl.at /\ RetiredCtl.pend = ctl.pend
         /\ SeamShape(RetiredSeam)
         /\ RetiredSeam.pub = seam.pub /\ RetiredSeam.in = seam.in /\ RetiredSeam.done = seam.done
<1>1. CtlShape(RetiredCtl) /\ RetiredCtl.at = ctl.at /\ RetiredCtl.pend = ctl.pend
  BY DEF Shapes, CtlShape, RetiredCtl
<1>2. ASSUME NEW id, NEW epoch
      PROVE  /\ SeamShape(Fenced(id, epoch)) /\ Fenced(id, epoch).pub = seam.pub
             /\ Fenced(id, epoch).in = seam.in /\ Fenced(id, epoch).done = seam.done
  <2> DEFINE n == seam.cgen + 1
             z == [seam EXCEPT !.cgen = n, !.cid = id, !.csess = auth.sess, !.cepoch = epoch]
  <2>1. Fenced(id, epoch) = z
    BY DEF Fenced
  <2> HIDE DEF n
  <2>2. ASSUME NEW y, y = z
        PROVE  SeamShape(y) /\ y.pub = seam.pub /\ y.in = seam.in /\ y.done = seam.done
    BY <2>2 DEF Shapes, SeamShape
  <2> HIDE DEF z
  <2> QED
    BY <2>1, <2>2
<1>3. RetiredSeam = seam \/ RetiredSeam = Fenced(RetireId, grp.epoch)
  BY DEF RetiredSeam
<1> QED
  BY <1>1, <1>2, <1>3 DEF Shapes

(* A commit that is abandoned.                                             *)
LEMMA AbandonedIs ==
  ASSUME NEW c, CtlShape(c)
  PROVE  CtlShape(Abandoned(c)) /\ Abandoned(c).at = c.at
BY DEF CtlShape, Abandoned

(* The answers at the top of the loop.                                     *)
LEMMA AnsweredIs ==
  ASSUME NEW c, CtlShape(c)
  PROVE  /\ CtlShape(Answered(c)) /\ Answered(c).at = "poll"
         /\ seam.done # c.pend.ticket =>
              Answered(c).pend = c.pend /\ (c.waiting => Answered(c).waiting)
<1> DEFINE m == IF c.mode # NoMode /\ seam.mdone = c.mode.ticket THEN NoMode ELSE c.mode
           w == c.waiting /\ seam.done # c.pend.ticket
           p == IF seam.done = c.pend.ticket THEN NoRef ELSE c.pend
           k == IF c.waiting /\ seam.done = c.pend.ticket /\ seam.ok THEN NoCand ELSE c.cand
           z == [c EXCEPT !.mode = m, !.waiting = w, !.pend = p, !.cand = k, !.at = "poll"]
<1>1. Answered(c) = z
  BY DEF Answered
<1>2. seam.done # c.pend.ticket => p = c.pend /\ (c.waiting => w)
  OBVIOUS
<1> HIDE DEF m, w, p, k
<1>3. ASSUME NEW y, y = z
      PROVE  CtlShape(y) /\ y.at = "poll" /\ y.pend = p /\ (w => y.waiting)
  BY <1>3 DEF CtlShape
<1> HIDE DEF z
<1> QED
  BY <1>1, <1>2, <1>3

(* GROUP_CANCEL.                                                           *)
LEMMA CancelKeeps ==
  ASSUME GroupInv, GCancel
  PROVE  GroupInv' /\ MyWrite
<1>1. /\ grp.joined /\ Leaves /\ UNCHANGED <<auth, tick, told, gt, beat, env>>
      /\ \E c \in {ctl, RetiredCtl} : ctl' = [Abandoned(c) EXCEPT !.at = "top"]
      /\ seam' \in {seam, RetiredSeam}
  BY DEF GCancel
<1>2. PICK c \in {ctl, RetiredCtl} : ctl' = [Abandoned(c) EXCEPT !.at = "top"]
  BY <1>1
<1>3. Shapes
  BY DEF GroupInv
<1>4. CtlShape(c)
  BY <1>2, <1>3, RetiredIs DEF Shapes
<1>5. CtlShape(ctl') /\ ctl'.at = "top"
  <2>1. CtlShape(Abandoned(c))
    BY <1>4, AbandonedIs
  <2> QED
    BY <1>2, <2>1 DEF CtlShape
<1>6. SeamShape(seam') /\ seam'.pub = seam.pub /\ seam'.in = seam.in /\ seam'.done = seam.done
  BY <1>1, <1>3, RetiredIs DEF Shapes
<1>7. Shapes'
  BY <1>1, <1>3, <1>5, <1>6 DEF Shapes
<1> QED
  BY <1>1, <1>5, <1>6, <1>7, LeaveKeeps

(* The group ends.                                                         *)
LEMMA EndKeeps ==
  ASSUME GroupInv, WatchEnds
  PROVE  GroupInv' /\ MyWrite
<1> DEFINE d == [Abandoned(RetiredCtl) EXCEPT !.waiting = @ /\ ~gsh.event]
<1>1. /\ grp.joined /\ Leaves /\ UNCHANGED <<auth, tick, told, gt, beat, env>>
      /\ ctl' = Answered(d) /\ seam' = RetiredSeam
  BY DEF WatchEnds
<1>2. Shapes
  BY DEF GroupInv
<1>3. CtlShape(Abandoned(RetiredCtl))
  BY <1>2, RetiredIs, AbandonedIs
<1>4. CtlShape(d)
  BY <1>3 DEF CtlShape
<1> HIDE DEF d
<1>5. CtlShape(ctl') /\ ctl'.at = "poll"
  BY <1>1, <1>4, AnsweredIs
<1>6. SeamShape(seam') /\ seam'.pub = seam.pub /\ seam'.in = seam.in /\ seam'.done = seam.done
  BY <1>1, <1>2, RetiredIs
<1>7. Shapes'
  BY <1>1, <1>2, <1>5, <1>6 DEF Shapes
<1> QED
  BY <1>1, <1>5, <1>6, <1>7, LeaveKeeps

(* GROUP_COMMIT, too late.                                                 *)
LEMMA LateKeeps ==
  ASSUME GroupInv, GCommitLate
  PROVE  GroupInv' /\ MyWrite
<1>1. /\ grp.joined /\ Leaves /\ UNCHANGED <<auth, seam, tick, told, gt, beat, env>>
      /\ ctl' = [ctl EXCEPT !.at = "top"]
  BY DEF GCommitLate, GCommitFits
<1>2. Shapes' /\ ctl'.at = "top"
  BY <1>1 DEF GroupInv, Shapes, CtlShape, SeamShape, TickShape, RefShape
<1> QED
  BY <1>1, <1>2, LeaveKeeps

(* GROUP_COMMIT: the handler looks.                                        *)
LEMMA CheckKeeps ==
  ASSUME GroupInv, GCommitCheck
  PROVE  GroupInv' /\ MyWrite
<1>1. /\ auth' = auth /\ seam' = seam /\ tick' = tick /\ grp' = grp /\ gsh' = gsh /\ gt' = gt
      /\ slot' = slot /\ env' = env /\ ctl' = [ctl EXCEPT !.at = "commit"]
      /\ grp.joined /\ <<Me, grp.id>> \notin env.was
  BY DEF GCommitCheck, GCommitFits, groupVars
<1>2. Shapes' /\ ctl'.at = "commit" /\ ctl'.pend = ctl.pend /\ ctl'.waiting = ctl.waiting
  BY <1>1 DEF GroupInv, Shapes, CtlShape, SeamShape, TickShape, RefShape
<1>3. Types' /\ Tickets' /\ OnTheWay' /\ MyWrite
  BY <1>1 DEF GroupInv, Types, Tickets, OnTheWay, Together, MyWrite
<1>4. Holding' /\ Mine'
  BY <1>1, <1>2 DEF GroupInv, Holding, Mine
<1> QED
  BY <1>2, <1>3, <1>4 DEF GroupInv

(* GROUP_COMMIT: the slot says COMMITTED, and the commit is held.          *)
LEMMA WriteKeeps ==
  ASSUME GroupInv, GCommitWrite
  PROVE  GroupInv' /\ MyWrite
<1> DEFINE p == Pending(grp.id)
<1>1. /\ auth' = auth /\ seam' = seam /\ tick' = tick /\ gt' = gt /\ ctl.at = "commit"
      /\ ctl' = [ctl EXCEPT !.pend = p, !.waiting = TRUE, !.at = "top"]
      /\ grp' = [grp EXCEPT !.hold = TRUE, !.commit = TRUE]
      /\ slot' = [slot EXCEPT ![Me] = [st |-> "COMMITTED", id |-> grp.id]]
      /\ gsh' = [gsh EXCEPT !.committed = TRUE]
      /\ env' = [env EXCEPT !.was = env.was \cup {<<Me, grp.id>>}]
  BY DEF GCommitWrite
<1>2. p.grp = grp.id /\ p.ticket = seam.pub + 1
  BY DEF Pending
<1> HIDE DEF p
<1>3. /\ Me \in Members /\ Me \notin Peers /\ slot \in [Members -> SlotT] /\ grp \in GrpT
      /\ gsh \in GshT /\ grp.id \in Nat /\ grp.joined /\ <<Me, grp.id>> \notin env.was
      /\ slot[Me].id = grp.id /\ slot[Me].st \in {"STAGED", "FAULTED"} /\ gsh.id = grp.id
      /\ gsh.active
  BY <1>1, GroupAssumption DEF Members, GroupInv, Types, SlotT, GrpT, GshT, Mine
<1>4. Shapes' /\ ctl'.at = "top" /\ ctl'.pend = p /\ ctl'.waiting
  BY <1>1 DEF GroupInv, Shapes, CtlShape, SeamShape, TickShape, RefShape
<1>5. grp' \in GrpT /\ grp'.joined /\ grp'.id = grp.id
  BY <1>1, <1>3 DEF GrpT
<1>6. gsh' \in GshT /\ gsh'.active /\ gsh'.id = gsh.id
  BY <1>1, <1>3 DEF GshT
<1>7. /\ slot' \in [Members -> SlotT] /\ slot'[Me] = [st |-> "COMMITTED", id |-> grp.id]
      /\ \A b \in Peers : slot'[b] = slot[b]
  BY <1>1, <1>3 DEF SlotT, States, Live, Members
<1>8. /\ env'.last = env.last /\ env'.was = env.was \cup {<<Me, grp.id>>}
      /\ env' = [last |-> env'.last, late |-> env'.late, contended |-> env'.contended,
                 was |-> env'.was]
  BY <1>1 DEF GroupInv, Types
<1>9. Types' /\ Tickets'
  BY <1>1, <1>5, <1>6, <1>7, <1>8 DEF GroupInv, Types, GrpT, GshT, SlotT, Tickets
<1>10. OnTheWay'
  BY <1>1, <1>7, <1>8 DEF GroupInv, OnTheWay, Together
<1>11. Holding'
  BY <1>1, <1>2, <1>4, <1>5, <1>8 DEF GroupInv, Holding
<1>12. Mine'
  BY <1>3, <1>4, <1>5, <1>6, <1>7, <1>8 DEF GroupInv, Mine
<1>13. MyWrite
  BY <1>3, <1>7 DEF MyWrite, SlotStep
<1> QED
  BY <1>4, <1>9, <1>10, <1>11, <1>12, <1>13 DEF GroupInv

(* The watch releases a held commit: every slot says that its member has   *)
(* committed to this very group.                                           *)
LEMMA ReleaseKeeps ==
  ASSUME GroupInv, WatchReleases
  PROVE  GroupInv' /\ MyWrite
<1>1. /\ auth' = auth /\ seam' = seam /\ tick' = tick /\ gsh' = gsh /\ gt' = gt
      /\ slot' = slot /\ env' = env /\ ctl' = [ctl EXCEPT !.at = "publish"]
      /\ grp' = [grp EXCEPT !.hold = FALSE] /\ grp.hold /\ AllCommitted /\ PeersOk(grp.id)
  BY DEF WatchReleases, GroupOver
<1>2. grp \in GrpT /\ ctl.pend.grp = grp.id /\ <<Me, grp.id>> \in env.was
      /\ ctl.pend.ticket = seam.pub + 1
  BY <1>1 DEF GroupInv, Types, GrpT, Holding
<1>3. ASSUME ctl.pend.grp \in Groups, NEW m \in Members PROVE <<m, ctl.pend.grp>> \in env.was
  <2>1. CASE m = Me
    BY <1>2, <2>1
  <2>2. CASE m \in Peers
    <3>1. slot[m].id = grp.id /\ slot[m].st \in Past
      BY <1>1, <2>2 DEF PeersOk, PeerOk, AllCommitted, Past
    <3> QED
      BY <1>2, <1>3, <2>2, <3>1 DEF GroupInv, OnTheWay
  <2> QED
    BY <2>1, <2>2 DEF Members
<1>4. Shapes' /\ ctl'.at = "publish" /\ ctl'.pend = ctl.pend
  BY <1>1 DEF GroupInv, Shapes, CtlShape, SeamShape, TickShape, RefShape
<1>5. grp' \in GrpT /\ ~grp'.hold /\ grp'.joined = grp.joined /\ grp'.id = grp.id
  BY <1>1, <1>2 DEF GrpT
<1>6. Types' /\ Tickets' /\ OnTheWay' /\ MyWrite
  BY <1>1, <1>5 DEF GroupInv, Types, GrpT, Tickets, OnTheWay, Together, MyWrite
<1>7. Holding'
  <2>1. Together(ctl.pend)'
    BY <1>1, <1>3, <1>4 DEF Together
  <2> QED
    BY <1>1, <1>2, <1>4, <1>5, <2>1 DEF Holding
<1>8. Mine'
  BY <1>1, <1>4, <1>5 DEF GroupInv, Mine
<1> QED
  BY <1>4, <1>6, <1>7, <1>8 DEF GroupInv

(* What was released is published.                                         *)
LEMMA PublishKeeps ==
  ASSUME GroupInv, Publish
  PROVE  GroupInv' /\ MyWrite
<1>1. /\ auth' = auth /\ tick' = tick /\ grp' = grp /\ gsh' = gsh /\ gt' = gt
      /\ slot' = slot /\ env' = env /\ ctl.at = "publish" /\ ctl' = [ctl EXCEPT !.at = "poll"]
      /\ seam' = [seam EXCEPT !.in = ctl.pend, !.pub = ctl.pend.ticket]
  BY DEF Publish, Published, groupVars
<1>2. Together(ctl.pend) /\ ctl.pend.ticket = seam.pub + 1
  BY <1>1 DEF GroupInv, Holding
<1>3. /\ Shapes' /\ ctl'.at = "poll" /\ ctl'.pend = ctl.pend /\ ctl'.waiting = ctl.waiting
      /\ seam'.in = ctl.pend /\ seam'.pub = seam.pub + 1 /\ seam'.done = seam.done
  BY <1>1, <1>2 DEF GroupInv, Shapes, CtlShape, SeamShape, TickShape, RefShape
<1>4. Types' /\ Tickets' /\ MyWrite
  BY <1>1, <1>3 DEF GroupInv, Types, Tickets, MyWrite
<1>5. OnTheWay'
  BY <1>1, <1>2, <1>3 DEF GroupInv, OnTheWay, Together
<1>6. Mine'
  BY <1>1, <1>3 DEF GroupInv, Mine
<1>7. Holding'
  BY <1>1, <1>3 DEF GroupInv, Holding
<1> QED
  BY <1>3, <1>4, <1>5, <1>6, <1>7 DEF GroupInv

(* The watch lets the group go on: a held commit is not answered, its      *)
(* ticket being ahead of all that are.                                     *)
LEMMA GoesOnKeeps ==
  ASSUME GroupInv, WatchGoesOn
  PROVE  GroupInv' /\ MyWrite
<1>1. /\ auth' = auth /\ seam' = seam /\ tick' = tick /\ gsh' = gsh /\ gt' = gt
      /\ slot' = slot /\ env' = env /\ ctl' = Answered(ctl)
      /\ grp' = [grp EXCEPT !.commit = grp.commit /\ ~CommitDone]
  BY DEF WatchGoesOn, Top
<1>2. CtlShape(ctl) /\ grp \in GrpT
  BY DEF GroupInv, Shapes, Types, GrpT
<1>3. grp.hold => seam.done # ctl.pend.ticket
  BY DEF GroupInv, Holding, Tickets
<1>4. /\ CtlShape(ctl') /\ ctl'.at = "poll"
      /\ grp.hold => ctl'.pend = ctl.pend /\ ctl'.waiting
  <2>1. grp.hold => ctl.waiting
    BY DEF GroupInv, Holding
  <2> QED
    BY <1>1, <1>2, <1>3, <2>1, AnsweredIs
<1>5. Shapes'
  BY <1>1, <1>4 DEF GroupInv, Shapes
<1>6. grp' \in GrpT /\ grp'.hold = grp.hold /\ grp'.joined = grp.joined /\ grp'.id = grp.id
  <2> DEFINE x == grp.commit /\ ~CommitDone
  <2>1. x \in BOOLEAN /\ grp' = [grp EXCEPT !.commit = x]
    BY <1>1
  <2> HIDE DEF x
  <2> QED
    BY <1>2, <2>1 DEF GrpT
<1>7. Types' /\ Tickets' /\ OnTheWay' /\ MyWrite
  BY <1>1, <1>6 DEF GroupInv, Types, GrpT, Tickets, OnTheWay, Together, MyWrite
<1>8. Holding' /\ Mine'
  BY <1>1, <1>4, <1>6 DEF GroupInv, Holding, Mine
<1> QED
  BY <1>5, <1>7, <1>8 DEF GroupInv

(* The session ends, and its group with it.                                *)
LEMMA SessionKeeps ==
  ASSUME GroupInv, GSessionEnds
  PROVE  GroupInv' /\ MyWrite
<1>1. /\ seam' = seam /\ tick' = tick /\ gt' = gt /\ env' = env /\ ctl' = FreshCtl
      /\ auth' = [auth EXCEPT !.fault = auth.fault \/ auth.armed, !.sess = 0, !.opted = FALSE]
      /\ grp' = NoGroup
      /\ gsh' = [gsh EXCEPT !.active = FALSE, !.committed = FALSE, !.event = FALSE, !.id = 0]
      /\ slot' = [slot EXCEPT ![Me] = IF gsh.id = 0 THEN slot[Me]
                                      ELSE [st |-> "CANCELLED", id |-> gsh.id]]
  BY DEF GSessionEnds, SessionEnds
<1>2. /\ Me \in Members /\ Me \notin Peers /\ slot \in [Members -> SlotT] /\ gsh \in GshT
      /\ auth \in AuthT /\ slot[Me] \in SlotT /\ gsh.id \in Nat
      /\ gsh.id # 0 => slot[Me].id = gsh.id /\ slot[Me].st # "NONE"
  BY GroupAssumption DEF Members, GroupInv, Types, SlotT, GshT, Mine
<1>3. auth' \in AuthT /\ auth'.sess = 0
  <2> DEFINE x == auth.fault \/ auth.armed
  <2>1. x \in BOOLEAN /\ auth' = [auth EXCEPT !.fault = x, !.sess = 0, !.opted = FALSE]
    BY <1>1
  <2> HIDE DEF x
  <2>2. auth' \in AuthT
    BY <1>2, <2>1, AuthTyped
  <2> QED
    BY <1>2, <2>1, <2>2 DEF AuthT
<1> DEFINE t == IF gsh.id = 0 THEN slot[Me] ELSE [st |-> "CANCELLED", id |-> gsh.id]
<1>4. /\ t \in SlotT /\ t.id = slot[Me].id
      /\ t # slot[Me] => t.st = "CANCELLED" /\ slot[Me].st # "NONE"
  BY <1>2 DEF SlotT, States
<1> HIDE DEF t
<1>5. slot' \in [Members -> SlotT] /\ slot'[Me] = t /\ \A b \in Peers : slot'[b] = slot[b]
  BY <1>1, <1>2, <1>4 DEF Members, t
<1>6. grp' \in GrpT /\ ~grp'.joined /\ ~grp'.hold
  BY <1>1 DEF NoGroup, GrpT
<1>7. gsh' \in GshT /\ ~gsh'.active /\ ~gsh'.committed /\ gsh'.id = 0
  BY <1>1, <1>2 DEF GshT
<1>8. Shapes' /\ ctl'.at = "poll"
  BY <1>1 DEF GroupInv, Shapes, CtlShape, SeamShape, TickShape, RefShape, FreshCtl
<1>9. Types' /\ Tickets'
  BY <1>1, <1>3, <1>5, <1>6, <1>7 DEF GroupInv, Types, GrpT, GshT, SlotT, Tickets
<1>10. OnTheWay' /\ Holding'
  BY <1>1, <1>5, <1>6, <1>8 DEF GroupInv, OnTheWay, Together, Holding
<1>11. Mine'
  BY <1>1, <1>4, <1>5, <1>6, <1>7, <1>8 DEF GroupInv, Mine
<1>12. MyWrite
  BY <1>3, <1>4, <1>5 DEF MyWrite, SlotStep
<1> QED
  BY <1>8, <1>9, <1>10, <1>11, <1>12 DEF GroupInv

-----------------------------------------------------------------------------
(* The tick.                                                               *)

(* It samples, settles its mode and epoch, and reads the commit.           *)
LEMMA BeginKeeps ==
  ASSUME GroupInv, TickBegin
  PROVE  GroupInv' /\ MyWrite
<1>1. /\ auth' = auth /\ ctl' = ctl /\ grp' = grp /\ gsh' = gsh /\ gt' = gt
      /\ slot' = slot /\ env' = env
  BY DEF TickBegin, ModeStep, groupVars
<1> DEFINE T(m, r) ==
             [tick EXCEPT !.at = "select", !.armed = auth.armed, !.fault = auth.fault,
                          !.gen = auth.gen, !.sess = auth.sess,
                          !.mode = m, !.mseen = seam.mpub, !.ref = r,
                          !.high = IF r.sess = tick.ref.sess /\ r.gen = tick.ref.gen
                                   THEN @ ELSE 0,
                          !.pub = seam.pub,
                          !.com = IF seam.pub # tick.seen THEN seam.in ELSE @]
           S(m) == [seam EXCEPT !.mdone = seam.mpub, !.mgen = m.mgen, !.min = NoMode]
           R(m, m0) == Reset(IF m = m0 THEN tick.ref ELSE Retired(tick.ref))
<1>0. \E m0 \in {Seeded(auth.armed)} : \E m \in {ConfirmedMode(m0, auth.armed /\ ~auth.fault)} :
      \E r \in {R(m, m0)} : tick' = T(m, r) /\ seam' = S(m)
  BY DEF TickBegin, ModeStep
<1> HIDE DEF T, S, R
<1>2. PICK m0, m, r : r = R(m, m0) /\ tick' = T(m, r) /\ seam' = S(m)
  BY <1>0
<1>3. RefShape(r) /\ (r.grp = tick.ref.grp \/ r.grp = 0)
  <2>1. RefShape(tick.ref)
    BY DEF GroupInv, Shapes
  <2>2. RefShape(Retired(tick.ref)) /\ Retired(tick.ref).grp = tick.ref.grp
    BY <2>1 DEF RefShape, Retired
  <2>3. ASSUME NEW x, RefShape(x) PROVE RefShape(Reset(x)) /\ Reset(x).grp \in {x.grp, 0}
    BY <2>3 DEF RefShape, Reset, NoInfo
  <2> QED
    BY <1>2, <2>1, <2>2, <2>3 DEF R
<1>4. /\ TickShape(tick') /\ tick'.ref = r /\ tick'.pub = seam.pub
      /\ tick'.com \in {seam.in, tick.com}
  <2> DEFINE h == IF r.sess = tick.ref.sess /\ r.gen = tick.ref.gen THEN tick.high ELSE 0
             k == IF seam.pub # tick.seen THEN seam.in ELSE tick.com
  <2>1. tick' = [tick EXCEPT !.at = "select", !.armed = auth.armed, !.fault = auth.fault,
                      !.gen = auth.gen, !.sess = auth.sess, !.mode = m, !.mseen = seam.mpub,
                      !.ref = r, !.high = h, !.pub = seam.pub, !.com = k]
    BY <1>2 DEF T
  <2>2. k \in {seam.in, tick.com}
    OBVIOUS
  <2> HIDE DEF h, k
  <2> QED
    BY <2>1, <2>2 DEF GroupInv, Shapes, TickShape
<1>5. /\ SeamShape(seam') /\ seam'.pub = seam.pub /\ seam'.in = seam.in /\ seam'.done = seam.done
  BY <1>2 DEF GroupInv, Shapes, SeamShape, S
<1>6. Shapes'
  BY <1>1, <1>3, <1>4, <1>5 DEF GroupInv, Shapes
<1>7. Types' /\ Tickets' /\ MyWrite
  BY <1>1, <1>4, <1>5 DEF GroupInv, Types, Tickets, MyWrite
<1>8. OnTheWay'
  BY <1>1, <1>3, <1>4, <1>5, NoGroupZero DEF GroupInv, OnTheWay, Together
<1>9. Holding' /\ Mine'
  BY <1>1, <1>5 DEF GroupInv, Holding, Together, Mine
<1> QED
  BY <1>6, <1>7, <1>8, <1>9 DEF GroupInv

(* Evaluating and retiring a reference keeps its group.                    *)
LEMMA EvaluatedIs ==
  ASSUME NEW r, RefShape(r)
  PROVE  /\ RefShape(Retired(r)) /\ Retired(r).grp = r.grp
         /\ \A e \in Evaluated(r) : RefShape(e) /\ e.grp = r.grp
<1>1. RefShape(Retired(r)) /\ Retired(r).grp = r.grp
  BY DEF RefShape, Retired
<1>2. ASSUME NEW x PROVE RefShape([r EXCEPT !.st = x]) /\ [r EXCEPT !.st = x].grp = r.grp
  <2>1. ASSUME NEW y, y = [r EXCEPT !.st = x] PROVE RefShape(y) /\ y.grp = r.grp
    BY <2>1 DEF RefShape
  <2> QED
    BY <2>1
<1>3. ASSUME NEW e \in Evaluated(r) PROVE RefShape(e) /\ e.grp = r.grp
  <2>1. e = r \/ \E x : e = [r EXCEPT !.st = x]
    BY <1>3 DEF Evaluated
  <2> QED
    BY <1>2, <2>1
<1> QED
  BY <1>1, <1>3

(* What a tick may do to the member's slot: it goes on in its group, and   *)
(* leaves FAULTED and DONE alone.                                          *)
Goes(s, x) ==
  /\ x \in SlotT /\ x.id = s.id
  /\ x # s => /\ s.st \notin {"FAULTED", "DONE"} /\ SlotStep(s, x)
              /\ x.st = "FAULTED" \/ s.st = "COMMITTED" \/ gsh.committed

(* A tick that does so, and follows what it is meant to.                   *)
LEMMA TickKeeps ==
  ASSUME GroupInv, NEW x, Shapes', UNCHANGED <<auth, ctl, told, grp, beat>>,
         slot' = [slot EXCEPT ![Me] = x], x # slot[Me] => grp.joined,
         Goes(slot[Me], x),
         gt' \in [id : Nat, tripped : BOOLEAN, mirrored : BOOLEAN, stamp : BOOLEAN, done : BOOLEAN],
         gsh' \in GshT, gsh'.active = gsh.active, gsh'.committed = gsh.committed, gsh'.id = gsh.id,
         env' = [last |-> env'.last, late |-> env'.late, contended |-> env'.contended,
                 was |-> env'.was],
         env'.last = env.last, env'.was = env.was,
         seam'.pub = seam.pub, seam'.in \in {NoRef, seam.in}, seam'.done \in {seam.done, tick.pub},
         tick'.pub = tick.pub, tick'.com \in {NoRef, tick.com}, Together(tick'.ref)
  PROVE  GroupInv' /\ MyWrite
<1>1. /\ Me \in Members /\ Me \notin Peers /\ slot \in [Members -> SlotT] /\ slot[Me] \in SlotT
  BY GroupAssumption DEF Members, GroupInv, Types, SlotT
<1>2. x \in SlotT /\ x.id = slot[Me].id
  BY DEF Goes
<1>3. slot' \in [Members -> SlotT] /\ slot'[Me] = x /\ \A b \in Peers : slot'[b] = slot[b]
  BY <1>1, <1>2 DEF Members
<1>4. Types' /\ Tickets'
  BY <1>3 DEF GroupInv, Types, GshT, SlotT, Tickets
<1>5. OnTheWay'
  <2>1. Together(NoRef)
    BY NoGroupZero DEF Together, NoRef
  <2>2. Together(seam'.in) /\ Together(tick'.com)
    BY <2>1 DEF GroupInv, OnTheWay
  <2>3. \A c : Together(c) => (c.grp \in Groups => \A m \in Members : <<m, c.grp>> \in env'.was)
    BY DEF Together
  <2>4. Together(seam.in)' /\ Together(tick.com)' /\ Together(tick.ref)'
    BY <2>2, <2>3 DEF Together
  <2> QED
    BY <1>3, <2>4 DEF GroupInv, OnTheWay
<1>6. Holding'
  BY DEF GroupInv, Holding, Together
<1>7. Mine'
  <2>1. x.st # "NONE" \/ x = slot[Me]
    BY DEF Goes, SlotStep
  <2>2. ASSUME grp.joined, <<Me, grp.id>> \notin env.was PROVE x.st \in {"STAGED", "FAULTED"}
    <3>1. slot[Me].st \in {"STAGED", "FAULTED"} /\ ~gsh.committed
      BY <2>2 DEF GroupInv, Mine
    <3> QED
      BY <3>1 DEF Goes
  <2> QED
    BY <1>2, <1>3, <2>1, <2>2 DEF GroupInv, Mine
<1>8. MyWrite
  BY <1>3 DEF MyWrite, Goes
<1> QED
  BY <1>4, <1>5, <1>6, <1>7, <1>8 DEF GroupInv

(* What the selection does to the seam and the tick.                       *)
LEMMA SelectIs ==
  ASSUME GroupInv, TickSelect
  PROVE  /\ Shapes' /\ UNCHANGED <<auth, ctl, told>>
         /\ seam'.pub = seam.pub /\ seam'.in \in {NoRef, seam.in}
         /\ seam'.done \in {seam.done, tick.pub}
         /\ tick'.pub = tick.pub /\ tick'.com \in {NoRef, tick.com} /\ Together(tick'.ref)
<1>1. /\ UNCHANGED <<auth, ctl, told>>
      /\ CtlShape(ctl) /\ SeamShape(seam) /\ TickShape(tick) /\ RefShape(tick.ref)
      /\ Together(tick.ref) /\ Together(tick.com)
  BY DEF TickSelect, GroupInv, Shapes, OnTheWay
<1> DEFINE Takes(c, r, h, ok) ==
             /\ tick' = [tick EXCEPT !.at = "report", !.com = NoRef, !.cseen = seam.cgen,
                                     !.seen = tick.pub,
                                     !.high = IF ok THEN c.id ELSE h,
                                     !.ref = IF ok THEN Selection(c) ELSE r]
             /\ seam' = [Handled(c) EXCEPT !.done = tick.pub, !.ok = ok]
           Waits(r, h) ==
             /\ tick' = [tick EXCEPT !.at = "report", !.cseen = seam.cgen, !.high = h, !.ref = r]
             /\ seam' = Handled(NoRef)
<1>2. \E x \in {Cancelled} : \E r \in Evaluated(x.ref) :
       \/ /\ tick.pub # tick.seen
          /\ \E timely \in BOOLEAN : \E c \in {tick.com} :
             \E ok \in {timely /\ Admits(c, r, x.high)} : Takes(c, r, x.high, ok)
       \/ tick.pub = tick.seen /\ Waits(r, x.high)
  BY DEF TickSelect
<1> HIDE DEF Takes, Waits
<1>3. PICK x, r :
        /\ x = Cancelled /\ r \in Evaluated(x.ref)
        /\ \/ tick.pub # tick.seen /\ \E ok : Takes(tick.com, r, x.high, ok)
           \/ tick.pub = tick.seen /\ Waits(r, x.high)
  BY <1>2
<1>4. RefShape(r) /\ Together(r)
  <2>1. x.ref \in {tick.ref, Retired(tick.ref)}
    BY <1>3 DEF Cancelled
  <2>2. RefShape(x.ref) /\ x.ref.grp = tick.ref.grp
    BY <1>1, <2>1, EvaluatedIs
  <2>3. RefShape(r) /\ r.grp = tick.ref.grp
    BY <1>3, <2>2, EvaluatedIs
  <2> QED
    BY <1>1, <2>3 DEF Together
<1>5. ASSUME NEW c
      PROVE  \E i \in {NoRef, seam.in} :
               Handled(c) = [seam EXCEPT !.in = i, !.cid = 0, !.csess = 0, !.cepoch = 0]
  BY DEF Handled
<1>6. CASE tick.pub = tick.seen
  <2>1. tick' = [tick EXCEPT !.at = "report", !.cseen = seam.cgen, !.high = x.high, !.ref = r]
        /\ seam' = Handled(NoRef)
    BY <1>3, <1>6 DEF Waits
  <2>2. PICK i \in {NoRef, seam.in} :
          seam' = [seam EXCEPT !.in = i, !.cid = 0, !.csess = 0, !.cepoch = 0]
    BY <1>5, <2>1
  <2>3. SeamShape(seam') /\ seam'.pub = seam.pub /\ seam'.in = i /\ seam'.done = seam.done
    BY <1>1, <2>2 DEF SeamShape
  <2>4. TickShape(tick') /\ tick'.ref = r /\ tick'.pub = tick.pub /\ tick'.com = tick.com
    BY <1>1, <2>1 DEF TickShape
  <2> QED
    BY <1>1, <1>4, <2>2, <2>3, <2>4 DEF Shapes
<1>7. CASE tick.pub # tick.seen
  <2>0. PICK ok : Takes(tick.com, r, x.high, ok)
    BY <1>3, <1>7
  <2>1. /\ tick' = [tick EXCEPT !.at = "report", !.com = NoRef, !.cseen = seam.cgen,
                                !.seen = tick.pub,
                                !.high = IF ok THEN tick.com.id ELSE x.high,
                                !.ref = IF ok THEN Selection(tick.com) ELSE r]
        /\ seam' = [Handled(tick.com) EXCEPT !.done = tick.pub, !.ok = ok]
    BY <2>0 DEF Takes
  <2>2. PICK i \in {NoRef, seam.in} :
          Handled(tick.com) = [seam EXCEPT !.in = i, !.cid = 0, !.csess = 0, !.cepoch = 0]
    BY <1>5
  <2>3. seam' = [seam EXCEPT !.in = i, !.cid = 0, !.csess = 0, !.cepoch = 0,
                             !.done = tick.pub, !.ok = ok]
    BY <1>1, <2>1, <2>2 DEF SeamShape
  <2>4. SeamShape(seam') /\ seam'.pub = seam.pub /\ seam'.in = i /\ seam'.done = tick.pub
    BY <1>1, <2>3 DEF SeamShape
  <2> DEFINE h == IF ok THEN tick.com.id ELSE x.high
             q == IF ok THEN Selection(tick.com) ELSE r
  <2>5. RefShape(q) /\ Together(q)
    BY <1>1, <1>4 DEF RefShape, Selection, Together
  <2>6. tick' = [tick EXCEPT !.at = "report", !.com = NoRef, !.cseen = seam.cgen,
                             !.seen = tick.pub, !.high = h, !.ref = q]
    BY <2>1
  <2> HIDE DEF h, q
  <2>7. TickShape(tick') /\ tick'.ref = q /\ tick'.pub = tick.pub /\ tick'.com = NoRef
    BY <1>1, <2>6 DEF TickShape
  <2> QED
    BY <1>1, <2>2, <2>4, <2>5, <2>7 DEF Shapes
<1> QED
  BY <1>6, <1>7

(* What a contended write costs.                                           *)
LEMMA SpendIs ==
  ASSUME GroupInv, NEW busy \in BOOLEAN, Spend(busy)
  PROVE  /\ env' = [last |-> env'.last, late |-> env'.late, contended |-> env'.contended,
                    was |-> env'.was]
         /\ env'.last = env.last /\ env'.was = env.was
<1> DEFINE n == env.contended + 1
<1>1. env' = [env EXCEPT !.contended = n] \/ env' = env
  BY DEF Spend
<1> HIDE DEF n
<1> QED
  BY <1>1 DEF GroupInv, Types

(* It selects, and a committed member's slot says RUNNING.                 *)
LEMMA SelectKeeps ==
  ASSUME GroupInv, GTickSelect
  PROVE  GroupInv' /\ MyWrite
<1>1. TickSelect /\ UNCHANGED <<grp, gsh, beat>>
  BY DEF GTickSelect
<1>2. /\ Shapes' /\ UNCHANGED <<auth, ctl, told>>
      /\ seam'.pub = seam.pub /\ seam'.in \in {NoRef, seam.in}
      /\ seam'.done \in {seam.done, tick.pub}
      /\ tick'.pub = tick.pub /\ tick'.com \in {NoRef, tick.com} /\ Together(tick'.ref)
  BY <1>1, SelectIs
<1>3. /\ gsh \in GshT /\ slot \in [Members -> SlotT] /\ slot[Me] \in SlotT /\ Me \in Members
      /\ gt \in [id : Nat, tripped : BOOLEAN, mirrored : BOOLEAN, stamp : BOOLEAN, done : BOOLEAN]
      /\ env = [last |-> env.last, late |-> env.late, contended |-> env.contended,
                was |-> env.was]
  BY DEF GroupInv, Types, GshT, SlotT, Members
<1>4. Goes(slot[Me], slot[Me])
  BY <1>3 DEF Goes
<1>5. CASE UNCHANGED <<gt, slot, env>>
  <2>1. slot' = [slot EXCEPT ![Me] = slot[Me]]
    BY <1>3, <1>5
  <2> QED
    BY <1>1, <1>2, <1>3, <1>4, <1>5, <2>1, TickKeeps
<1>6. ASSUME NEW busy \in BOOLEAN, gsh.active,
             gt' = [gt EXCEPT !.stamp = busy], Spend(busy),
             slot' = [slot EXCEPT ![Me] =
                 IF busy THEN @ ELSE Put(@, "RUNNING", {"COMMITTED"}, gsh.id)]
      PROVE  GroupInv' /\ MyWrite
  <2> DEFINE x == IF busy THEN slot[Me] ELSE Put(slot[Me], "RUNNING", {"COMMITTED"}, gsh.id)
  <2>1. slot' = [slot EXCEPT ![Me] = x]
    BY <1>3, <1>6
  <2>2. grp.joined /\ slot[Me].id = gsh.id
    BY <1>6 DEF GroupInv, Mine
  <2>3. Goes(slot[Me], x)
    BY <1>3, <1>4, <2>2 DEF Goes, Put, SlotT, SlotStep, States, Live
  <2>4. gt' \in [id : Nat, tripped : BOOLEAN, mirrored : BOOLEAN, stamp : BOOLEAN, done : BOOLEAN]
    BY <1>3, <1>6
  <2>5. /\ env' = [last |-> env'.last, late |-> env'.late, contended |-> env'.contended,
                   was |-> env'.was]
        /\ env'.last = env.last /\ env'.was = env.was
    BY <1>6, SpendIs
  <2> HIDE DEF x
  <2> QED
    BY <1>1, <1>2, <1>3, <2>1, <2>2, <2>3, <2>4, <2>5, TickKeeps
<1>7. Contended \subseteq BOOLEAN
  BY DEF Contended
<1> QED
  BY <1>5, <1>6, <1>7 DEF GTickSelect

GtT == [id : Nat, tripped : BOOLEAN, mirrored : BOOLEAN, stamp : BOOLEAN, done : BOOLEAN]

(* The tick's group state, and the group it is of when it is enforced.     *)
LEMMA TickStateIs ==
  ASSUME GroupInv
  PROVE  TickState \in GtT /\ (Enforces => TickState.id = gsh.id)
<1>1. gt \in GtT /\ gsh.id \in Nat /\ gt.id \in Nat
  BY DEF GroupInv, Types, GtT
<1>2. ASSUME NEW n \in Nat PROVE [NoTick EXCEPT !.id = n] \in GtT /\ [NoTick EXCEPT !.id = n].id = n
  BY DEF NoTick, GtT
<1> QED
  BY <1>1, <1>2 DEF TickState, Enforces

(* What the tick records leads its slot on in its group; so does the trip. *)
LEMMA RecordedIs ==
  ASSUME NEW s \in SlotT, NEW t \in GtT, t.id = s.id, s.st # "NONE"
  PROVE  /\ RecordedState(s, t) \in GtT /\ RecordedState(s, t).id = s.id
         /\ \A r \in {s, Recorded(s, t)} : \A c \in {r, Put(r, "CANCELLED", Live, s.id)} :
              c = r \/ gsh.committed => Goes(s, c)
<1>1. RecordedState(s, t) \in GtT /\ RecordedState(s, t).id = s.id
  <2> DEFINE d == t.done \/ Ends(Stamped(s, t), t)
             m == t.mirrored \/ Mirrors(t)
  <2>1. RecordedState(s, t) = [t EXCEPT !.stamp = FALSE, !.done = d, !.mirrored = m]
    BY DEF RecordedState, GtT
  <2>2. d \in BOOLEAN /\ m \in BOOLEAN
    OBVIOUS
  <2> HIDE DEF d, m
  <2> QED
    BY <2>1, <2>2 DEF GtT
<1>2. ASSUME NEW r \in {s, Recorded(s, t)}, NEW c \in {r, Put(r, "CANCELLED", Live, s.id)},
             c = r \/ gsh.committed
      PROVE  Goes(s, c)
  <2> DEFINE s1 == Stamped(s, t)
             s2 == IF Ends(s1, t) THEN [st |-> "DONE", id |-> t.id] ELSE s1
             s3 == IF Mirrors(t) THEN Put(s2, "FAULTED", States \ {"DONE"}, t.id) ELSE s2
  <2>1. s1 = s \/ (s.st = "COMMITTED" /\ s1 = [st |-> "RUNNING", id |-> s.id])
    BY DEF Stamped, Put
  <2>2. s2 = s1 \/ (s1.st = "RUNNING" /\ gsh.committed /\ s2 = [st |-> "DONE", id |-> s.id])
    BY DEF Ends
  <2>3. s3 = s2 \/ (s2.st # "DONE" /\ s3 = [st |-> "FAULTED", id |-> s.id])
    BY DEF Put
  <2>4. Recorded(s, t) = s3
    BY DEF Recorded
  <2>5. c = r \/ (r.st \in Live /\ gsh.committed /\ c = [st |-> "CANCELLED", id |-> s.id])
    BY <1>2 DEF Put
  <2> HIDE DEF s1, s2, s3
  <2>6. r = s \/ r = s3
    BY <2>4
  <2>7. s = [st |-> s.st, id |-> s.id] /\ s.st \in States /\ s.id \in Nat
    BY DEF SlotT
  <2>8. \/ r = s
        \/ r = [st |-> "RUNNING", id |-> s.id] /\ s.st = "COMMITTED"
        \/ r = [st |-> "DONE", id |-> s.id] /\ gsh.committed /\ s.st \in {"RUNNING", "COMMITTED"}
        \/ r = [st |-> "FAULTED", id |-> s.id] /\ s.st # "DONE"
    BY <2>1, <2>2, <2>3, <2>6, <2>7
  <2>9. \/ c = s
        \/ c = [st |-> "RUNNING", id |-> s.id] /\ s.st = "COMMITTED"
        \/ c = [st |-> "DONE", id |-> s.id] /\ gsh.committed /\ s.st \in {"RUNNING", "COMMITTED"}
        \/ c = [st |-> "FAULTED", id |-> s.id] /\ s.st # "DONE"
        \/ c = [st |-> "CANCELLED", id |-> s.id] /\ gsh.committed /\ s.st \in Live
    BY <2>5, <2>8 DEF Live
  <2> QED
    BY <2>7, <2>9 DEF Goes, SlotT, SlotStep, States, Live
<1> QED
  BY <1>1, <1>2

(* It reports, records and judges its peers.                               *)
LEMMA ReportKeeps ==
  ASSUME GroupInv, GTickReport
  PROVE  GroupInv' /\ MyWrite
<1>1. seam' = [seam EXCEPT !.fb = tick.ref] /\ UNCHANGED <<auth, ctl, told, grp, beat>>
  BY DEF GTickReport
<1>2. /\ gsh \in GshT /\ slot \in [Members -> SlotT] /\ slot[Me] \in SlotT /\ Me \in Members
      /\ env = [last |-> env.last, late |-> env.late, contended |-> env.contended,
                was |-> env.was]
      /\ CtlShape(ctl) /\ SeamShape(seam) /\ TickShape(tick) /\ RefShape(tick.ref)
      /\ Together(tick.ref)
  BY DEF GroupInv, Shapes, Types, GshT, SlotT, Members, OnTheWay
<1>3. SeamShape(seam') /\ seam'.pub = seam.pub /\ seam'.in = seam.in /\ seam'.done = seam.done
  BY <1>1, <1>2 DEF SeamShape
<1>4. TickState \in GtT /\ (Enforces => TickState.id = gsh.id)
  BY TickStateIs
<1>5. CASE ~Enforces
  <2>1. tick' = [tick EXCEPT !.at = "idle"] /\ gt' = TickState /\ UNCHANGED <<gsh, slot, env>>
    BY <1>5, Zenon DEF GTickReport
  <2>2. TickShape(tick') /\ tick'.ref = tick.ref /\ tick'.pub = tick.pub /\ tick'.com = tick.com
    BY <1>2, <2>1 DEF TickShape
  <2>3. slot' = [slot EXCEPT ![Me] = slot[Me]] /\ Goes(slot[Me], slot[Me])
    BY <1>2, <2>1 DEF Goes
  <2>4. Shapes'
    BY <1>1, <1>2, <1>3, <2>2 DEF Shapes
  <2>5. gt' \in [id : Nat, tripped : BOOLEAN, mirrored : BOOLEAN, stamp : BOOLEAN, done : BOOLEAN]
    BY <1>4, <2>1 DEF GtT
  <2> QED
    <3>1. gsh' \in GshT /\ gsh' = gsh /\ env' = env
      BY <1>2, <2>1
    <3>2. seam'.in \in {NoRef, seam.in} /\ seam'.done \in {seam.done, tick.pub}
          /\ tick'.com \in {NoRef, tick.com} /\ Together(tick'.ref)
      BY <1>2, <1>3, <2>2
    <3>3. env' = [last |-> env'.last, late |-> env'.late, contended |-> env'.contended,
                  was |-> env'.was]
      BY <1>2, <3>1
    <3> QED
      BY <1>1, <1>3, <2>2, <2>3, <2>4, <2>5, <3>1, <3>2, <3>3, TickKeeps
<1>6. CASE Enforces
  <2> DEFINE Does(busy, s, u, trips) ==
               /\ tick' = [tick EXCEPT !.at = "idle",
                    !.ref = IF trips /\ @.st = "RUNNING" THEN Retired(@) ELSE @]
               /\ gt' = [u EXCEPT !.tripped = @ \/ trips]
               /\ slot' = [slot EXCEPT ![Me] =
                    IF trips /\ ~busy THEN Put(s, "CANCELLED", Live, u.id) ELSE s]
               /\ gsh' = [gsh EXCEPT !.event = @ \/ trips]
               /\ Spend(busy)
  <2>1. \E busy \in Contended : \E t \in {TickState} :
           \E s \in {IF busy THEN slot[Me] ELSE Recorded(slot[Me], t)} :
           \E u \in {IF busy THEN t ELSE RecordedState(slot[Me], t)} :
           \E trips \in {gsh.committed /\ ~u.tripped /\ ~u.done /\ ~PeersOk(u.id)} :
             Does(busy, s, u, trips)
    BY <1>6 DEF GTickReport
  <2> HIDE DEF Does
  <2>2. PICK busy, s, u, trips :
          /\ busy \in Contended
          /\ s = IF busy THEN slot[Me] ELSE Recorded(slot[Me], TickState)
          /\ u = IF busy THEN TickState ELSE RecordedState(slot[Me], TickState)
          /\ trips \in BOOLEAN /\ (trips => gsh.committed)
          /\ Does(busy, s, u, trips)
    BY <2>1
  <2>3. busy \in BOOLEAN
    BY <2>2 DEF Contended
  <2>4. grp.joined /\ slot[Me].id = gsh.id /\ slot[Me].st # "NONE"
    BY <1>6 DEF Enforces, GroupInv, Mine
  <2>5. /\ RecordedState(slot[Me], TickState) \in GtT
        /\ RecordedState(slot[Me], TickState).id = slot[Me].id
        /\ \A r \in {slot[Me], Recorded(slot[Me], TickState)} :
           \A c \in {r, Put(r, "CANCELLED", Live, slot[Me].id)} :
              c = r \/ gsh.committed => Goes(slot[Me], c)
    <3>1. TickState \in GtT /\ TickState.id = slot[Me].id
      BY <1>4, <1>6, <2>4
    <3> QED
      BY <1>2, <2>4, <3>1, RecordedIs
  <2>6. u \in GtT /\ u.id = slot[Me].id
    BY <1>4, <1>6, <2>2, <2>4, <2>5
  <2> DEFINE x == IF trips /\ ~busy THEN Put(s, "CANCELLED", Live, u.id) ELSE s
             q == IF trips /\ tick.ref.st = "RUNNING" THEN Retired(tick.ref) ELSE tick.ref
             tr == u.tripped \/ trips
             ev == gsh.event \/ trips
  <2>7. Goes(slot[Me], x)
    BY <2>2, <2>5, <2>6
  <2>8. RefShape(q) /\ Together(q)
    BY <1>2, EvaluatedIs DEF Together
  <2>9. /\ tick' = [tick EXCEPT !.at = "idle", !.ref = q]
        /\ gt' = [u EXCEPT !.tripped = tr]
        /\ slot' = [slot EXCEPT ![Me] = x]
        /\ gsh' = [gsh EXCEPT !.event = ev]
        /\ Spend(busy)
    BY <1>2, <2>2, <2>6 DEF Does
  <2>10. tr \in BOOLEAN /\ ev \in BOOLEAN
    OBVIOUS
  <2> HIDE DEF x, q, tr, ev
  <2>11. TickShape(tick') /\ tick'.ref = q /\ tick'.pub = tick.pub /\ tick'.com = tick.com
    BY <1>2, <2>9 DEF TickShape
  <2>12. Shapes'
    BY <1>1, <1>2, <1>3, <2>8, <2>11 DEF Shapes
  <2>13. gt' \in [id : Nat, tripped : BOOLEAN, mirrored : BOOLEAN, stamp : BOOLEAN, done : BOOLEAN]
    BY <2>6, <2>9, <2>10 DEF GtT
  <2>14. /\ gsh' \in GshT /\ gsh'.active = gsh.active /\ gsh'.committed = gsh.committed
         /\ gsh'.id = gsh.id
    BY <1>2, <2>9, <2>10 DEF GshT
  <2>15. /\ env' = [last |-> env'.last, late |-> env'.late, contended |-> env'.contended,
                    was |-> env'.was]
         /\ env'.last = env.last /\ env'.was = env.was
    BY <2>3, <2>9, SpendIs
  <2> QED
    BY <1>1, <1>3, <2>4, <2>7, <2>8, <2>9, <2>11, <2>12, <2>13, <2>14, <2>15, TickKeeps
<1> QED
  BY <1>5, <1>6

-----------------------------------------------------------------------------
(* The others.                                                             *)

(* The slot of a peer that has moved: it says COMMITTED, or DONE where it  *)
(* has said COMMITTED of the same group, or nothing of either.             *)
LEMMA PeerStepIs ==
  ASSUME NEW z \in PeerSteps
  PROVE  /\ z[2] \in SlotT
         /\ z[2].st \in Past => \/ z[2].st = "COMMITTED"
                                \/ z[1].st = "COMMITTED" /\ z[1].id = z[2].id
<1>1. PICK x \in Slots \X Slots :
        /\ z = <<Seen(x[1]), Seen(x[2])>>
        /\ SlotStep(x[1], x[2]) \/ x[2] = Empty
  BY DEF PeerSteps
<1>2. x[1] \in Slots /\ x[2] \in Slots /\ z[1] = Seen(x[1]) /\ z[2] = Seen(x[2])
  BY <1>1
<1>3. ASSUME NEW s \in Slots
      PROVE  /\ Seen(s) \in SlotT /\ Seen(s).id = s.id /\ Seen(s).st # "RUNNING"
             /\ Seen(s).st = "DONE" => s.st = "DONE"
             /\ s.st \in {"RUNNING", "COMMITTED"} => Seen(s).st = "COMMITTED"
  <2> DEFINE v == IF s.st = "RUNNING" THEN "COMMITTED" ELSE IF s.st = "FAULTED" THEN "CANCELLED"
                  ELSE s.st
  <2>1. s.st \in States /\ s.id \in Nat /\ s = [st |-> s.st, id |-> s.id]
    BY GroupAssumption DEF Slots
  <2>2. Seen(s) = [st |-> v, id |-> s.id]
    BY <2>1 DEF Seen
  <2>3. v \in States /\ v # "RUNNING" /\ (v = "DONE" => s.st = "DONE")
        /\ (s.st \in {"RUNNING", "COMMITTED"} => v = "COMMITTED")
    BY <2>1 DEF States, Live
  <2> HIDE DEF v
  <2> QED
    BY <2>1, <2>2, <2>3 DEF SlotT
<1>4. ASSUME z[2].st = "DONE" PROVE z[1].st = "COMMITTED" /\ z[1].id = z[2].id
  <2>1. x[2].st = "DONE"
    BY <1>2, <1>3, <1>4
  <2>2. x[2].id = x[1].id /\ x[1].st \in {"RUNNING", "COMMITTED"}
    BY <1>1, <2>1 DEF SlotStep, Empty
  <2> QED
    BY <1>2, <1>3, <2>2
<1> QED
  BY <1>2, <1>3, <1>4 DEF Past

(* A peer's server writes its slot, or starts again.                       *)
LEMMA MovesKeeps ==
  ASSUME GroupInv, NEW b \in Peers, PeerMoves(b)
  PROVE  GroupInv' /\ MyWrite
<1>1. UNCHANGED <<refVars, grp, gsh, gt>>
  BY DEF PeerMoves
<1>2. PICK t :
        /\ \E z \in PeerSteps : z[1] = slot[b] /\ z[2] = t
        /\ slot' = [slot EXCEPT ![b] = t]
        /\ env' = IF t.st = "COMMITTED"
                  THEN [env EXCEPT !.was = env.was \cup {<<b, t.id>>}] ELSE env
  BY DEF PeerMoves
<1>3. /\ t \in SlotT
      /\ t.st \in Past => t.st = "COMMITTED" \/ (slot[b].st = "COMMITTED" /\ slot[b].id = t.id)
  BY <1>2, PeerStepIs
<1>4. /\ b \in Members /\ b # Me /\ Me \in Members /\ slot \in [Members -> SlotT]
      /\ env = [last |-> env.last, late |-> env.late, contended |-> env.contended,
                was |-> env.was]
  BY GroupAssumption DEF GroupInv, Types, SlotT, Members
<1>5. /\ slot' \in [Members -> SlotT] /\ slot'[Me] = slot[Me] /\ slot'[b] = t
      /\ \A m \in Members : m # b => slot'[m] = slot[m]
  BY <1>2, <1>3, <1>4
<1>6. /\ env' = [last |-> env'.last, late |-> env'.late, contended |-> env'.contended,
                 was |-> env'.was]
      /\ env'.last = env.last /\ env.was \subseteq env'.was
      /\ env'.was \subseteq env.was \cup {<<b, t.id>>}
      /\ t.st = "COMMITTED" => <<b, t.id>> \in env'.was
  BY <1>2, <1>4
<1>7. <<Me, grp.id>> \in env'.was <=> <<Me, grp.id>> \in env.was
  BY <1>4, <1>6
<1>8. /\ auth' = auth /\ ctl' = ctl /\ seam' = seam /\ tick' = tick
      /\ grp' = grp /\ gsh' = gsh /\ gt' = gt
  BY <1>1 DEF refVars
<1>9. Shapes' /\ Types' /\ Tickets' /\ MyWrite
  BY <1>5, <1>6, <1>8 DEF GroupInv, Shapes, Types, SlotT, Tickets, MyWrite
<1>10. OnTheWay'
  <2>1. Together(seam.in)' /\ Together(tick.com)' /\ Together(tick.ref)'
    BY <1>6, <1>8 DEF GroupInv, OnTheWay, Together
  <2>2. ASSUME NEW p \in Peers, slot'[p].st \in Past, slot'[p].id \in Groups
        PROVE  <<p, slot'[p].id>> \in env'.was
    <3>1. CASE p = b
      BY <1>3, <1>5, <1>6, <2>2, <3>1 DEF GroupInv, OnTheWay, Past
    <3>2. CASE p # b
      <4>1. slot'[p] = slot[p]
        BY <1>5, <3>2 DEF Members
      <4> QED
        BY <1>6, <2>2, <4>1 DEF GroupInv, OnTheWay
    <3> QED
      BY <3>1, <3>2
  <2> QED
    BY <2>1, <2>2 DEF OnTheWay
<1>11. Holding'
  BY <1>6, <1>7, <1>8 DEF GroupInv, Holding, Together
<1>12. Mine'
  BY <1>5, <1>6, <1>7, <1>8 DEF GroupInv, Mine
<1> QED
  BY <1>9, <1>10, <1>11, <1>12 DEF GroupInv

(* Heartbeats, deadlines, and steps that change nothing.                   *)
LEMMA IdleKeeps ==
  ASSUME GroupInv, UNCHANGED <<refVars, grp, gsh, gt, slot>>,
         env' = env \/ \E g : env' = [env EXCEPT !.late = @ \cup {g}]
  PROVE  GroupInv' /\ MyWrite
<1>1. /\ env' = [last |-> env'.last, late |-> env'.late, contended |-> env'.contended,
                 was |-> env'.was]
      /\ env'.last = env.last /\ env'.was = env.was
  <2>1. env' = env \/ \E n : env' = [env EXCEPT !.late = n]
    OBVIOUS
  <2> QED
    BY <2>1 DEF GroupInv, Types
<1>2. /\ auth' = auth /\ ctl' = ctl /\ seam' = seam /\ tick' = tick
      /\ grp' = grp /\ gsh' = gsh /\ gt' = gt /\ slot' = slot
  BY DEF refVars
<1> QED
  BY <1>1, <1>2 DEF GroupInv, Shapes, Types, Tickets, OnTheWay, Together, Holding, Mine, MyWrite

-----------------------------------------------------------------------------
(* Every step.                                                             *)
LEMMA GroupStep ==
  ASSUME GroupInv, [Next]_vars
  PROVE  GroupInv' /\ MyWrite
<1>1. CASE Plain \/ GSessionEnds
  BY <1>1, PlainKeeps, SessionKeeps
<1>2. CASE \E g \in Groups : GJoin(g) \/ DeadlinePasses(g)
  <2>1. PICK g \in Groups : GJoin(g) \/ DeadlinePasses(g)
    BY <1>2
  <2>2. CASE DeadlinePasses(g)
    BY <2>2, IdleKeeps DEF DeadlinePasses
  <2> QED
    BY <2>1, <2>2, JoinKeeps
<1>3. CASE GCancel \/ GCommitLate \/ GCommitCheck \/ GCommitWrite
  BY <1>3, CancelKeeps, LateKeeps, CheckKeeps, WriteKeeps
<1>4. CASE WatchEnds \/ WatchReleases \/ WatchGoesOn \/ Publish
  BY <1>4, EndKeeps, ReleaseKeeps, GoesOnKeeps, PublishKeeps
<1>5. CASE TickBegin \/ GTickSelect \/ GTickReport
  BY <1>5, BeginKeeps, SelectKeeps, ReportKeeps
<1>6. CASE \E b \in Peers : PeerMoves(b) \/ PeerBeats(b)
  <2>1. PICK b \in Peers : PeerMoves(b) \/ PeerBeats(b)
    BY <1>6
  <2>2. CASE PeerBeats(b)
    BY <2>2, IdleKeeps DEF PeerBeats
  <2> QED
    BY <2>1, <2>2, MovesKeeps
<1>7. CASE UNCHANGED vars
  BY <1>7, IdleKeeps DEF vars, groupVars
<1> QED
  BY <1>1, <1>2, <1>3, <1>4, <1>5, <1>6, <1>7 DEF Next

(* The invariant: a commit reaches the servo only when its group is        *)
(* complete, and the member's slot is of its group.                        *)
THEOREM GroupSafe == Spec => []GroupInv
<1>1. GroupInv /\ [Next]_vars => GroupInv'
  BY GroupStep
<1> QED
  BY <1>1, GroupStart, PTL DEF Spec

(* Nobody starts alone, however the peers behave: rt_loop follows a        *)
(* group's reference only after every member's slot has said COMMITTED of  *)
(* that very group, though the watch reads the slots one by one and the    *)
(* servo takes the commit later.                                           *)
THEOREM GroupStartTogether == Spec => []StartTogether
<1>1. GroupInv => StartTogether
  BY DEF GroupInv, OnTheWay, Together, StartTogether, Runs
<1> QED
  BY <1>1, GroupSafe, PTL

(* This member changes its slot as its peers are assumed to change theirs, *)
(* and keeps FAULTED and DONE, whichever of its threads writes.            *)
THEOREM GroupSlotKept == Spec => SlotKept
<1>1. GroupInv /\ [Next]_vars =>
        [slot'[Me] # slot[Me] =>
           /\ SlotStep(slot[Me], slot'[Me])
           /\ slot[Me].st \in {"FAULTED", "DONE"} =>
                slot'[Me].st \in {"STAGED", "COMMITTED"} \/ auth'.sess = 0]_vars
  BY GroupStep DEF MyWrite
<1> QED
  BY <1>1, GroupSafe, PTL DEF Spec, SlotKept
=============================================================================
