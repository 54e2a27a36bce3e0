-------------------------------- MODULE Group -------------------------------
(***************************************************************************)
(* Group execution on the RT servers of one host (CTRL-040):               *)
(* control_session.cpp, rt_loop.cpp and rt/include/arm_rt/group_record.hpp *)
(* on top of Reference.  A server joins a group, stages a reference and    *)
(* commits it to the group; it holds the commit until every member's slot  *)
(* of the shared record says COMMITTED, and only then publishes it to its  *)
(* own servo.  From then on every tick looks at the peers' slots, and a    *)
(* peer that is faulted, cancelled, silent or gone retires the reference.  *)
(*                                                                         *)
(* This is one member in full, `Me', and its peers' slots.  The peers are  *)
(* any servers that change their slots the way SlotStep allows;            *)
(* SlotKept says that this member does no more to its own, so the          *)
(* assumption about the others is one that every server meets.             *)
(*                                                                         *)
(* A slot is written and read in one step (GroupRecord is about the steps  *)
(* inside).  Heartbeats are fresh or stale, a group's deadline has passed  *)
(* or not.  The client's frames come in any order; a group id is joined    *)
(* once.  A tick is three steps here: it samples, selects and stamps, and  *)
(* reports and judges its peers.                                           *)
(***************************************************************************)
EXTENDS Reference

CONSTANTS Me, Peers,    \* the members
          Earlier,      \* groups this session has finished before (0 or 1)
          MaxGroups,    \* bound: group ids
          MaxOdd        \* bound: ticks that find the slot taken, and cancels, together

ASSUME GroupAssumption == Me \notin Peers /\ Earlier \in {0, 1} /\ MaxGroups \in Nat

VARIABLES
  grp,    \* GroupCtl of the control thread
  gsh,    \* group_active, group_committed, group_id, session, epoch, group_event
  gt,     \* the tick's group state
  slot,   \* the group record: state and group id of each member
  beat,   \* is a peer's heartbeat younger than the maximum age
  env     \* the last group joined, deadlines passed, contended writes; history: who has
          \* committed to which group

groupVars == <<grp, gsh, gt, slot, beat, env>>
vars == <<refVars, groupVars>>

Groups == Earlier + 1..MaxGroups
Members == Peers \cup {Me}
Live == {"STAGED", "COMMITTED", "RUNNING"}
States == Live \cup {"NONE", "FAULTED", "CANCELLED", "DONE"}
NoGroup == [joined |-> FALSE, id |-> 0, epoch |-> 0, hold |-> FALSE, commit |-> FALSE]
NoShared == [active |-> FALSE, committed |-> FALSE, id |-> 0, sess |-> 0, epoch |-> 0,
             event |-> FALSE]
NoTick == [id |-> 0, tripped |-> FALSE, mirrored |-> FALSE, stamp |-> FALSE, done |-> FALSE]
Empty == [st |-> "NONE", id |-> 0]

\* A first group may be over: its reference ended, the member left it DONE, and no
\* tick has run since.
First == [id |-> 1, rev |-> 1, st |-> "END", sess |-> 1, gen |-> 1, grp |-> 1]
After(r) ==
  /\ auth = Armed /\ ctl = FreshCtl
  /\ seam = [FreshSeam(1, 1) EXCEPT !.pub = 1, !.done = 1, !.ok = TRUE, !.fb = r]
  /\ tick = [FreshTick(1, 1, Native) EXCEPT !.armed = TRUE, !.pub = 1, !.seen = 1,
                                            !.high = 1, !.ref = r]
  /\ told = [ids |-> 1, gone |-> {}]

GroupInit ==
  /\ grp = NoGroup
  /\ gsh = IF Earlier = 0 THEN NoShared
           ELSE [NoShared EXCEPT !.id = 1, !.sess = 1, !.epoch = 1]
  /\ gt = [NoTick EXCEPT !.id = Earlier, !.done = Earlier # 0]
  /\ slot = [m \in Members |-> IF Earlier = 0 THEN Empty ELSE [st |-> "DONE", id |-> 1]]
  /\ beat = [b \in Peers |-> TRUE]
  /\ env = [last |-> Earlier, late |-> {}, contended |-> 0, was |-> Members \X (1..Earlier)]

Init == GroupInit /\ IF Earlier = 0 THEN RefInit ELSE After(First)

OddLeft == env.contended + seam.cgen < MaxOdd

\* try_write_slot and write_slot: over one of the states `from', or refused.
Put(s, st, from, g) == IF s.st \in from THEN [st |-> st, id |-> g] ELSE s

\* The states of a member that is fine; a finished one need not beat.
Healthy(b) == {"DONE"} \cup (IF beat[b] THEN Live ELSE {})
\* Mutant: a slot of another group counts.
PeerOkAnyGroup(b, g) == slot[b].st \in Healthy(b)

\* peer_verdict is PEER_OK.
PeerOk(b, g) == slot[b].id = g /\ slot[b].st \in Healthy(b)
PeersOk(g) == \A b \in Peers : PeerOk(b, g)

-----------------------------------------------------------------------------
(* The control thread.                                                     *)

GJoin(g) ==
  /\ Frame /\ ~auth.fault
  /\ ~grp.joined /\ g > env.last
  /\ grp' = [NoGroup EXCEPT !.joined = TRUE, !.id = g, !.epoch = auth.gen]
  /\ gsh' = [gsh EXCEPT !.active = TRUE, !.id = g, !.sess = auth.sess, !.epoch = auth.gen,
                        !.event = FALSE]
  /\ slot' = [slot EXCEPT ![Me] = [st |-> "STAGED", id |-> g]]
  /\ ctl' = [ctl EXCEPT !.at = "top"]
  /\ env' = [env EXCEPT !.last = g]
  /\ UNCHANGED <<auth, seam, tick, told, gt, beat>>

\* group_retire, as it leaves serve_client and the seam: a held commit is simply
\* dropped, anything else is cancelled.
RetireId == Highest({Selected.id} \cup Staged)
RetiredCtl ==
  [ctl EXCEPT !.cand = IF grp.hold \/ RetireId # 0 THEN NoCand ELSE @]
RetiredSeam ==
  IF ~grp.hold /\ RetireId # 0 THEN Fenced(RetireId, grp.epoch) ELSE seam

\* Mutant: leaving a group writes the slot whatever it says.
LeavesOverAny == States

LeavesOver == Live \cup {"CANCELLED", "NONE"}

\* group_leave: a slot that says FAULTED or DONE keeps it, a group commit that is
\* held or on its way is abandoned.
Leaves ==
  /\ grp' = NoGroup
  /\ gsh' = [gsh EXCEPT !.active = FALSE, !.committed = FALSE, !.event = FALSE]
  /\ slot' = [slot EXCEPT ![Me] = Put(@, "CANCELLED", LeavesOver, grp.id)]
Abandoned(c) ==
  IF grp.commit THEN [c EXCEPT !.waiting = FALSE, !.pend = NoRef] ELSE c

\* GROUP_CANCEL, answered OK: a finished member only leaves.
GCancel ==
  /\ Frame /\ grp.joined
  /\ IF slot[Me] = [st |-> "DONE", id |-> grp.id]
     THEN ctl' = [Abandoned(ctl) EXCEPT !.at = "top"] /\ UNCHANGED seam
     ELSE ctl' = [Abandoned(RetiredCtl) EXCEPT !.at = "top"] /\ seam' = RetiredSeam
  /\ Leaves
  /\ UNCHANGED <<auth, tick, told, gt, beat, env>>

\* GROUP_COMMIT: refused, late (the member leaves the group), or held.
GCommitFits ==
  /\ CanCommit /\ ctl.cand.rev = 1
  /\ grp.joined /\ <<Me, grp.id>> \notin env.was
  /\ ~auth.fault /\ PeersOk(grp.id)

GCommitLate ==
  /\ GCommitFits /\ grp.id \in env.late
  /\ Leaves
  /\ ctl' = [ctl EXCEPT !.at = "top"]
  /\ UNCHANGED <<auth, seam, tick, told, gt, beat, env>>

GCommitCheck ==
  /\ GCommitFits /\ grp.id \notin env.late
  /\ ctl' = [ctl EXCEPT !.at = "commit"]
  /\ UNCHANGED <<auth, seam, tick, told, groupVars>>

GCommitWrite ==
  /\ ctl.at = "commit"
  /\ ctl' = [ctl EXCEPT !.pend = Pending(grp.id), !.waiting = TRUE, !.at = "top"]
  /\ grp' = [grp EXCEPT !.hold = TRUE, !.commit = TRUE]
  /\ slot' = [slot EXCEPT ![Me] = [st |-> "COMMITTED", id |-> grp.id]]
  /\ gsh' = [gsh EXCEPT !.committed = TRUE]
  /\ env' = [env EXCEPT !.was = @ \cup {<<Me, grp.id>>}]
  /\ UNCHANGED <<auth, seam, tick, told, gt, beat>>

-----------------------------------------------------------------------------
(* The top of the loop: the group is watched first, then commits answered. *)

EpochOver == ~auth.armed \/ auth.gen # grp.epoch
AllCommitted == \A b \in Peers : slot[b].st \in {"COMMITTED", "RUNNING", "DONE"}
CommitDone == ctl.waiting /\ grp.commit /\ seam.done = ctl.pend.ticket

\* The group ends: with the epoch, by the tick's event, while held because a peer
\* is bad or the deadline has passed, or because the servo refused the commit.
GroupOver ==
  \/ EpochOver
  \/ gsh.event
  \/ grp.hold /\ ~PeersOk(grp.id)
  \/ grp.hold /\ ~AllCommitted /\ grp.id \in env.late
  \/ CommitDone /\ ~seam.ok

AtTop == auth.sess # 0 /\ ctl.at \in {"top", "poll"}

WatchEnds ==
  /\ AtTop /\ grp.joined /\ GroupOver
  /\ ctl' = Answered([Abandoned(RetiredCtl) EXCEPT !.waiting = @ /\ ~gsh.event])
  /\ seam' = RetiredSeam
  /\ Leaves
  /\ UNCHANGED <<auth, tick, told, gt, beat, env>>

WatchReleases ==
  /\ AtTop /\ grp.hold /\ ~GroupOver /\ AllCommitted
  /\ grp' = [grp EXCEPT !.hold = FALSE]
  /\ ctl' = [ctl EXCEPT !.at = "publish"]
  /\ UNCHANGED <<auth, seam, tick, told, gsh, gt, slot, beat, env>>

Publish ==
  /\ ctl.at = "publish"
  /\ seam' = Published(ctl.pend)
  /\ ctl' = [ctl EXCEPT !.at = "poll"]
  /\ UNCHANGED <<auth, tick, told, groupVars>>

WatchGoesOn ==
  /\ AtTop
  /\ grp.joined => ~GroupOver
  /\ grp.hold => ~AllCommitted
  /\ Top
  /\ grp' = [grp EXCEPT !.commit = @ /\ ~CommitDone]
  /\ UNCHANGED <<gsh, gt, slot, beat, env>>

\* The session's group ends with it, whatever the slot says.
GSessionEnds ==
  /\ SessionEnds
  /\ grp' = NoGroup
  /\ gsh' = [gsh EXCEPT !.active = FALSE, !.committed = FALSE, !.event = FALSE, !.id = 0]
  /\ slot' = [slot EXCEPT ![Me] = IF gsh.id = 0 THEN @
                                  ELSE [st |-> "CANCELLED", id |-> gsh.id]]
  /\ UNCHANGED <<gt, beat, env>>

-----------------------------------------------------------------------------
(* The tick.                                                               *)

Contended == IF OddLeft THEN BOOLEAN ELSE {FALSE}
Spend(busy) == env' = IF busy THEN [env EXCEPT !.contended = @ + 1] ELSE env

TickBegin ==
  /\ tick.at = "idle"
  /\ ModeStep(auth.armed, auth.fault)
  /\ UNCHANGED groupVars

\* The selection of a committed member is stamped before it is answered.
GTickSelect ==
  /\ TickSelect
  /\ IF /\ seam'.ok /\ tick'.seen # tick.seen
        /\ gsh.active /\ gsh.committed /\ gsh.epoch = tick.gen
     THEN \E busy \in Contended :
            /\ gt' = [gt EXCEPT !.stamp = busy]
            /\ slot' = [slot EXCEPT ![Me] =
                 IF busy THEN @ ELSE Put(@, "RUNNING", {"COMMITTED"}, gsh.id)]
            /\ Spend(busy)
     ELSE UNCHANGED <<gt, slot, env>>
  /\ UNCHANGED <<grp, gsh, beat>>

\* Does the tick enforce the group, and its group state if so.
Enforces == gsh.active /\ tick.armed /\ gsh.sess = tick.sess /\ gsh.epoch = tick.gen
\* Mutant: the tick starts afresh only when it has seen no group.
TickStateKept ==
  IF ~gsh.active THEN [NoTick EXCEPT !.id = gt.id] ELSE [gt EXCEPT !.id = gsh.id]

TickState ==
  IF ~gsh.active THEN [NoTick EXCEPT !.id = gt.id]
  ELSE IF Enforces /\ gsh.id # gt.id THEN [NoTick EXCEPT !.id = gsh.id]
  ELSE gt

\* What the tick writes to its own slot: a stamp that was contended, DONE, the
\* mirrored latch.
Stamped(s, t) == IF t.stamp THEN Put(s, "RUNNING", {"COMMITTED"}, t.id) ELSE s
Ends(s, t) == /\ ~t.done /\ ~t.tripped /\ gsh.committed
              /\ tick.ref.st = "END" /\ s.st = "RUNNING"
Mirrors(t) == tick.fault /\ ~t.mirrored
Recorded(s, t) ==
  LET s1 == Stamped(s, t)
      s2 == IF Ends(s1, t) THEN [st |-> "DONE", id |-> t.id] ELSE s1
  IN IF Mirrors(t) THEN Put(s2, "FAULTED", States \ {"DONE"}, t.id) ELSE s2
RecordedState(s, t) ==
  [t EXCEPT !.stamp = FALSE, !.done = @ \/ Ends(Stamped(s, t), t),
            !.mirrored = @ \/ Mirrors(t)]

\* The report, then the group: heartbeat, own slot, and the peers.  A bad peer
\* trips the tick, once: a running reference is retired, a live slot says
\* CANCELLED, the control thread is told.
GTickReport ==
  /\ tick.at = "report"
  /\ seam' = [seam EXCEPT !.fb = tick.ref]
  /\ \/ /\ ~Enforces
        /\ tick' = [tick EXCEPT !.at = "idle"]
        /\ gt' = TickState
        /\ UNCHANGED <<gsh, slot, env>>
     \/ /\ Enforces
        /\ \E busy \in Contended : \E t \in {TickState} :
           \E s \in {IF busy THEN slot[Me] ELSE Recorded(slot[Me], t)} :
           \E u \in {IF busy THEN t ELSE RecordedState(slot[Me], t)} :
           \E trips \in {gsh.committed /\ ~u.tripped /\ ~u.done /\ ~PeersOk(u.id)} :
             /\ tick' = [tick EXCEPT !.at = "idle",
                  !.ref = IF trips /\ @.st = "RUNNING" THEN Retired(@) ELSE @]
             /\ gt' = [u EXCEPT !.tripped = @ \/ trips]
             /\ slot' = [slot EXCEPT ![Me] =
                  IF trips /\ ~busy THEN Put(s, "CANCELLED", Live, u.id) ELSE s]
             /\ gsh' = [gsh EXCEPT !.event = @ \/ trips]
             /\ Spend(busy)
  /\ UNCHANGED <<auth, ctl, told, grp, beat>>

-----------------------------------------------------------------------------
(* The others.                                                             *)

\* How a running server may change its slot: it joins a later group, goes on in
\* this one, faults or leaves.  A commit may overwrite a fault mirrored after its
\* handler looked, the end of a session anything.
SlotStep(s, t) ==
  \/ t.st = "STAGED" /\ t.id > s.id
  \/ t.st = "COMMITTED" /\ t.id = s.id /\ s.st \in {"STAGED", "FAULTED"}
  \/ t.st = "RUNNING" /\ t.id = s.id /\ s.st = "COMMITTED"
  \/ t.st = "DONE" /\ t.id = s.id /\ s.st \in {"RUNNING", "COMMITTED"}
  \/ t.st = "FAULTED" /\ t.id = s.id /\ s.st \notin {"DONE", "NONE"}
  \/ t.st = "CANCELLED" /\ t.id = s.id /\ s.st # "NONE"

\* A peer's slot as peer_verdict and the watch tell its states apart.
Seen(s) ==
  [s EXCEPT !.st = IF @ = "RUNNING" THEN "COMMITTED" ELSE IF @ = "FAULTED" THEN "CANCELLED"
                   ELSE @]
Slots == [st : States, id : 0..MaxGroups]
\* The server of a peer writes its slot, or starts again (reset_slot).
PeerSteps ==
  {<<Seen(x[1]), Seen(x[2])>> : x \in
     {y \in Slots \X Slots : /\ SlotStep(y[1], y[2]) \/ y[2] = Empty
                             /\ y[2].st = "STAGED" => y[2].id \in Groups}}

\* This member looks at the slots, or may join and then look.  What its peers do
\* at other times they may as well do later.
Watched ==
  grp.joined \/ gsh.active \/ (auth.sess # 0 /\ auth.armed /\ env.last < MaxGroups)

PeerMoves(b) ==
  /\ Watched
  /\ \E t \in {x[2] : x \in {y \in PeerSteps : y[1] = slot[b] /\ y[2] # slot[b]}} :
       /\ slot' = [slot EXCEPT ![b] = t]
       /\ env' = IF t.st = "COMMITTED" THEN [env EXCEPT !.was = @ \cup {<<b, t.id>>}] ELSE env
  /\ beat' = [beat EXCEPT ![b] = TRUE]
  /\ UNCHANGED <<refVars, grp, gsh, gt>>

\* Its heartbeat grows old, or is heard again; only a live slot's is looked at.
PeerBeats(b) ==
  /\ Watched /\ slot[b].st \in Live
  /\ beat' = [beat EXCEPT ![b] = ~@]
  /\ UNCHANGED <<refVars, grp, gsh, gt, slot, env>>

DeadlinePasses(g) ==
  /\ Watched /\ g \notin env.late
  /\ \E m \in Members : slot[m].id = g /\ slot[m].st \in {"COMMITTED", "RUNNING", "DONE"}
  /\ env' = [env EXCEPT !.late = @ \cup {g}]
  /\ UNCHANGED <<refVars, grp, gsh, gt, slot, beat>>

-----------------------------------------------------------------------------
\* What Reference has, beside the group.  A joined member commits through it.
Plain ==
  /\ \/ BeginUpload \/ Seal \/ AbortUpload \/ ModeSelect
     \/ OddLeft /\ Cancel
     \/ ~grp.joined /\ Commit
     \/ Disarm \/ OptIn \/ ArmEpoch \/ Latch \/ Accept
  /\ UNCHANGED groupVars

Watch == WatchEnds \/ WatchReleases \/ WatchGoesOn \/ Publish \/ GCommitWrite
Servo == TickBegin \/ GTickSelect \/ GTickReport

Next ==
  \/ Plain \/ GSessionEnds
  \/ \E g \in Groups : GJoin(g) \/ DeadlinePasses(g)
  \/ GCancel \/ GCommitLate \/ GCommitCheck
  \/ WatchEnds \/ WatchReleases \/ WatchGoesOn \/ Publish \/ GCommitWrite
  \/ TickBegin \/ GTickSelect \/ GTickReport
  \/ \E b \in Peers : PeerMoves(b) \/ PeerBeats(b)

\* The server's two threads go on.
Spec == Init /\ [][Next]_vars /\ WF_vars(Watch) /\ WF_vars(Servo)

-----------------------------------------------------------------------------
Runs(g) == tick.ref.st = "RUNNING" /\ tick.ref.grp = g

(* Nobody starts alone.  A reference of a group is followed by a member's  *)
(* servo only after every member has committed to that very group.         *)
StartTogether ==
  \A m \in Members : \A g \in Groups : Runs(g) => <<m, g>> \in env.was

(* This member changes its slot as the others are assumed to change        *)
(* theirs, and FAULTED and DONE are final: whichever of its threads        *)
(* writes, they give way only to the JOIN of a later group, to a commit    *)
(* whose handler looked for a fault before it was mirrored, and to the end *)
(* of the session.                                                         *)
SlotKept ==
  [][slot'[Me] # slot[Me] =>
       /\ SlotStep(slot[Me], slot'[Me])
       /\ slot[Me].st \in {"FAULTED", "DONE"} =>
            slot'[Me].st \in {"STAGED", "COMMITTED"} \/ auth'.sess = 0]_vars

(* Nobody goes on alone.  A member does not for ever follow a reference    *)
(* that it has reported as its group's, while the slot of a peer says that *)
(* the peer has faulted, cancelled or gone.                                *)
PeerStops ==
  \A g \in Groups : \A b \in Peers :
    []<>~(/\ Runs(g) /\ grp.joined /\ grp.id = g
          /\ (slot[b].id # g \/ slot[b].st \notin Live \cup {"DONE"}))
=============================================================================
