----------------------------- MODULE Reference ------------------------------
(***************************************************************************)
(* Native references of an RT server (rt/src/control_session.cpp,          *)
(* rt_loop.cpp, reference_upload.hpp, rt/include/arm_rt/                   *)
(* reference_selection.hpp, mode_selection.hpp): a client uploads a curve, *)
(* seals and commits it; the servo tick alone selects it and follows it.   *)
(* The control thread and the tick share nothing but published tickets and *)
(* mailboxes: a commit, a cancel generation and a mode selection go down,  *)
(* a result, the selection and the confirmed mode come up.                 *)
(*                                                                         *)
(* A tick is four steps, between which the control thread may do anything: *)
(* it samples its authority, settles mode and epoch and reads the commit,  *)
(* reads the cancel generation and selects, and reports.  Curves are data: *)
(* evaluating one may end it or run it dry at any tick, and a revision may *)
(* come too late or not match.  The authority itself (ARM, DISARM, latch)  *)
(* is the subject of RtServer and is taken here in single steps.  What no  *)
(* later step reads is cleared: the contents of a mailbox whose ticket has *)
(* been handled, a commit and a mode request that have been answered.      *)
(***************************************************************************)
EXTENDS Naturals

CONSTANTS MaxRefs,    \* bound: reference ids of the clients
          MaxRev,     \* bound: revisions of one reference
          MaxCommits, \* bound: commits published
          MaxCancels, \* bound: cancel generations at which a CANCEL may still come
          MaxModes,   \* bound: mode selections published
          MaxEpochs,  \* bound: ARM generations
          MaxSess     \* bound: sessions

VARIABLES
  auth,   \* armed, arm_gen, fault, session_id; opted: reference_session = session_id
  ctl,    \* serve_client: where it is, candidate, pending commit, mode request
  seam,   \* what control thread and tick share
  tick,   \* the tick: where it is, what it has read, its mode and its selection
  told    \* ids the clients used; history: references withdrawn with OK

refVars == <<auth, ctl, seam, tick, told>>

Modes == {"STREAMED", "REFERENCE"}
NoRef == [id |-> 0, rev |-> 0, sess |-> 0, gen |-> 0, cgen |-> 0, ticket |-> 0,
          grp |-> 0]
NoCand == [id |-> 0, rev |-> 0, sealed |-> FALSE]
NoMode == [mode |-> "UNSELECTED", mgen |-> 0, sess |-> 0, gen |-> 0, ticket |-> 0]
NoInfo(s, g) == [id |-> 0, rev |-> 0, st |-> "NONE", sess |-> s, gen |-> g, grp |-> 0]

\* serve_client, the seam and the tick as the process starts.
FreshCtl == [at |-> "poll", cand |-> NoCand, pend |-> NoRef, waiting |-> FALSE,
             mode |-> NoMode]
FreshSeam(s, g) ==
  [pub |-> 0, in |-> NoRef, done |-> 0, ok |-> FALSE, cgen |-> 0, cid |-> 0,
   csess |-> 0, cepoch |-> 0, fb |-> NoInfo(s, g), mpub |-> 0, min |-> NoMode,
   mdone |-> 0, mgen |-> 0]
FreshTick(s, g, m) ==
  [at |-> "idle", armed |-> FALSE, fault |-> FALSE, gen |-> g, sess |-> s, pub |-> 0,
   com |-> NoRef, seen |-> 0, cseen |-> 0, mseen |-> 0, high |-> 0, mode |-> m,
   ref |-> NoInfo(s, g)]

\* A session that has opted in and armed, and a tick later.
Armed == [armed |-> TRUE, gen |-> 1, fault |-> FALSE, sess |-> 1, last |-> 1, opted |-> TRUE]
Native == [NoMode EXCEPT !.mode = "REFERENCE", !.sess = 1, !.gen = 1]
RefInit ==
  /\ auth = Armed /\ ctl = FreshCtl
  /\ seam = FreshSeam(1, 1)
  /\ tick = FreshTick(1, 1, Native)
  /\ told = [ids |-> 0, gone |-> {}]

Active(r) == r.st \in {"RUNNING", "END"}
\* The selection as the control thread knows it, and whether it is its own.
Selected == seam.fb
Own == Selected.sess = auth.sess /\ Selected.gen = auth.gen
Withdraw(ids) ==
  told' = [told EXCEPT !.gone = @ \cup {[gen |-> auth.gen, id |-> i] : i \in ids \ {0}}]

-----------------------------------------------------------------------------
(* serve_client: one frame, then the top of the loop.  A refusal changes   *)
(* nothing, and an identical retry is answered from memory.                *)

\* A frame of an armed session, at the poll.
Frame == ctl.at = "poll" /\ auth.sess # 0 /\ auth.armed

BeginAs(id, rev) ==
  ctl' = [ctl EXCEPT !.cand = [id |-> id, rev |-> rev, sealed |-> FALSE], !.at = "top"]

\* A new id, or the next revision of the selected reference.
BeginUpload ==
  /\ Frame /\ auth.opted
  /\ ~ctl.waiting /\ ctl.cand = NoCand
  /\ \/ /\ Own /\ Active(Selected) => Selected.st = "END"
        /\ told.ids < MaxRefs
        /\ told' = [told EXCEPT !.ids = @ + 1]
        /\ BeginAs(told.ids + 1, 1)
     \/ /\ Own /\ Active(Selected) /\ Selected.rev < MaxRev
        /\ BeginAs(Selected.id, Selected.rev + 1)
        /\ UNCHANGED told
  /\ UNCHANGED <<auth, seam, tick>>

\* The chunks, and SEAL.
Seal ==
  /\ Frame
  /\ ctl.cand # NoCand /\ ~ctl.cand.sealed
  /\ ctl' = [ctl EXCEPT !.cand.sealed = TRUE, !.at = "top"]
  /\ UNCHANGED <<auth, seam, tick, told>>

AbortUpload ==
  /\ Frame /\ ~ctl.waiting /\ ctl.cand # NoCand
  /\ ctl' = [ctl EXCEPT !.cand = NoCand, !.at = "top"]
  /\ UNCHANGED <<auth, seam, tick, told>>

Pending(g) ==
  [id |-> ctl.cand.id, rev |-> ctl.cand.rev, sess |-> auth.sess, gen |-> auth.gen,
   cgen |-> seam.cgen, ticket |-> seam.pub + 1, grp |-> g]
Published(p) == [seam EXCEPT !.in = p, !.pub = p.ticket]

CanCommit ==
  /\ Frame /\ seam.pub < MaxCommits
  /\ ctl.mode = NoMode /\ ~ctl.waiting /\ ctl.cand.sealed

Commit ==
  /\ CanCommit
  /\ ctl' = [ctl EXCEPT !.pend = Pending(0), !.waiting = TRUE, !.at = "top"]
  /\ seam' = Published(Pending(0))
  /\ UNCHANGED <<auth, tick, told>>

\* The ids a cancel retires beside its own: candidate and pending.
Staged == {ctl.cand.id} \cup (IF ctl.waiting THEN {ctl.pend.id} ELSE {})
Highest(S) == CHOOSE n \in S : \A m \in S : m <= n
\* The cancel record, then its generation.
Fenced(id, epoch) ==
  [seam EXCEPT !.cgen = @ + 1, !.cid = id, !.csess = auth.sess, !.cepoch = epoch]

\* CTL_CANCEL_REFERENCE of what is selected, staged or waiting.
Cancel ==
  /\ Frame /\ seam.cgen < MaxCancels
  /\ \E id \in (IF Own THEN {Selected.id} ELSE {}) \cup Staged :
       /\ id # 0 /\ [gen |-> auth.gen, id |-> id] \notin told.gone
       /\ seam' = Fenced(Highest(Staged \cup {id}), auth.gen)
       /\ Withdraw({id})
  /\ ctl' = [ctl EXCEPT !.cand = NoCand, !.at = "top"]
  /\ UNCHANGED <<auth, tick>>

\* CTL_MODE_SELECT of the next generation: the outgoing law's references are
\* retired, then the request is published.  The selection named in the fence was
\* read before the poll and may be an older one.
ModeSelect ==
  /\ Frame /\ ~auth.fault
  /\ ctl.mode = NoMode /\ seam.mpub < MaxModes
  /\ \E want \in Modes : \E seen \in 0..Selected.id :
     \E req \in {[mode |-> want, mgen |-> seam.mgen + 1, sess |-> auth.sess,
                  gen |-> auth.gen, ticket |-> seam.mpub + 1]} :
       /\ want = "REFERENCE" => auth.opted
       /\ ctl' = [ctl EXCEPT !.mode = req, !.cand = NoCand, !.at = "top"]
       /\ seam' = [Fenced(Highest({seen, ctl.cand.id}), auth.gen)
                     EXCEPT !.min = req, !.mpub = req.ticket]
  /\ Withdraw({Selected.id} \cup Staged)
  /\ UNCHANGED <<auth, tick>>

\* The answers at the top: a finished mode selection, a finished commit.
Answered(c) ==
  [c EXCEPT
    !.mode = IF @ # NoMode /\ seam.mdone = @.ticket THEN NoMode ELSE @,
    !.waiting = @ /\ seam.done # c.pend.ticket,
    !.pend = IF seam.done = c.pend.ticket THEN NoRef ELSE @,
    !.cand = IF c.waiting /\ seam.done = c.pend.ticket /\ seam.ok THEN NoCand ELSE @,
    !.at = "poll"]

Top ==
  /\ auth.sess # 0
  /\ ctl' = Answered(ctl)
  /\ UNCHANGED <<auth, seam, tick, told>>

Disarm ==
  /\ Frame
  /\ auth' = [auth EXCEPT !.armed = FALSE, !.fault = FALSE]
  /\ ctl' = [ctl EXCEPT !.cand = NoCand, !.at = "top"]
  /\ UNCHANGED <<seam, tick, told>>

\* CTL_REFERENCE_MODE and CTL_ARM, only while disarmed.
OptIn ==
  /\ ctl.at = "poll" /\ auth.sess # 0 /\ ~auth.armed /\ ~auth.opted
  /\ auth' = [auth EXCEPT !.opted = TRUE]
  /\ ctl' = [ctl EXCEPT !.at = "top"]
  /\ UNCHANGED <<seam, tick, told>>

ArmEpoch ==
  /\ ctl.at = "poll" /\ auth.sess # 0 /\ ~auth.armed /\ auth.gen < MaxEpochs
  /\ auth' = [auth EXCEPT !.armed = TRUE, !.gen = @ + 1]
  /\ ctl' = [ctl EXCEPT !.at = "top"]
  /\ UNCHANGED <<seam, tick, told>>

\* Any latch (RtServer).
Latch ==
  /\ auth.armed /\ ~auth.fault
  /\ auth' = [auth EXCEPT !.fault = TRUE]
  /\ UNCHANGED <<ctl, seam, tick, told>>

\* The end of serve_client, which latches CTL_LOST if armed, and the next accept.
SessionEnds ==
  /\ auth.sess # 0
  /\ auth' = [auth EXCEPT !.fault = @ \/ auth.armed, !.sess = 0, !.opted = FALSE]
  /\ ctl' = FreshCtl
  /\ UNCHANGED <<seam, tick, told>>

Accept ==
  /\ auth.sess = 0 /\ auth.last < MaxSess
  /\ auth' = [auth EXCEPT !.sess = auth.last + 1, !.last = @ + 1]
  /\ UNCHANGED <<ctl, seam, tick, told>>

-----------------------------------------------------------------------------
(* The servo tick (rt_loop.cpp).                                           *)

TickSample ==
  /\ tick.at = "idle"
  /\ tick' = [tick EXCEPT !.at = "mode", !.armed = auth.armed, !.fault = auth.fault]
  /\ UNCHANGED <<auth, ctl, seam, told>>

\* ArmMode after the ARM edge or the loss of it.
Seeded(armed) ==
  IF ~armed THEN NoMode
  ELSE IF auth.gen = tick.mode.gen /\ auth.sess = tick.mode.sess THEN tick.mode
  ELSE [mode |-> IF auth.opted THEN "REFERENCE" ELSE "STREAMED", mgen |-> 0,
        sess |-> auth.sess, gen |-> auth.gen, ticket |-> 0]

\* A request for this epoch and the next generation is confirmed.
ConfirmedMode(m, good) ==
  LET q == seam.min IN
  IF /\ seam.mpub # tick.mseen /\ good /\ ~auth.fault
     /\ m.sess = q.sess /\ m.gen = q.gen /\ q.sess = auth.sess /\ q.gen = auth.gen
     /\ q.mode = "REFERENCE" => auth.opted
     /\ q.mgen = m.mgen + 1
  THEN [m EXCEPT !.mode = q.mode, !.mgen = q.mgen] ELSE m

Retired(r) == IF Active(r) THEN [r EXCEPT !.st = "OVER"] ELSE r
\* ReferenceSelection.reset
Reset(r) == IF r.sess = auth.sess /\ r.gen = auth.gen THEN r ELSE NoInfo(auth.sess, auth.gen)

\* Generation and session, mode authority, reset, and the commit's mailbox.
ModeStep(armed, fault) ==
  /\ \E m0 \in {Seeded(armed)} : \E m \in {ConfirmedMode(m0, armed /\ ~fault)} :
     \E r \in {Reset(IF m = m0 THEN tick.ref ELSE Retired(tick.ref))} :
       /\ tick' =
            [tick EXCEPT !.at = "select", !.armed = armed, !.fault = fault,
                         !.gen = auth.gen, !.sess = auth.sess,
                         !.mode = m, !.mseen = seam.mpub, !.ref = r,
                         !.high = IF r.sess = tick.ref.sess /\ r.gen = tick.ref.gen
                                  THEN @ ELSE 0,
                         !.pub = seam.pub,
                         !.com = IF seam.pub # tick.seen THEN seam.in ELSE @]
       /\ seam' = [seam EXCEPT !.mdone = seam.mpub, !.mgen = m.mgen, !.min = NoMode]
  /\ UNCHANGED <<auth, ctl, told>>

TickMode == tick.at = "mode" /\ ModeStep(tick.armed, tick.fault)

\* The cancel generation read, and !armed or faulted.
Cancelled ==
  LET hit == seam.cgen # tick.cseen /\ seam.csess = tick.sess /\ seam.cepoch = tick.gen
  IN [high |-> IF hit THEN Highest({tick.high, seam.cid}) ELSE tick.high,
      ref |-> IF hit \/ ~tick.armed \/ tick.fault THEN Retired(tick.ref) ELSE tick.ref]

\* evaluate: goes on, ends, or runs dry (UNDERFLOW).  A reference retired at the
\* end of the tick before for want of a fresh envelope is over by now, too.
Evaluated(r) ==
  IF r.st = "RUNNING" THEN {[r EXCEPT !.st = x] : x \in {"RUNNING", "END", "OVER"}} ELSE {r}

\* Mutant: the commit's cancel generation is not compared.
FreshAlways(c) == TRUE

Fresh(c) == c.cgen = seam.cgen

\* ReferenceSelection.commit, and the tick's own conditions.
Admits(c, r, high) ==
  /\ tick.armed /\ ~tick.fault /\ auth.opted /\ tick.mode.mode = "REFERENCE"
  /\ c.sess = tick.sess /\ c.sess # 0 /\ c.gen = tick.gen
  /\ Fresh(c)
  /\ IF c.rev = 1 THEN c.id > high /\ r.st # "RUNNING"
     ELSE Active(r) /\ c.id = r.id /\ c.rev = r.rev + 1

\* Commit and cancel record read and done with.
Handled(c) ==
  [seam EXCEPT !.in = IF @ = c THEN NoRef ELSE @, !.cid = 0, !.csess = 0, !.cepoch = 0]
Selection(c) == [id |-> c.id, rev |-> c.rev, st |-> "RUNNING", sess |-> c.sess,
                 gen |-> c.gen, grp |-> c.grp]

TickSelect ==
  /\ tick.at = "select"
  /\ \E x \in {Cancelled} : \E r \in Evaluated(x.ref) :
       \/ /\ tick.pub # tick.seen
          /\ \E timely \in BOOLEAN : \E c \in {tick.com} :
             \E ok \in {timely /\ Admits(c, r, x.high)} :
               /\ tick' = [tick EXCEPT !.at = "report", !.com = NoRef, !.cseen = seam.cgen,
                                       !.seen = tick.pub,
                                       !.high = IF ok THEN c.id ELSE x.high,
                                       !.ref = IF ok THEN Selection(c) ELSE r]
               /\ seam' = [Handled(c) EXCEPT !.done = tick.pub, !.ok = ok]
       \/ /\ tick.pub = tick.seen
          /\ tick' = [tick EXCEPT !.at = "report", !.cseen = seam.cgen, !.high = x.high,
                                  !.ref = r]
          /\ seam' = Handled(NoRef)
  /\ UNCHANGED <<auth, ctl, told>>

TickReport ==
  /\ tick.at = "report"
  /\ seam' = [seam EXCEPT !.fb = tick.ref]
  /\ tick' = [tick EXCEPT !.at = "idle"]
  /\ UNCHANGED <<auth, ctl, told>>

RefNext ==
  \/ BeginUpload \/ Seal \/ AbortUpload \/ Commit \/ Cancel \/ ModeSelect \/ Top
  \/ Disarm \/ OptIn \/ ArmEpoch \/ Latch \/ SessionEnds \/ Accept
  \/ TickSample \/ TickMode \/ TickSelect \/ TickReport

RefSpec == RefInit /\ [][RefNext]_refVars

-----------------------------------------------------------------------------
(* What was withdrawn stays so.  Once a CANCEL was answered OK, or a mode  *)
(* selection accepted, the references it was about - selected, staged or   *)
(* on their way to the servo - are not followed any more, but for the tick *)
(* under way: an active one will be retired by the next tick, which has    *)
(* the cancel generation still to read.  (One of an earlier session or     *)
(* epoch falls at the next tick's reset.)                                  *)
WithdrawnStops ==
  tick.at = "idle" /\ Active(tick.ref)
  /\ tick.ref.sess = auth.sess /\ tick.ref.gen = auth.gen
  /\ [gen |-> tick.ref.gen, id |-> tick.ref.id] \in told.gone
    => tick.cseen # seam.cgen
=============================================================================
