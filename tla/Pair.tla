-------------------------------- MODULE Pair ---------------------------------
(***************************************************************************)
(* A two-arm motion through two supervisors: the coordinator's staging     *)
(* barrier (multi_arm/coordinator.py), the SDK handle of each arm          *)
(* (multi_arm/supervised.py), the release of both members at one start     *)
(* stamp (multi_arm/supervised_hardware.py) and, reduced to what a client  *)
(* can tell, each arm's supervisor behind its socket (sdk.py, service.py,  *)
(* runtime.py).                                                            *)
(*                                                                         *)
(* The coordinator is one thread: a call of its API puts the steps it will *)
(* take in `todo', and the supervisors run between any two of them.  A     *)
(* call to a supervisor is answered, or times out and stays queued for the *)
(* supervisor's loop, or the channel is lost and the session with it.      *)
(***************************************************************************)
EXTENDS Naturals, Sequences, FiniteSets

CONSTANTS
  Left, Right,  \* the two arms
  MaxPair,      \* bound on pairs staged; a pair's number names its plans
  MaxTrouble,   \* bound on stalls, lost channels, faults, DISARMs, forgotten plans
  MaxQueue,     \* bound on calls that time out during one stall of the loop
  MaxEvents     \* bound on events left undelivered before cancels are retried

ASSUME PairAssumption ==
  /\ Left # Right /\ MaxPair \in Nat \ {0} /\ MaxTrouble \in Nat
  /\ MaxEvents \in Nat \ {0} /\ MaxQueue \in Nat \ {0}

Arms == {Left, Right}
Pairs == 1..MaxPair

VARIABLES
  run,      \* the coordinator's _run, with pair 0 before the first
  todo,     \* what the coordinator's thread has still to do
  hand,     \* the SdkArmHandle of each arm
  sup,      \* each arm's supervisor, and the client's session with it
  rel,      \* the release of each arm: "no", "deferred", "sent", "took",
            \* "refused" (the supervisor answered), "ok", "bad" (reply read)
  clock,    \* the start stamp: "none", "lead" (a release may still be taken
            \* and confirmed), "late" (within the minimum lead), "passed"
  trouble   \* how much has gone wrong so far

vars == <<run, todo, hand, sup, rel, clock, trouble>>

Active == {"STAGING", "READY", "EXECUTING"}
Live == {"ADMITTED", "SELECTED", "RUNNING"}
Ended == {"COMPLETED", "CANCELLED", "REJECTED", "FAULTED"}
Unknown == {"NONE", "FORGOTTEN"}

Event == [kind : {"staged", "cleared", "leg", "fault"}, k : 0..MaxPair, ok : BOOLEAN]
Steps == {"stage", "collect", "poll", "send", "await", "undo", "failed", "look",
          "cancel", "cancelFound", "event"}
Op == [op : {"submit", "release", "cancel", "lost"}, k : 0..MaxPair]

Ev(kind, k, ok) == [kind |-> kind, k |-> k, ok |-> ok]
NoEvent == Ev("fault", 0, FALSE)
Do(step, a) == [do |-> step, arm |-> a, ev |-> NoEvent]
OpOf(op, k) == [op |-> op, k |-> k]

\* `step' on the arms of As, in the order s.
Orders == {<<Left, Right>>, <<Right, Left>>}
ForEach(step, As, s) ==
  (IF s[1] \in As THEN <<Do(step, s[1])>> ELSE <<>>) \o
  (IF s[2] \in As THEN <<Do(step, s[2])>> ELSE <<>>)

\* The pairs of K in the order they were staged.
InOrder(K) ==
  [i \in 1..Cardinality(K) |-> CHOOSE k \in K : Cardinality({j \in K : j <= k}) = i]

TypeOK ==
  /\ run \in [k : 0..MaxPair, life : Active \cup {"IDLE", "COMPLETE", "CANCELLED",
                 "FAULTED", "REJECTED"},
              acks : SUBSET Arms, results : SUBSET Arms, pending : SUBSET Arms,
              cancelling : BOOLEAN]
  /\ todo \in Seq([do : Steps, arm : Arms, ev : Event])
  /\ hand \in [Arms -> [plans : [Pairs -> {"none", "held", "released", "reported"}],
                        unknown : SUBSET Pairs, events : Seq(Event), faultSeen : BOOLEAN]]
  /\ sup \in [Arms -> [ex : [Pairs -> Live \cup Ended \cup Unknown], armed : BOOLEAN,
                       fault : BOOLEAN, ops : Seq(Op), open : BOOLEAN, owned : BOOLEAN]]
  /\ rel \in [Arms -> {"no", "deferred", "sent", "took", "refused", "ok", "bad"}]
  /\ clock \in {"none", "lead", "late", "passed"}
  /\ trouble \in 0..MaxTrouble

Run(k, life) ==
  [k |-> k, life |-> life, acks |-> {}, results |-> {}, pending |-> {},
   cancelling |-> FALSE]

Init ==
  /\ run = Run(0, "IDLE") /\ todo = <<>>
  /\ hand = [a \in Arms |-> [plans |-> [k \in Pairs |-> "none"], unknown |-> {},
                             events |-> <<>>, faultSeen |-> FALSE]]
  /\ sup = [a \in Arms |-> [ex |-> [k \in Pairs |-> "NONE"], armed |-> TRUE,
                            fault |-> FALSE, ops |-> <<>>, open |-> TRUE, owned |-> TRUE]]
  /\ rel = [a \in Arms |-> "no"] /\ clock = "none" /\ trouble = 0

-----------------------------------------------------------------------------
(* The supervisor: what its loop does with a queued call of this session.  *)

AllLive(s, end) ==
  [s EXCEPT !.ex = [k \in Pairs |-> IF s.ex[k] \in Live THEN end ELSE s.ex[k]]]

\* RobotRuntime._submit: idempotent by request id; next to a live execution,
\* or refused by the contract or the controller, it is REJECTED.
Submit(s, k) ==
  IF s.ex[k] \notin Unknown THEN {s}
  ELSE {[s EXCEPT !.ex[k] = e] :
          e \in {"REJECTED"} \cup (IF \E j \in Pairs : s.ex[j] \in Live
                                   THEN {} ELSE {"ADMITTED"})}

\* Mutant: the stamp is not checked against the supervisor's clock.
ReleaseAnyLead(s, k) ==
  IF s.ex[k] # "ADMITTED" THEN {s}
  ELSE {[s EXCEPT !.ex[k] = e] : e \in IF s.armed THEN {"SELECTED", "REJECTED"}
                                        ELSE {"REJECTED"}}

\* RobotRuntime._release with start_at, and _select: refused unless the stamp
\* is at least the minimum lead ahead; idempotent; REJECTED when not armed or
\* by the controller's own checks.
Release(s, k) ==
  IF clock # "lead" \/ s.ex[k] # "ADMITTED" THEN {s}
  ELSE {[s EXCEPT !.ex[k] = e] : e \in IF s.armed THEN {"SELECTED", "REJECTED"}
                                        ELSE {"REJECTED"}}

\* RobotRuntime._cancel.
CancelOp(s, k) ==
  {IF s.ex[k] \in Live THEN [s EXCEPT !.ex[k] = "CANCELLED"] ELSE s}

\* RobotRuntime._owner_lost, _abandon.
OwnerLost(s) == {[AllLive(s, "CANCELLED") EXCEPT !.owned = FALSE]}

Perform(s, o) ==
  CASE o.op = "submit"  -> Submit(s, o.k)
    [] o.op = "release" -> Release(s, o.k)
    [] o.op = "cancel"  -> CancelOp(s, o.k)
    [] o.op = "lost"    -> OwnerLost(s)

-----------------------------------------------------------------------------
(* A call as its client sees it.                                           *)

\* SocketChannel._lock: one request at a time; a hung release holds it.
Free(a) == rel[a] \notin {"sent", "took", "refused"}

Lost(s) == [s EXCEPT !.open = FALSE]
Queued(s, o) == [s EXCEPT !.ops = Append(@, o)]
Outcome(s, ok, cost) == [s |-> s, ok |-> ok, cost |-> cost]

\* ArmClient/SocketChannel.call of an operation the loop performs
\* (RobotRuntime._call): answered after everything queued before it; or it
\* times out and stays queued, as the calls after it may while the loop is
\* stalled; or the channel is lost, before or after the request reached the
\* supervisor; or the channel was lost before.
Calls(a, o) ==
  LET s == sup[a] IN
  IF ~s.open THEN {Outcome(s, FALSE, 0)}
  ELSE (IF s.ops = <<>> THEN {Outcome(t, TRUE, 0) : t \in Perform(s, o)} ELSE {})
       \cup (IF trouble < MaxTrouble
             THEN {Outcome(Queued(s, o), FALSE, 1), Outcome(Lost(Queued(s, o)), FALSE, 1),
                   Outcome(Lost(s), FALSE, 1)}
             ELSE {})
       \cup (IF s.ops # <<>> /\ Len(s.ops) < MaxQueue
             THEN {Outcome(Queued(s, o), FALSE, 0)} ELSE {})

\* A call answered from published state (state, authority, status, now).
Reads(a) ==
  LET s == sup[a] IN
  IF ~s.open THEN {Outcome(s, FALSE, 0)}
  ELSE {Outcome(s, TRUE, 0)}
       \cup (IF trouble < MaxTrouble THEN {Outcome(Lost(s), FALSE, 1)} ELSE {})

\* The next thing the coordinator's thread does is `step' on arm a.
At(step, a) == todo # <<>> /\ Head(todo).do = step /\ Head(todo).arm = a
Rest == Tail(todo)

Applied(a, o) ==
  /\ sup' = [sup EXCEPT ![a] = o.s]
  /\ trouble' = trouble + o.cost

-----------------------------------------------------------------------------
(* The SDK handle.                                                         *)

Told(h, e) == [h EXCEPT !.events = Append(@, e)]

\* A staging that was not answered has an unknown outcome, until a call about
\* it is.
Unsettled(h, k) == [h EXCEPT !.unknown = @ \cup {k}]
Settled(h, k, ok) == [h EXCEPT !.unknown = IF ok THEN @ \ {k} ELSE @]

\* SdkArmHandle._loaded: the plan the supervisor still holds, 0 for none; a
\* plan whose end was reported, or that was never released, is dropped once
\* it has ended, and one the supervisor forgot is reported as a failed leg.
Over(s, k) == s.ex[k] \notin Live
Gone(h, s, k) ==
  h.plans[k] # "none" /\ Over(s, k) /\ (h.plans[k] # "released" \/ s.ex[k] \in Unknown)

\* SdkArmHandle._forget: a released plan the supervisor no longer knows is
\* reported as a failed leg.  Mutant: it is dropped without a word.
ForgetSilently(h, s) == h
Forget(h, s) ==
  LET lost == InOrder({k \in Pairs : h.plans[k] = "released" /\ s.ex[k] \in Unknown})
  IN [h EXCEPT !.events = @ \o [i \in DOMAIN lost |-> Ev("leg", lost[i], FALSE)]]

Pruned(h, s) ==
  [Forget(h, s) EXCEPT
     !.plans = [k \in Pairs |-> IF Gone(h, s, k) THEN "none" ELSE h.plans[k]]]
Loaded(h, s) == {k \in Pairs : h.plans[k] # "none" /\ ~Gone(h, s, k) /\ ~Over(s, k)}

\* SdkArmHandle.stage.
StageMember(a) ==
  /\ At("stage", a) /\ Free(a)
  /\ \E o \in Calls(a, OpOf("submit", run.k)) :
       /\ Applied(a, o)
       /\ hand' = [hand EXCEPT ![a] =
            IF ~o.ok THEN Told(Unsettled(@, run.k), Ev("staged", run.k, FALSE))
            ELSE IF o.s.ex[run.k] \in Live
                 THEN Told([@ EXCEPT !.plans[run.k] = "held"], Ev("staged", run.k, TRUE))
                 ELSE Told(@, Ev("staged", run.k, FALSE))]
  /\ todo' = Rest
  /\ UNCHANGED <<run, rel, clock>>

\* SdkArmHandle.poll_events: results of the released plans that ended, and a
\* fault not reported yet; BimanualCoordinator._poll then delivers them.
\* Mutant: only completed legs are reported.
LegEventsCompleted(h, s) ==
  LET over == InOrder({k \in Pairs : h.plans[k] = "released" /\ s.ex[k] = "COMPLETED"})
  IN [i \in DOMAIN over |-> Ev("leg", over[i], TRUE)]
LegEvents(h, s) ==
  LET over == InOrder({k \in Pairs : h.plans[k] = "released" /\ Over(s, k)})
  IN [i \in DOMAIN over |-> Ev("leg", over[i], s.ex[over[i]] = "COMPLETED")]
FaultEvents(h, s) == IF s.fault /\ ~h.faultSeen THEN <<NoEvent>> ELSE <<>>
Polled(h, s) ==
  [h EXCEPT !.events = <<>>, !.faultSeen = s.fault,
            !.plans = [k \in Pairs |->
               IF h.plans[k] = "released" /\ Over(s, k)
               THEN (IF s.ex[k] \in Unknown THEN "none" ELSE "reported")
               ELSE h.plans[k]]]
Deliveries(a, es) == [i \in DOMAIN es |-> [do |-> "event", arm |-> a, ev |-> es[i]]]

Poll(a) ==
  /\ At("poll", a) /\ Free(a)
  /\ \E o \in Reads(a) :
       /\ Applied(a, o)
       /\ IF o.ok
          THEN /\ hand' = [hand EXCEPT ![a] = Polled(@, o.s)]
               /\ todo' = Deliveries(a, hand[a].events \o LegEvents(hand[a], o.s)
                                          \o FaultEvents(hand[a], o.s)) \o Rest
          ELSE /\ hand' = [hand EXCEPT ![a].events = <<>>]
               /\ todo' = Deliveries(a, hand[a].events) \o Rest
  /\ UNCHANGED <<run, rel, clock>>

-----------------------------------------------------------------------------
(* The coordinator.                                                        *)

\* BimanualCoordinator._abort: always attempts both cancels; _send_cancels
\* goes over a set, in either order.
Abort(life, rest) ==
  IF run.life \in Active
  THEN /\ run' = [run EXCEPT !.life = life, !.cancelling = TRUE, !.pending = Arms]
       /\ \E s \in Orders : todo' = ForEach("cancel", Arms, s) \o rest
  ELSE run' = run /\ todo' = rest

\* _states: what every admission and every pump demands of an arm.
Fit(s) == s.armed /\ ~s.fault

MayStage == run.life \notin Active /\ run.pending = {}

\* stage_pair: a refusal raises to the caller and changes nothing.
StagePair ==
  /\ todo = <<>> /\ run.k < MaxPair /\ MayStage
  /\ \A a \in Arms : /\ sup[a].open /\ Free(a) /\ Fit(sup[a])
                     /\ Loaded(hand[a], sup[a]) = {}
  /\ run' = Run(run.k + 1, "STAGING")
  /\ todo' = <<Do("stage", Left), Do("stage", Right)>>
  /\ hand' = [a \in Arms |-> Pruned(hand[a], sup[a])]
  /\ UNCHANGED <<sup, rel, clock, trouble>>

\* execute_pair, up to the release loop.
ExecutePair ==
  /\ todo = <<>> /\ run.life = "READY" /\ \A a \in Arms : Free(a)
  /\ \E l \in Reads(Left), r \in Reads(Right) :
       /\ trouble + l.cost + r.cost <= MaxTrouble
       /\ sup' = [sup EXCEPT ![Left] = l.s, ![Right] = r.s]
       /\ trouble' = trouble + l.cost + r.cost
       /\ IF l.ok /\ r.ok /\ \A a \in Arms : Fit(sup[a]) /\ Loaded(hand[a], sup[a]) = {run.k}
          THEN /\ run' = [run EXCEPT !.life = "EXECUTING"]
               /\ todo' = <<Do("collect", Left), Do("collect", Right), Do("send", Left)>>
          ELSE Abort("REJECTED", <<>>)
  /\ UNCHANGED <<hand, rel, clock>>

\* One turn of the release loop: SdkArmHandle.execute defers the release, and
\* the arm is polled; a refusal seen by then stops the loop.
Collect(a) ==
  /\ At("collect", a)
  /\ \/ /\ run.life # "EXECUTING"
        /\ todo' = Rest
        /\ UNCHANGED <<run, hand, rel>>
     \/ /\ run.life = "EXECUTING" /\ hand[a].plans[run.k] = "none"
        /\ Abort("FAULTED", <<>>)
        /\ rel' = [b \in Arms |-> IF rel[b] = "deferred" THEN "no" ELSE rel[b]]
        /\ UNCHANGED hand
     \/ /\ run.life = "EXECUTING" /\ hand[a].plans[run.k] # "none"
        /\ hand' = [hand EXCEPT ![a].plans[run.k] = "released"]
        /\ rel' = [rel EXCEPT ![a] = "deferred"]
        /\ todo' = <<Do("poll", a)>> \o Rest
        /\ UNCHANGED run
  /\ UNCHANGED <<sup, clock, trouble>>

\* SupervisedHardware.release_context after the loop: both members deferred,
\* or nothing is sent.
Send ==
  /\ At("send", Left)
  /\ \/ /\ \E a \in Arms : rel[a] # "deferred"
        /\ rel' = [a \in Arms |-> IF rel[a] = "deferred" THEN "no" ELSE rel[a]]
        /\ todo' = Rest
        /\ UNCHANGED <<run, sup, clock, trouble>>
     \/ /\ \A a \in Arms : rel[a] = "deferred"
        /\ \E o \in Reads(Left) :
             /\ Applied(Left, o)
             /\ IF o.ok
                THEN /\ rel' = [a \in Arms |-> "sent"] /\ clock' = "lead"
                     /\ todo' = <<Do("await", Left)>> \o Rest
                     /\ run' = run
                ELSE /\ rel' = [a \in Arms |-> "no"] /\ clock' = clock
                     /\ Abort("FAULTED", Rest)
  /\ UNCHANGED hand

\* A worker of _release_together: ArmClient.release, and its reply.
ReleaseSent(a) ==
  /\ rel[a] = "sent"
  /\ \E o \in Calls(a, OpOf("release", run.k)) :
       /\ Applied(a, o)
       /\ rel' = [rel EXCEPT ![a] = IF ~o.ok THEN "bad"
                                    ELSE IF o.s.ex[run.k] = "SELECTED" THEN "took"
                                    ELSE "refused"]
  /\ UNCHANGED <<run, todo, hand, clock>>

ReplyRead(a) ==
  /\ rel[a] \in {"took", "refused"}
  /\ rel' = [rel EXCEPT ![a] = IF rel[a] = "took" THEN "ok" ELSE "bad"]
  /\ UNCHANGED <<run, todo, hand, sup, clock, trouble>>

Confirmed == \A a \in Arms : rel[a] = "ok"

\* The wait of _release_together: until both have answered or the minimum
\* lead is reached; unless both were accepted, the accepted one is cancelled.
Await ==
  /\ At("await", Left)
  /\ (\A a \in Arms : rel[a] \in {"ok", "bad"}) \/ clock # "lead"
  /\ IF Confirmed
     THEN todo' = Rest
     ELSE todo' = ForEach("undo", {a \in Arms : rel[a] = "ok"}, <<Left, Right>>)
                  \o <<Do("failed", Left)>> \o Rest
  /\ UNCHANGED <<run, hand, sup, rel, clock, trouble>>

\* ArmClient.cancel of the accepted member; if it raises, the release has
\* failed all the same.
Undo(a) ==
  /\ At("undo", a) /\ Free(a)
  /\ \E o \in Calls(a, OpOf("cancel", run.k)) : Applied(a, o)
  /\ todo' = Rest
  /\ UNCHANGED <<run, hand, rel, clock>>

ReleaseFailed ==
  /\ At("failed", Left)
  /\ Abort("FAULTED", Rest)
  /\ UNCHANGED <<hand, sup, rel, clock, trouble>>

\* _send_cancels to one arm: SdkArmHandle.cancel of the pair's plan.  With no
\* record of it and no staging of unknown outcome, it is cleared unless the
\* supervisor holds another plan of this handle.
CancelNothing(a) ==
  /\ At("cancel", a) /\ Free(a)
  /\ hand[a].plans[run.k] = "none" /\ run.k \notin hand[a].unknown
  /\ \E o \in Reads(a) :
       /\ Applied(a, o)
       /\ hand' = [hand EXCEPT ![a] =
            IF o.ok THEN Told(Pruned(@, o.s), Ev("cleared", run.k, Loaded(@, o.s) = {}))
            ELSE Told(@, Ev("cleared", run.k, \A k \in Pairs : @.plans[k] = "none"))]
  /\ todo' = Rest
  /\ UNCHANGED <<run, rel, clock>>

CancelRecorded(a) ==
  /\ At("cancel", a) /\ Free(a) /\ hand[a].plans[run.k] # "none"
  /\ \E o \in Calls(a, OpOf("cancel", run.k)) :
       /\ Applied(a, o)
       /\ hand' = [hand EXCEPT ![a] =
            IF o.ok /\ o.s.ex[run.k] \notin Unknown
            THEN Told([@ EXCEPT !.plans[run.k] = "reported"], Ev("cleared", run.k, TRUE))
            ELSE Told(@, Ev("cleared", run.k, FALSE))]
  /\ todo' = Rest
  /\ UNCHANGED <<run, rel, clock>>

\* Mutant: a staging whose reply was lost is taken for a refusal.
CancelUnknownAssumed(a) ==
  /\ At("cancel", a) /\ Free(a)
  /\ hand[a].plans[run.k] = "none" /\ run.k \in hand[a].unknown
  /\ hand' = [hand EXCEPT ![a] = Told(@, Ev("cleared", run.k, TRUE))]
  /\ todo' = Rest
  /\ UNCHANGED <<run, sup, rel, clock, trouble>>

\* _cancel_unknown_stage: the request is submitted again, which finds the
\* execution or makes it, and what it finds is cancelled.
CancelUnknown(a) ==
  /\ At("cancel", a) /\ Free(a)
  /\ hand[a].plans[run.k] = "none" /\ run.k \in hand[a].unknown
  /\ \E o \in Calls(a, OpOf("submit", run.k)) :
       /\ Applied(a, o)
       /\ \/ /\ o.ok /\ o.s.ex[run.k] \in Live
             /\ hand' = hand
             /\ todo' = <<Do("cancelFound", a)>> \o Rest
          \/ /\ ~(o.ok /\ o.s.ex[run.k] \in Live)
             /\ hand' = [hand EXCEPT ![a] = Told(Settled(@, run.k, o.ok), Ev("cleared", run.k, o.ok))]
             /\ todo' = Rest
  /\ UNCHANGED <<run, rel, clock>>

CancelFound(a) ==
  /\ At("cancelFound", a) /\ Free(a)
  /\ \E o \in Calls(a, OpOf("cancel", run.k)) :
       /\ Applied(a, o)
       /\ hand' = [hand EXCEPT ![a] = Told(Settled(@, run.k, o.ok), Ev("cleared", run.k, o.ok))]
  /\ todo' = Rest
  /\ UNCHANGED <<run, rel, clock>>

ForThisPair(e) == e.k = run.k

AllDone(results) == results = Arms

\* on_member_event: a fault ends any active pair; everything else must name
\* this pair's plan of this arm.
OnMemberEvent(a, e) ==
  IF e.kind = "fault" THEN Abort("FAULTED", Rest)
  ELSE IF ForThisPair(e) /\ e.kind = "cleared" /\ run.cancelling /\ e.ok
       THEN run' = [run EXCEPT !.pending = @ \ {a}] /\ todo' = Rest
  ELSE IF ForThisPair(e) /\ e.kind = "staged" /\ run.life = "STAGING" /\ a \notin run.acks
       THEN IF e.ok
            THEN /\ run' = [run EXCEPT !.acks = @ \cup {a},
                            !.life = IF run.acks \cup {a} = Arms THEN "READY" ELSE @]
                 /\ todo' = Rest
            ELSE Abort("REJECTED", Rest)
  ELSE IF ForThisPair(e) /\ e.kind = "leg" /\ ~e.ok THEN Abort("FAULTED", Rest)
  ELSE IF ForThisPair(e) /\ e.kind = "leg" /\ run.life = "EXECUTING"
       THEN /\ run' = [run EXCEPT !.results = @ \cup {a},
                            !.life = IF AllDone(run.results \cup {a}) THEN "COMPLETE" ELSE @]
            /\ todo' = Rest
  ELSE run' = run /\ todo' = Rest

Delivered(a) ==
  /\ At("event", a)
  /\ OnMemberEvent(a, Head(todo).ev)
  /\ UNCHANGED <<hand, sup, rel, clock, trouble>>

\* One console tick: SupervisedHardware.step reads each arm's state (which
\* drops ended plans), and pump polls both arms and checks the run.
Pump ==
  /\ todo = <<>> /\ run.k > 0
  /\ todo' = <<Do("poll", Left), Do("poll", Right), Do("look", Left), Do("look", Right)>>
  /\ UNCHANGED <<run, hand, sup, rel, clock, trouble>>

\* SdkArmHandle.state, and check_timeouts: an active pair needs both arms fit;
\* staging has a time limit.
Look(a) ==
  /\ At("look", a) /\ Free(a)
  /\ \E o \in Reads(a) :
       /\ Applied(a, o)
       /\ hand' = IF o.ok THEN [hand EXCEPT ![a] = Pruned(@, o.s)] ELSE hand
       /\ \/ ~(o.ok /\ Fit(o.s)) /\ Abort("FAULTED", Rest)
          \/ o.ok /\ Fit(o.s) /\ run.life = "STAGING" /\ a = Right /\ Abort("REJECTED", Rest)
          \/ o.ok /\ Fit(o.s) /\ run' = run /\ todo' = Rest
  /\ UNCHANGED <<rel, clock>>

\* cancel_pair: the operator's, or a retry of the cancels not confirmed.
CancelPair ==
  /\ todo = <<>> /\ run.k > 0
  /\ \/ run.life \in Active /\ Abort("CANCELLED", <<>>)
     \/ /\ run.life \notin Active /\ run.pending # {}
        /\ \A a \in Arms : Len(hand[a].events) < MaxEvents
        /\ \E s \in Orders : todo' = ForEach("cancel", run.pending, s)
        /\ run' = run
  /\ UNCHANGED <<hand, sup, rel, clock, trouble>>

-----------------------------------------------------------------------------
(* The supervisors on their own, and time.                                 *)

\* The loop performs a call whose caller has given up.
LoopRuns(a) ==
  /\ sup[a].ops # <<>>
  /\ \E s \in Perform([sup[a] EXCEPT !.ops = Tail(@)], Head(sup[a].ops)) :
       sup' = [sup EXCEPT ![a] = s]
  /\ UNCHANGED <<run, todo, hand, rel, clock, trouble>>

\* Service._client and close_session: what the session still had queued is
\* refused from here on, and its ownership ends.
SessionEnds(a) ==
  /\ ~sup[a].open /\ sup[a].owned /\ OpOf("lost", 0) \notin {sup[a].ops[i] : i \in DOMAIN sup[a].ops}
  /\ sup' = [sup EXCEPT ![a].ops = <<OpOf("lost", 0)>>]
  /\ UNCHANGED <<run, todo, hand, rel, clock, trouble>>

\* The controller reaches the stamp (its reference held the first point until
\* then), and ends the leg.
Starts(a, k) ==
  /\ sup[a].ex[k] = "SELECTED" /\ clock = "passed"
  /\ sup' = [sup EXCEPT ![a].ex[k] = "RUNNING"]
  /\ UNCHANGED <<run, todo, hand, rel, clock, trouble>>

Finishes(a, k) ==
  /\ sup[a].ex[k] = "RUNNING"
  /\ \E e \in {"COMPLETED", "FAULTED"} : sup' = [sup EXCEPT ![a].ex[k] = e]
  /\ UNCHANGED <<run, todo, hand, rel, clock, trouble>>

LeadPasses ==
  /\ clock \in {"lead", "late"}
  /\ clock' = IF clock = "lead" THEN "late" ELSE "passed"
  /\ UNCHANGED <<run, todo, hand, sup, rel, trouble>>

\* A robot fault ends what is live and drops the authority; the operator's
\* DISARM cancels it (AsyncAuthorityHandle runs both on the arm's channel).
Faults(a) ==
  /\ trouble < MaxTrouble /\ trouble' = trouble + 1
  /\ sup' = [sup EXCEPT ![a] = [AllLive(@, "FAULTED") EXCEPT !.armed = FALSE, !.fault = TRUE]]
  /\ UNCHANGED <<run, todo, hand, rel, clock>>

Disarms(a) ==
  /\ sup[a].open /\ Free(a) /\ sup[a].ops = <<>> /\ sup[a].armed
  /\ trouble < MaxTrouble /\ trouble' = trouble + 1
  /\ sup' = [sup EXCEPT ![a] = [AllLive(@, "CANCELLED") EXCEPT !.armed = FALSE]]
  /\ UNCHANGED <<run, todo, hand, rel, clock>>

Rearms(a) ==
  /\ sup[a].open /\ Free(a) /\ sup[a].ops = <<>> /\ ~sup[a].armed
  /\ sup' = [sup EXCEPT ![a].armed = TRUE, ![a].fault = FALSE]
  /\ UNCHANGED <<run, todo, hand, rel, clock, trouble>>

\* RobotRuntime._prune: an ended execution falls out of the bounded history.
Prunes(a, k) ==
  /\ sup[a].ex[k] \in Ended /\ trouble < MaxTrouble /\ trouble' = trouble + 1
  /\ sup' = [sup EXCEPT ![a].ex[k] = "FORGOTTEN"]
  /\ UNCHANGED <<run, todo, hand, rel, clock>>

Cancels(a) == CancelNothing(a) \/ CancelRecorded(a) \/ CancelUnknown(a) \/ CancelFound(a)
Thread ==
  \/ Send \/ Await \/ ReleaseFailed
  \/ \E a \in Arms : StageMember(a) \/ Poll(a) \/ Collect(a) \/ Undo(a) \/ Cancels(a)
                       \/ Delivered(a) \/ Look(a)
Worker(a) == ReleaseSent(a) \/ ReplyRead(a)
Moves(a) == \E k \in Pairs : Starts(a, k) \/ Finishes(a, k)

Next ==
  \/ StagePair \/ ExecutePair \/ CancelPair \/ Pump \/ Thread \/ LeadPasses
  \/ \E a \in Arms : Worker(a) \/ LoopRuns(a) \/ SessionEnds(a) \/ Moves(a)
                       \/ Faults(a) \/ Disarms(a) \/ Rearms(a)
  \/ \E a \in Arms, k \in Pairs : Prunes(a, k)

Spec == Init /\ [][Next]_vars

\* The console ticks, its thread and its workers go on, each supervisor's loop
\* goes on and notices a lost session, and time passes.  Nothing is asked of
\* the operator, and a leg need never end by itself.
PairFair ==
  /\ WF_vars(Pump) /\ WF_vars(Thread) /\ WF_vars(LeadPasses)
  /\ \A a \in Arms : /\ WF_vars(Worker(a)) /\ WF_vars(LoopRuns(a))
                       /\ WF_vars(SessionEnds(a))
FairSpec == Spec /\ PairFair

-----------------------------------------------------------------------------
(* Whether the arm can still come to play its member of pair k: it is held *)
(* by the supervisor, or a submission of it is still on its way.           *)
CanRun(a, k) ==
  \/ sup[a].ex[k] \in Live
  \/ sup[a].ex[k] \in Unknown /\ \E i \in DOMAIN sup[a].ops : sup[a].ops[i] = OpOf("submit", k)

(* "cleared" is the truth: once the coordinator takes an arm's cancel as   *)
(* confirmed, no supervisor holds that arm's member of the pair or will    *)
(* come to hold it - also after a staging whose reply was lost, a release  *)
(* that hung, or a cancel that timed out (coordinator.py pending_cancels,  *)
(* supervised.py _cancel_unknown_stage).                                   *)
ClearedIsOver ==
  run.cancelling => \A a \in Arms \ run.pending : ~CanRun(a, run.k)

(* No late start: once one arm plays its member of a pair, the other's     *)
(* supervisor takes no release of its own member any more - a release that *)
(* timed out and is performed late is refused against the stamp            *)
(* (runtime.py _release, the minimum lead).                                *)
NoLateStart ==
  [][\A a \in Arms, b \in Arms : \A k \in Pairs :
       sup[a].ex[k] # "SELECTED" /\ sup'[a].ex[k] = "SELECTED" =>
         sup[b].ex[k] # "RUNNING"]_vars

(* A pair never waits forever on members that are over: once neither arm   *)
(* plays or can come to play, EXECUTING ends, whatever was lost, refused   *)
(* or forgotten on the way (supervised.py poll_events and _forget).        *)
PairEnds ==
  (run.life = "EXECUTING" /\ \A a \in Arms : ~CanRun(a, run.k)) ~> run.life # "EXECUTING"

(* An arm left alone is stopped: when one member is selected or playing    *)
(* and its partner was cancelled, refused or faulted, the member is        *)
(* cancelled too, however long it would have gone on, even if it was the   *)
(* one whose release hung.                                                 *)
Alone(a) ==
  \E k \in Pairs, b \in Arms \ {a} : /\ sup[a].ex[k] \in {"SELECTED", "RUNNING"}
                                    /\ sup[b].ex[k] \in {"CANCELLED", "REJECTED", "FAULTED"}
LoneLegStopped == \A a \in Arms : Alone(a) ~> ~Alone(a)
=============================================================================
