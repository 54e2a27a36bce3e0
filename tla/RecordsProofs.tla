---------------------------- MODULE RecordsProofs -----------------------------
(***************************************************************************)
(* What threads and processes of the RT side hand to each other, for any   *)
(* number of everything they hand over: the state stream and its APPLIED   *)
(* rule, the slot of the group record, and native references.              *)
(***************************************************************************)
EXTENDS StateStream, GroupRecord, Reference, FiniteSetTheorems, TLAPS

-----------------------------------------------------------------------------
(* The APPLIED rule for any number of generations, commands and packets:   *)
(* what the tracker confirms was written and accepted, provided a thread   *)
(* inside latch() is not preempted for two whole ticks.                    *)

-----------------------------------------------------------------------------
(* Serial numbers.                                                         *)

\* The residue of a number in the first two periods.
LEMMA Residue ==
  /\ \A x \in 0..(SeqMod - 1) : x % SeqMod = x
  /\ \A x \in SeqMod..(2 * SeqMod - 1) : x % SeqMod = x - SeqMod
  /\ \A x \in (0 - SeqMod)..(0 - 1) : x % SeqMod = x + SeqMod
<1>1. ASSUME NEW x \in 0..(SeqMod - 1) PROVE x % SeqMod = x
  BY SeqModAssumption
<1>2. ASSUME NEW x \in SeqMod..(2 * SeqMod - 1) PROVE x % SeqMod = x - SeqMod
  BY SeqModAssumption
<1>3. ASSUME NEW x \in (0 - SeqMod)..(0 - 1) PROVE x % SeqMod = x + SeqMod
  BY SeqModAssumption
<1> QED
  BY <1>1, <1>2, <1>3

\* state_seq of the k-th packet.
Serial(k) == (FirstSeq + k) % SeqMod

\* No number is newer than itself.
LEMMA NotNewerThanSelf == \A x \in Int : ~Newer(x, x)
  BY SeqModAssumption DEF Newer

\* An earlier packet is not newer than a later one.
LEMMA EarlierNotNewer ==
  \A b \in 0..MaxTicks : \A a \in 0..(b - 1) : ~Newer(Serial(a), Serial(b))
<1> SUFFICES ASSUME NEW b \in 0..MaxTicks, NEW a \in 0..(b - 1)
             PROVE  ~Newer(Serial(a), Serial(b))
  OBVIOUS
<1>0. /\ SeqMod \in Nat \ {0} /\ FirstSeq \in 0..(SeqMod - 1) /\ 2 * MaxTicks < SeqMod
      /\ MaxTicks \in Nat /\ a \in Nat /\ b \in Nat /\ a < b /\ b <= MaxTicks
  BY SeqModAssumption, StateStreamAssumption
<1>1. /\ Serial(a) = IF FirstSeq + a < SeqMod THEN FirstSeq + a ELSE FirstSeq + a - SeqMod
      /\ Serial(b) = IF FirstSeq + b < SeqMod THEN FirstSeq + b ELSE FirstSeq + b - SeqMod
  BY <1>0, Residue DEF Serial
<1>2. (Serial(a) - Serial(b)) % SeqMod = SeqMod - (b - a)
  <2>1. Serial(a) - Serial(b) \in {a - b, a - b + SeqMod}
    BY <1>0, <1>1
  <2>2. a - b \in (0 - SeqMod)..(0 - 1) /\ a - b + SeqMod \in 0..(SeqMod - 1)
    BY <1>0
  <2> QED
    BY <1>0, <2>1, <2>2, Residue
<1>3. SeqMod - (b - a) >= SeqMod \div 2
  BY <1>0
<1> QED
  BY <1>2, <1>3, <1>0 DEF Newer

-----------------------------------------------------------------------------
(* The tracker's methods.                                                  *)

\* A packet of the network, fed to a tracker, makes a tracker.
LEMMA FeedTyped ==
  ASSUME NEW t \in Tracker, NEW p \in Packet
  PROVE  Feed(t, p) \in Tracker
<1>1. Enter(t, p.epoch) \in Tracker
  BY DEF Enter, NewTracker, Tracker, Packet
<1>2. ASSUME NEW e \in Tracker PROVE Judge(e, p) \in Tracker
  <2>0. p.seq \in 0..(SeqMod - 1) /\ p.last \in 0..MaxSeq /\ (e.faulted \/ p.faulted) \in BOOLEAN
    BY DEF Packet
  <2>1. CASE e.closed
    BY <2>0, <2>1 DEF Judge, Tracker
  <2>2. CASE ~e.closed /\ (~p.armed \/ p.faulted)
    BY <2>0, <2>2 DEF Judge, Tracker
  <2>3. CASE ~e.closed /\ ~(~p.armed \/ p.faulted)
    BY <2>0, <2>3 DEF Judge, Tracker
  <2> QED
    BY <2>1, <2>2, <2>3
<1> QED
  BY <1>1, <1>2 DEF Feed

\* What feeding a packet can do to a tracker: nothing, or a new generation and
\* nothing confirmed, or the packet is newer and of its generation.
LEMMA FeedCases ==
  ASSUME NEW t \in Tracker, NEW p \in Packet
  PROVE  \E e \in Tracker :
           /\ e = t \/ (e = [NewTracker EXCEPT !.epoch = p.epoch] /\ e.epoch # t.epoch)
           /\ \/ Feed(t, p) = e
              \/ /\ p.epoch = e.epoch
                 /\ e.last = None \/ Newer(p.seq, e.last)
                 /\ Feed(t, p) = Judge(e, p)
<1> DEFINE e == Enter(t, p.epoch)
<1>1. e \in Tracker
  BY DEF Enter, NewTracker, Tracker, Packet
<1>2. e = t \/ (e = [NewTracker EXCEPT !.epoch = p.epoch] /\ e.epoch # t.epoch)
  <2>1. CASE t.epoch = None
    BY <2>1 DEF Enter, NewTracker, Packet, None
  <2>2. CASE t.epoch # None /\ Newer(p.epoch, t.epoch)
    <3>1. t.epoch \in Int /\ p.epoch # t.epoch
      BY <2>2, NotNewerThanSelf DEF Tracker, Packet
    <3> QED
      BY <2>2, <3>1 DEF Enter, NewTracker
  <2>3. CASE t.epoch # None /\ ~Newer(p.epoch, t.epoch)
    BY <2>3 DEF Enter
  <2> QED
    BY <2>1, <2>2, <2>3
<1>3. \/ Feed(t, p) = e
      \/ /\ p.epoch = e.epoch
         /\ e.last = None \/ Newer(p.seq, e.last)
         /\ Feed(t, p) = Judge(e, p)
  BY DEF Feed
<1> QED
  BY <1>1, <1>2, <1>3

\* What one packet says.
LEMMA JudgeCases ==
  ASSUME NEW t \in Tracker, NEW p \in Packet
  PROVE  LET u == Judge(t, p) IN
         /\ u.epoch = t.epoch /\ u.last = p.seq
         /\ u.faulted = (t.faulted \/ p.faulted)
         /\ u.closed = (t.closed \/ ~p.armed \/ p.faulted)
         /\ u.confirmed = IF u.closed \/ t.candidate = None THEN t.confirmed ELSE t.candidate
         /\ u.candidate = IF t.closed THEN t.candidate
                          ELSE IF u.closed THEN None ELSE p.last
<1>1. CASE t.closed
  BY <1>1 DEF Judge, Tracker, Packet
<1>2. CASE ~t.closed /\ (~p.armed \/ p.faulted)
  BY <1>2 DEF Judge, Tracker, Packet
<1>3. CASE ~t.closed /\ ~(~p.armed \/ p.faulted)
  BY <1>3 DEF Judge, Tracker, Packet
<1> QED
  BY <1>1, <1>2, <1>3

-----------------------------------------------------------------------------
(* The invariant.                                                          *)

(* Authority.  The servo's generation is never ahead of the server's; a    *)
(* lost session keeps its authority and its latch to the end.              *)
Authority ==
  /\ seen <= agen
  /\ asked = "dropped" => ~armed
  /\ word = "writing" => lost
  /\ lost => armed /\ asked # "dropped" /\ word # "free"
  /\ stalled > 0 => word = "writing"

(* A command is selected in the generation it was sent under.              *)
Selects ==
  /\ spc = "write" => plantOk /\ (s.cmd # 0 => s.cmd = lastCmd)
  /\ spc \in {"act", "write"} /\ s.cmd # 0 => sentIn[s.cmd] = seen
  /\ lastCmd # 0 => sentIn[lastCmd] # None /\ sentIn[lastCmd] <= seen
  /\ spc \in {"act", "write"} => s.armed

(* The generation the servo last saw is over: the authority was dropped,   *)
(* or dropped and given anew.                                              *)
Over == agen > seen \/ ~armed

(* The servo's last command, of its own generation, was refused.  Then the *)
(* servo writes nothing more in it, and the refusal is latched, being      *)
(* latched, or cleared with the end of the generation.                     *)
Refused ==
  /\ lastCmd # 0 /\ sentIn[lastCmd] = seen /\ lastCmd \notin accepted
  /\ ~(spc = "write" /\ s.cmd # 0)
Latches == Refused => ~plantOk /\ (word # "free" \/ Over)

(* A packet that shows a refused command with no fault.                    *)
Misleading(p) ==
  /\ p.armed /\ ~p.faulted
  /\ p.last # 0 /\ sentIn[p.last] = p.epoch /\ p.last \notin accepted

(* Packets are numbered as they are sent, and every packet says what the   *)
(* servo knew.                                                             *)
Numbered ==
  /\ IsFiniteSet(net) /\ Cardinality(net) <= MaxTicks
  /\ \A p \in net :
       /\ \E k \in 0..(Cardinality(net) - 1) : p.seq = Serial(k)
       /\ p.epoch <= seen
       /\ p.last # 0 => sentIn[p.last] # None

(* A misleading packet is the last of its generation that is armed and     *)
(* without a fault: the fault is latched by the next tick's end, or the    *)
(* next tick samples the authority as gone.                                *)
LastWord ==
  \A p \in net : Misleading(p) /\ p.epoch = seen =>
    /\ p.last = lastCmd /\ ~plantOk /\ ~(spc = "write" /\ s.cmd # 0)
    /\ \/ lost /\ (word = "set" \/ stalled >= 1)
       \/ Over /\ (spc = "armed" \/ ~s.armed \/ (spc = "gen" /\ agen > seen))

(* So no packet of its generation that is newer, armed and without a fault *)
(* follows it.                                                             *)
Unfollowed ==
  \A p, q \in net :
    Misleading(p) /\ q.epoch = p.epoch /\ q.armed /\ Newer(q.seq, p.seq) => q.faulted

(* The tracker.                                                            *)
Candidate ==
  trk.candidate # None =>
    \E p \in net : /\ p.armed /\ ~p.faulted /\ p.epoch = trk.epoch
                   /\ p.last = trk.candidate /\ p.seq = trk.last
Evident ==
  trk.confirmed \notin {None, 0} =>
    /\ sentIn[trk.confirmed] # None
    /\ sentIn[trk.confirmed] = trk.epoch => trk.confirmed \in accepted
FaultClosed ==
  /\ trk.faulted => trk.closed
  /\ trk.closed => trk.candidate = None

StreamInv ==
  /\ TypeOK /\ Authority /\ Selects /\ Latches /\ Numbered /\ LastWord /\ Unfollowed
  /\ Candidate /\ Evident /\ FaultClosed

-----------------------------------------------------------------------------
(* Types, and what no step takes back.                                     *)

\* The initial state.
LEMMA StreamStart == Init => StreamInv
<1> SUFFICES ASSUME Init PROVE StreamInv
  OBVIOUS
<1>a. /\ MaxGen \in Nat /\ MaxSeq \in Nat /\ MaxStall \in Nat /\ MaxTicks \in Nat
  BY StateStreamAssumption
<1>1. TypeOK
  <2>1. trk \in Tracker /\ trk = NewTracker
    BY DEF Init, NewTracker, Tracker
  <2>2. s \in [armed : BOOLEAN, faulted : BOOLEAN, gen : 0..MaxGen, cmd : 0..MaxSeq]
    BY <1>a DEF Init
  <2>3. sentIn \in [1..MaxSeq -> {None} \cup (1..MaxGen)]
    BY DEF Init
  <2>4. net \subseteq Packet /\ accepted \subseteq 1..MaxSeq
    BY DEF Init
  <2>5. 0 \in 0..MaxGen /\ 0 \in 0..MaxSeq /\ 0 \in 0..MaxStall
    BY <1>a
  <2> QED
    BY <2>1, <2>2, <2>3, <2>4, <2>5, Zenon DEF Init, TypeOK
<1>2. Cardinality(net) = 0 /\ IsFiniteSet(net)
  BY FS_EmptySet DEF Init
<1>3. trk.candidate = None /\ trk.confirmed = None /\ ~trk.faulted /\ ~trk.closed
  BY DEF Init, NewTracker
<1>4. Authority /\ Selects /\ Latches
  BY DEF Init, Authority, Selects, Latches, Refused
<1>5. Numbered /\ LastWord /\ Unfollowed
  BY <1>2, <1>a DEF Init, Numbered, LastWord, Unfollowed
<1>6. Candidate /\ Evident /\ FaultClosed
  BY <1>3 DEF Candidate, Evident, FaultClosed
<1> QED
  BY <1>1, <1>4, <1>5, <1>6 DEF StreamInv

\* The types are kept.
LEMMA StreamTyped == TypeOK /\ Numbered /\ Next => TypeOK'
<1> SUFFICES ASSUME TypeOK, Numbered, Next PROVE TypeOK'
  OBVIOUS
<1>a. /\ MaxGen \in Nat /\ MaxSeq \in Nat /\ MaxStall \in Nat /\ MaxTicks \in Nat
      /\ SeqMod \in Nat \ {0} /\ FirstSeq \in Nat
  BY StateStreamAssumption, SeqModAssumption
<1>1. CASE Arm
  BY <1>1, <1>a DEF Arm, TypeOK, servoVars
<1>2. CASE RequestDisarm
  <2>1. trk' \in Tracker
    BY <1>2 DEF RequestDisarm, DisarmSent, TypeOK, Tracker
  <2> QED
    BY <1>2, <2>1 DEF RequestDisarm, TypeOK, serverVars
<1>3. CASE Drop
  BY <1>3 DEF Drop, TypeOK, servoVars
<1>4. CASE Clear
  BY <1>4, <1>a DEF Clear, TypeOK, servoVars
<1>5. CASE LostBegin
  BY <1>5 DEF LostBegin, TypeOK, servoVars
<1>6. CASE LostSet
  BY <1>6, <1>a DEF LostSet, TypeOK, servoVars
<1>7. CASE Send
  BY <1>7, <1>a DEF Send, TypeOK, serverVars
<1>8. CASE \E n \in 1..MaxSeq : Admit(n)
  BY <1>8, <1>a DEF Admit, TypeOK, servoVars
<1>9. CASE SampleArmed
  BY <1>9 DEF SampleArmed, TypeOK
<1>10. CASE SampleGen
  <2>1. (IF cmdIn # 0 /\ sentIn[cmdIn] = agen THEN cmdIn ELSE 0) \in 0..MaxSeq
    BY <1>a DEF TypeOK
  <2>2. (agen # seen \/ plantOk) \in BOOLEAN
    OBVIOUS
  <2>3. s' \in [armed : BOOLEAN, faulted : BOOLEAN, gen : 0..MaxGen, cmd : 0..MaxSeq]
    BY <1>10, <2>1 DEF SampleGen, TypeOK
  <2> QED
    BY <1>10, <2>2, <2>3 DEF SampleGen, TypeOK
<1>11. CASE Suppress
  BY <1>11 DEF Suppress, TypeOK
<1>12. CASE Select
  BY <1>12 DEF Select, TypeOK
<1>13. CASE Hold
  <2>1. s' \in [armed : BOOLEAN, faulted : BOOLEAN, gen : 0..MaxGen, cmd : 0..MaxSeq]
    BY <1>13, <1>a DEF Hold, TypeOK
  <2> QED
    BY <1>13, <2>1 DEF Hold, TypeOK
<1>14. CASE WriteAccepted
  <2>1. s.cmd \in 0..MaxSeq
    BY DEF TypeOK
  <2>2. accepted' = accepted \cup ({s.cmd} \ {0}) /\ accepted \subseteq 1..MaxSeq
    BY <1>14 DEF WriteAccepted, TypeOK
  <2>3. {s.cmd} \ {0} \subseteq 1..MaxSeq
    BY <1>a, <2>1
  <2>4. accepted' \subseteq 1..MaxSeq
    BY <2>2, <2>3
  <2> QED
    BY <1>14, <2>4 DEF WriteAccepted, TypeOK
<1>15. CASE WriteRejected
  BY <1>15 DEF WriteRejected, TypeOK
<1>16. CASE Publish
  <2>1. Cardinality(net) \in Nat
    BY FS_CardinalityType DEF Numbered
  <2>2. (FirstSeq + Cardinality(net)) % SeqMod \in 0..(SeqMod - 1)
    BY <2>1, <1>a
  <2>3. net' \subseteq Packet
    <3>1. /\ seen \in 0..MaxGen /\ s.armed \in BOOLEAN /\ lastCmd \in 0..MaxSeq
          /\ (word = "set") \in BOOLEAN
      BY DEF TypeOK
    <3>2. [epoch |-> seen, seq |-> (FirstSeq + Cardinality(net)) % SeqMod,
           armed |-> s.armed, faulted |-> word = "set", last |-> lastCmd] \in Packet
      BY <2>2, <3>1, Zenon DEF Packet
    <3> QED
      BY <1>16, <3>2 DEF Publish, TypeOK
  <2>4. stalled' \in 0..MaxStall
    BY <1>16, <1>a DEF Publish, TypeOK
  <2> QED
    BY <1>16, <2>3, <2>4 DEF Publish, TypeOK
<1>17. CASE \E p \in net : Receive(p)
  <2>1. trk' \in Tracker
    BY <1>17, FeedTyped DEF Receive, TypeOK
  <2> QED
    BY <1>17, <2>1 DEF Receive, TypeOK, serverVars
<1> QED
  BY <1>1, <1>2, <1>3, <1>4, <1>5, <1>6, <1>7, <1>8, <1>9, <1>10, <1>11, <1>12, <1>13,
     <1>14, <1>15, <1>16, <1>17 DEF Next

\* Nothing is unsent, unaccepted or unpublished again, and no generation comes back.
LEMMA Grows ==
  ASSUME TypeOK, Authority, Next
  PROVE  /\ \A n \in 1..MaxSeq : sentIn[n] # None => sentIn'[n] = sentIn[n]
         /\ accepted \subseteq accepted' /\ net \subseteq net'
         /\ agen <= agen' /\ seen <= seen'
         /\ Publish \/ net' = net
         /\ (\E p \in net : Receive(p)) \/ RequestDisarm \/ trk' = trk
         /\ SampleGen \/ seen' = seen
<1>1. CASE Arm \/ RequestDisarm \/ Drop \/ Clear \/ LostBegin \/ LostSet
  <2>1. UNCHANGED <<sentIn, accepted, net, seen>> /\ (RequestDisarm \/ trk' = trk)
    BY <1>1 DEF Arm, RequestDisarm, Drop, Clear, LostBegin, LostSet, servoVars, serverVars
  <2>2. agen' = agen \/ agen' = agen + 1
    BY <1>1 DEF Arm, RequestDisarm, Drop, Clear, LostBegin, LostSet, serverVars
  <2> QED
    BY <2>1, <2>2 DEF TypeOK
<1>2. CASE Send
  BY <1>2 DEF Send, serverVars, TypeOK
<1>3. CASE \E n \in 1..MaxSeq : Admit(n)
  BY <1>3 DEF Admit, servoVars, TypeOK
<1>4. CASE SampleArmed \/ SampleGen \/ Suppress \/ Select \/ Hold \/ WriteAccepted
           \/ WriteRejected \/ Publish
  <2>1. UNCHANGED <<sentIn, agen, trk>> /\ (Publish \/ net' = net)
        /\ (SampleGen \/ seen' = seen)
    BY <1>4 DEF SampleArmed, SampleGen, Suppress, Select, Hold, WriteAccepted, WriteRejected,
                Publish
  <2>2. accepted \subseteq accepted' /\ net \subseteq net'
    BY <1>4 DEF SampleArmed, SampleGen, Suppress, Select, Hold, WriteAccepted, WriteRejected,
                Publish
  <2>3. seen <= seen'
    BY <2>1 DEF SampleGen, Authority, TypeOK
  <2> QED
    BY <2>1, <2>2, <2>3 DEF TypeOK
<1>5. CASE \E p \in net : Receive(p)
  BY <1>5 DEF Receive, serverVars, TypeOK
<1> QED
  BY <1>1, <1>2, <1>3, <1>4, <1>5 DEF Next

\* A command refused now is one sent before, and refused.
LEMMA MisleadingBefore ==
  ASSUME TypeOK, Authority, Numbered, Next, NEW p \in net, Misleading(p)'
  PROVE  Misleading(p)
  BY Grows DEF Misleading, Numbered, TypeOK, Packet

\* Authority and the latch.
LEMMA AuthorityStep == TypeOK /\ Authority /\ Next => Authority'
<1> SUFFICES ASSUME TypeOK, Authority, Next PROVE Authority'
  OBVIOUS
<1>1. CASE Arm \/ RequestDisarm \/ Drop \/ Clear \/ LostBegin \/ LostSet
  BY <1>1 DEF Arm, RequestDisarm, Drop, Clear, LostBegin, LostSet, servoVars, serverVars,
              TypeOK, Authority
<1>2. CASE Send \/ (\E n \in 1..MaxSeq : Admit(n)) \/ (\E p \in net : Receive(p))
  BY <1>2 DEF Send, Admit, Receive, serverVars, servoVars, TypeOK, Authority
<1>3. CASE SampleArmed \/ SampleGen \/ Suppress \/ Select \/ Hold \/ WriteAccepted
  BY <1>3 DEF SampleArmed, SampleGen, Suppress, Select, Hold, WriteAccepted, TypeOK, Authority
<1>4. CASE WriteRejected \/ Publish
  BY <1>4 DEF WriteRejected, Publish, TypeOK, Authority
<1> QED
  BY <1>1, <1>2, <1>3, <1>4 DEF Next

\* Selection.
LEMMA SelectsStep == TypeOK /\ Authority /\ Selects /\ Next => Selects'
<1> SUFFICES ASSUME TypeOK, Authority, Selects, Next PROVE Selects'
  OBVIOUS
<1>0. /\ \A n \in 1..MaxSeq : sentIn[n] # None => sentIn'[n] = sentIn[n]
      /\ \A n \in 1..MaxSeq : sentIn[n] \in {None} \cup (1..MaxGen)
      /\ lastCmd \in 0..MaxSeq /\ s.cmd \in 0..MaxSeq /\ seen \in 0..MaxGen
      /\ cmdIn \in 0..MaxSeq /\ agen \in 0..MaxGen /\ None \notin 0..MaxGen
  BY Grows DEF TypeOK, None
<1>1. CASE \/ Arm \/ RequestDisarm \/ Drop \/ Clear \/ LostBegin \/ LostSet \/ Send
           \/ (\E n \in 1..MaxSeq : Admit(n)) \/ (\E p \in net : Receive(p))
  <2>1. UNCHANGED <<spc, s, seen, plantOk, lastCmd>>
    BY <1>1 DEF Arm, RequestDisarm, Drop, Clear, LostBegin, LostSet, Send, Admit, Receive,
                servoVars, serverVars
  <2> QED
    BY <1>0, <2>1 DEF Selects
<1>2. CASE SampleArmed
  BY <1>2, <1>0 DEF SampleArmed, Selects, TypeOK
<1>3. CASE SampleGen
  <2>1. s'.cmd = (IF cmdIn # 0 /\ sentIn[cmdIn] = agen THEN cmdIn ELSE 0) /\ s'.armed = s.armed
    BY <1>3 DEF SampleGen, TypeOK
  <2> QED
    BY <1>3, <1>0, <2>1 DEF SampleGen, Selects, Authority
<1>4. CASE Suppress \/ Select \/ WriteAccepted \/ WriteRejected \/ Publish
  BY <1>4, <1>0 DEF Suppress, Select, WriteAccepted, WriteRejected, Publish, Selects
<1>5. CASE Hold
  <2>1. s'.cmd = 0 /\ s'.armed = s.armed
    BY <1>5 DEF Hold, TypeOK
  <2> QED
    BY <1>5, <1>0, <2>1 DEF Hold, Selects
<1> QED
  BY <1>1, <1>2, <1>3, <1>4, <1>5 DEF Next

\* A refusal stays latched for as long as its generation lasts.
LEMMA LatchesStep == TypeOK /\ Authority /\ Selects /\ Latches /\ Next => Latches'
<1> SUFFICES ASSUME TypeOK, Authority, Selects, Latches, Next, Refused'
             PROVE  ~plantOk' /\ (word' # "free" \/ Over')
  BY DEF Latches
<1>0. /\ \A n \in 1..MaxSeq : sentIn[n] # None => sentIn'[n] = sentIn[n]
      /\ lastCmd \in 0..MaxSeq /\ seen \in 0..MaxGen /\ agen \in 0..MaxGen /\ seen <= agen
      /\ lastCmd # 0 => sentIn[lastCmd] # None /\ sentIn[lastCmd] <= seen
      /\ accepted \subseteq accepted'
  BY Grows DEF TypeOK, Selects, Authority
<1>a. ASSUME lastCmd' = lastCmd, seen' = seen, ~(spc = "write" /\ s.cmd # 0)
      PROVE  ~plantOk /\ (word # "free" \/ Over)
  <2>1. Refused
    BY <1>0, <1>a DEF Refused
  <2> QED
    BY <2>1 DEF Latches
<1>1. CASE \/ Arm \/ RequestDisarm \/ Drop \/ Clear \/ LostBegin \/ LostSet \/ Send
           \/ (\E n \in 1..MaxSeq : Admit(n)) \/ (\E p \in net : Receive(p))
  <2>1. UNCHANGED <<spc, s, seen, plantOk, lastCmd>>
    BY <1>1 DEF Arm, RequestDisarm, Drop, Clear, LostBegin, LostSet, Send, Admit, Receive,
                servoVars, serverVars
  <2>2. ~plantOk /\ (word # "free" \/ Over)
    BY <1>a, <2>1 DEF Refused
  <2>3. word' # "free" \/ Over'
    BY <1>0, <1>1, <2>1, <2>2
    DEF Arm, RequestDisarm, Drop, Clear, LostBegin, LostSet, Send, Admit, Receive,
        serverVars, Over, Authority
  <2> QED
    BY <2>1, <2>2, <2>3
<1>2. CASE SampleArmed
  <2>1. ~plantOk /\ (word # "free" \/ Over)
    BY <1>2, <1>a DEF SampleArmed
  <2> QED
    BY <1>2, <2>1 DEF SampleArmed, Over
<1>3. CASE SampleGen
  <2>1. agen = seen
    BY <1>0, <1>3 DEF SampleGen, Refused
  <2>2. ~plantOk /\ (word # "free" \/ Over)
    BY <1>3, <1>a, <2>1 DEF SampleGen
  <2> QED
    BY <1>3, <2>1, <2>2 DEF SampleGen, Over
<1>4. CASE Suppress \/ Publish
  <2>1. ~plantOk /\ (word # "free" \/ Over)
    BY <1>4, <1>a DEF Suppress, Publish
  <2> QED
    BY <1>4, <2>1 DEF Suppress, Publish, Over
<1>5. CASE Select
  BY <1>5 DEF Select, Refused
<1>6. CASE Hold
  BY <1>6, <1>a DEF Hold
<1>7. CASE WriteAccepted
  <2>1. s.cmd # 0 => lastCmd \in accepted'
    BY <1>7 DEF WriteAccepted, Selects
  <2>2. s.cmd = 0
    BY <1>7, <2>1 DEF WriteAccepted, Refused
  <2> QED
    BY <1>7, <1>a, <2>2 DEF WriteAccepted, Selects
<1>8. CASE WriteRejected
  BY <1>8 DEF WriteRejected
<1> QED
  BY <1>1, <1>2, <1>3, <1>4, <1>5, <1>6, <1>7, <1>8 DEF Next

\* The packet of this tick.
Sent == [epoch |-> seen, seq |-> Serial(Cardinality(net)), armed |-> s.armed,
         faulted |-> word = "set", last |-> lastCmd]

\* The numbers of the packets.
LEMMA NumberedStep == TypeOK /\ Authority /\ Selects /\ Numbered /\ Next => Numbered'
<1> SUFFICES ASSUME TypeOK, Authority, Selects, Numbered, Next PROVE Numbered'
  OBVIOUS
<1>0. /\ \A n \in 1..MaxSeq : sentIn[n] # None => sentIn'[n] = sentIn[n]
      /\ seen <= seen'
  BY Grows
<1>b. /\ seen \in Int /\ seen' \in Int
      /\ \A p \in net : p.last \in 0..MaxSeq /\ p.epoch \in Int
  <2>1. TypeOK'
    BY StreamTyped
  <2>2. seen \in 0..MaxGen /\ seen' \in 0..MaxGen
    BY <2>1 DEF TypeOK
  <2>3. ASSUME NEW p \in net PROVE p.last \in 0..MaxSeq /\ p.epoch \in 0..MaxGen
    BY <2>1 DEF TypeOK, Packet
  <2> QED
    BY <2>2, <2>3
<1>1. CASE ~Publish
  <2>1. net' = net
    BY <1>1, Grows
  <2> QED
    BY <1>0, <1>b, <2>1 DEF Numbered
<1>2. CASE Publish
  <2>1. /\ net' = net \cup {Sent} /\ Cardinality(net) < MaxTicks /\ UNCHANGED <<sentIn, seen>>
    BY <1>2 DEF Publish, Sent, Serial
  <2>2. Cardinality(net) \in Nat /\ IsFiniteSet(net) /\ MaxTicks \in Nat
    BY FS_CardinalityType, StateStreamAssumption DEF Numbered
  <2>3. CASE Sent \in net
    <3>1. net' = net
      BY <2>1, <2>3
    <3> QED
      BY <1>0, <1>b, <3>1 DEF Numbered
  <2>4. CASE Sent \notin net
    <3>1. IsFiniteSet(net') /\ Cardinality(net') = Cardinality(net) + 1
      BY <2>1, <2>2, <2>4, FS_AddElement
    <3>2. Sent.seq = Serial(Cardinality(net)) /\ Sent.epoch = seen /\ Sent.last = lastCmd
      BY DEF Sent
    <3>3. lastCmd # 0 => sentIn[lastCmd] # None
      BY DEF Selects
    <3>4. ASSUME NEW p \in net'
          PROVE  /\ \E k \in 0..(Cardinality(net') - 1) : p.seq = Serial(k)
                 /\ p.epoch <= seen' /\ (p.last # 0 => sentIn'[p.last] # None)
      <4>1. CASE p \in net
        BY <1>0, <1>b, <2>1, <2>2, <3>1, <4>1 DEF Numbered
      <4>2. CASE p = Sent
        BY <1>0, <1>b, <2>1, <2>2, <3>1, <3>2, <3>3, <4>2
      <4> QED
        BY <2>1, <4>1, <4>2
    <3>5. Cardinality(net') <= MaxTicks
      BY <2>1, <2>2, <3>1
    <3> QED
      BY <3>1, <3>4, <3>5, Zenon DEF Numbered
  <2> QED
    BY <2>3, <2>4
<1> QED
  BY <1>1, <1>2

\* A misleading packet is the last word of its generation.
LEMMA LastWordStep ==
  ASSUME MaxStall <= 1, TypeOK, Authority, Selects, Latches, Numbered, LastWord, Next
  PROVE  LastWord'
<1> SUFFICES ASSUME NEW p \in net', Misleading(p)', p.epoch = seen'
             PROVE  /\ p.last = lastCmd' /\ ~plantOk' /\ ~(spc' = "write" /\ s'.cmd # 0)
                    /\ \/ lost' /\ (word' = "set" \/ stalled' >= 1)
                       \/ Over' /\ (spc' = "armed" \/ ~s'.armed \/ (spc' = "gen" /\ agen' > seen'))
  BY DEF LastWord
<1>0. /\ seen \in Int /\ agen \in Int /\ seen <= agen /\ stalled \in Nat
      /\ MaxStall \in Nat /\ s.cmd \in Nat
  BY StateStreamAssumption DEF TypeOK, Authority
<1>1. CASE p \notin net
  <2>1. Publish
    BY <1>1, Grows
  <2>2. net' = net \cup {Sent} /\ UNCHANGED <<sentIn, accepted, seen, lastCmd>>
    BY <2>1 DEF Publish, Sent, Serial
  <2>3. p = Sent
    BY <1>1, <2>2
  <2>4. p.armed = s.armed /\ p.faulted = (word = "set") /\ p.last = lastCmd /\ p.epoch = seen
    BY <2>3 DEF Sent
  <2>5. Refused /\ word # "set"
    BY <2>1, <2>2, <2>4 DEF Misleading, Refused, Publish
  <2>6. ~plantOk /\ (word = "writing" \/ Over)
    BY <2>5 DEF Latches, TypeOK
  <2>7. spc' = "armed" /\ plantOk' = plantOk /\ lost' = lost /\ (Over' <=> Over)
    BY <2>1 DEF Publish, Over
  <2>8. word = "writing" => lost' /\ stalled' >= 1
    BY <1>0, <2>1, <2>7 DEF Publish, Authority
  <2> QED
    BY <2>2, <2>4, <2>6, <2>7, <2>8
<1>2. CASE p \in net
  <2>1. Misleading(p) /\ p.epoch <= seen /\ p.epoch \in Int
    BY <1>2, MisleadingBefore DEF Numbered, TypeOK, Packet
  <2>2. p.epoch = seen /\ seen' = seen
    <3>1. CASE SampleGen
      BY <1>0, <2>1, <3>1 DEF SampleGen
    <3>2. CASE ~SampleGen
      BY <3>2, Grows
    <3> QED
      BY <3>1, <3>2
  <2>3. /\ p.last = lastCmd /\ ~plantOk /\ ~(spc = "write" /\ s.cmd # 0)
        /\ \/ lost /\ (word = "set" \/ stalled >= 1)
           \/ Over /\ (spc = "armed" \/ ~s.armed \/ (spc = "gen" /\ agen > seen))
    BY <1>2, <2>1, <2>2 DEF LastWord
  <2>4. ~Select /\ ~Hold /\ ~WriteAccepted /\ ~WriteRejected
    BY <2>3 DEF Select, Hold, WriteAccepted, WriteRejected, Selects
  <2>5. CASE \/ Arm \/ RequestDisarm \/ Drop \/ Clear \/ LostBegin \/ LostSet \/ Send
             \/ (\E n \in 1..MaxSeq : Admit(n)) \/ (\E q \in net : Receive(q))
    <3>1. UNCHANGED <<spc, s, seen, plantOk, lastCmd>>
      BY <2>5 DEF Arm, RequestDisarm, Drop, Clear, LostBegin, LostSet, Send, Admit, Receive,
                  servoVars, serverVars
    <3>2. CASE lost /\ (word = "set" \/ stalled >= 1)
      <4>1. lost' /\ (word' = "set" \/ stalled' >= 1)
        BY <1>0, <2>5, <3>2 DEF Arm, RequestDisarm, Drop, Clear, LostBegin, LostSet, Send, Admit,
                    Receive, serverVars, Authority
      <4> QED
        BY <2>3, <3>1, <4>1
    <3>3. CASE Over /\ (spc = "armed" \/ ~s.armed \/ (spc = "gen" /\ agen > seen))
      <4>1. Over' /\ (agen > seen => agen' > seen')
        BY <1>0, <2>5, <3>1, <3>3 DEF Arm, RequestDisarm, Drop, Clear, LostBegin, LostSet, Send,
                    Admit, Receive, serverVars, Over
      <4> QED
        BY <2>3, <3>1, <3>3, <4>1
    <3> QED
      BY <2>3, <3>2, <3>3
  <2>6. CASE SampleArmed
    <3>1. s'.armed = armed /\ s'.cmd = s.cmd
      BY <2>6 DEF SampleArmed, TypeOK
    <3> QED
      BY <2>3, <2>6, <3>1 DEF SampleArmed, Over
  <2>7. CASE SampleGen
    <3>1. s'.armed = s.armed /\ agen = seen
      BY <2>2, <2>7 DEF SampleGen, TypeOK
    <3>2. ~plantOk' /\ spc' # "write"
      BY <2>3, <2>7, <3>1 DEF SampleGen
    <3>3. UNCHANGED <<lost, word, stalled, lastCmd, agen, armed>> /\ spc = "gen"
      BY <2>7 DEF SampleGen
    <3>4. ~(agen > seen)
      BY <1>0, <3>1
    <3> QED
      BY <2>2, <2>3, <3>1, <3>2, <3>3, <3>4 DEF Over
  <2>8. CASE Suppress
    BY <2>3, <2>8 DEF Suppress, Over, Selects
  <2>9. CASE Publish
    BY <1>0, <2>3, <2>9 DEF Publish, Over, Authority
  <2> QED
    BY <2>4, <2>5, <2>6, <2>7, <2>8, <2>9 DEF Next
<1> QED
  BY <1>1, <1>2

\* Nothing of its generation that is armed and without a fault comes after it.
LEMMA UnfollowedStep ==
  ASSUME MaxStall <= 1, TypeOK, Authority, Selects, Numbered, LastWord, Unfollowed, Next
  PROVE  Unfollowed'
<1> SUFFICES ASSUME NEW p \in net', NEW q \in net', Misleading(p)', q.epoch = p.epoch, q.armed,
                    Newer(q.seq, p.seq)
             PROVE  q.faulted
  BY DEF Unfollowed
<1>0. stalled \in Nat /\ MaxStall \in Nat /\ Cardinality(net) \in Nat /\ MaxTicks \in Nat
  BY StateStreamAssumption, FS_CardinalityType DEF TypeOK, Numbered
<1>1. CASE p \in net /\ q \in net
  BY <1>1, MisleadingBefore DEF Unfollowed
<1>2. ASSUME ~(p \in net /\ q \in net)
      PROVE  /\ Publish /\ net' = net \cup {Sent}
  <2>1. Publish
    BY <1>2, Grows
  <2> QED
    BY <2>1 DEF Publish, Sent, Serial
<1>3. CASE p \in net /\ q \notin net
  <2>1. q = Sent
    BY <1>2, <1>3
  <2>2. q.epoch = seen /\ q.armed = s.armed /\ (q.faulted <=> word = "set")
    BY <2>1 DEF Sent
  <2>3. Misleading(p)
    BY <1>3, MisleadingBefore
  <2>4. \/ lost /\ (word = "set" \/ stalled >= 1)
        \/ Over /\ (spc = "armed" \/ ~s.armed \/ (spc = "gen" /\ agen > seen))
    BY <1>3, <2>2, <2>3 DEF LastWord
  <2>5. spc = "publish" /\ (word = "writing" => stalled < MaxStall) /\ s.armed
    BY <1>2, <1>3, <2>2 DEF Publish
  <2>6. ~(stalled >= 1)
    BY <1>0, <2>5 DEF Authority
  <2> QED
    BY <2>2, <2>4, <2>5, <2>6
<1>4. CASE p \notin net
  <2>1. p = Sent
    BY <1>2, <1>4
  <2>2. p.seq = Serial(Cardinality(net)) /\ Cardinality(net) \in 0..MaxTicks
    BY <1>0, <2>1 DEF Sent, Numbered
  <2>3. CASE q \in net
    BY <2>2, <2>3, EarlierNotNewer DEF Numbered
  <2>4. CASE q \notin net
    <3>1. q.seq = p.seq /\ p.seq \in Int
      <4>1. q = Sent
        BY <1>2, <2>4
      <4>2. FirstSeq \in Int /\ SeqMod \in Nat \ {0}
        BY StateStreamAssumption, SeqModAssumption
      <4> QED
        BY <1>0, <2>1, <2>2, <4>1, <4>2 DEF Serial
    <3> QED
      BY <3>1, NotNewerThanSelf
  <2> QED
    BY <2>3, <2>4
<1> QED
  BY <1>1, <1>3, <1>4

\* The tracker confirms what was accepted, and a fault closes it.
LEMMA TrackerStep ==
  ASSUME TypeOK, Authority, Numbered, Unfollowed, Candidate, Evident, FaultClosed, Next
  PROVE  Candidate' /\ Evident' /\ FaultClosed'
<1>0. /\ \A n \in 1..MaxSeq : sentIn[n] # None => sentIn'[n] = sentIn[n]
      /\ accepted \subseteq accepted' /\ net \subseteq net'
      /\ trk \in Tracker /\ net \subseteq Packet
      /\ None \notin 0..MaxSeq /\ None \notin 0..(SeqMod - 1)
  BY Grows DEF TypeOK, None
<1>1. trk.confirmed \in {None} \cup (0..MaxSeq)
  BY <1>0 DEF Tracker
<1>2. CASE trk' = trk
  BY <1>0, <1>1, <1>2 DEF Candidate, Evident, FaultClosed
<1>3. CASE RequestDisarm
  <2>1. /\ trk'.candidate = None /\ trk'.confirmed = trk.confirmed /\ trk'.closed
        /\ trk'.epoch = trk.epoch
    BY <1>0, <1>3 DEF RequestDisarm, DisarmSent, Tracker
  <2> QED
    BY <1>0, <1>1, <2>1 DEF Candidate, Evident, FaultClosed
<1>4. CASE \E p \in net : Receive(p)
  <2>1. PICK p \in net : Receive(p)
    BY <1>4
  <2>2. p \in Packet /\ trk' = Feed(trk, p) /\ UNCHANGED <<sentIn, accepted, net>>
    BY <1>0, <2>1 DEF Receive, serverVars
  <2>3. PICK e \in Tracker :
           /\ e = trk \/ (e = [NewTracker EXCEPT !.epoch = p.epoch] /\ e.epoch # trk.epoch)
           /\ \/ Feed(trk, p) = e
              \/ /\ p.epoch = e.epoch
                 /\ e.last = None \/ Newer(p.seq, e.last)
                 /\ Feed(trk, p) = Judge(e, p)
    BY <1>0, <2>2, FeedCases
  <2>4. /\ e.candidate # None => \E q \in net : /\ q.armed /\ ~q.faulted /\ q.epoch = e.epoch
                                               /\ q.last = e.candidate /\ q.seq = e.last
        /\ e.confirmed \notin {None, 0} =>
              /\ sentIn[e.confirmed] # None
              /\ sentIn[e.confirmed] = e.epoch => e.confirmed \in accepted
        /\ (e.faulted => e.closed) /\ (e.closed => e.candidate = None)
    <3>1. CASE e = trk
      BY <3>1 DEF Candidate, Evident, FaultClosed
    <3>2. CASE e = [NewTracker EXCEPT !.epoch = p.epoch]
      <4>1. e.candidate = None /\ e.confirmed = None /\ e.faulted = FALSE /\ e.closed = FALSE
        BY <3>2 DEF NewTracker
      <4> QED
        BY <4>1
    <3> QED
      BY <2>3, <3>1, <3>2
  <2>5. CASE trk' = e
    BY <2>2, <2>4, <2>5 DEF Candidate, Evident, FaultClosed
  <2>6. CASE /\ p.epoch = e.epoch
             /\ e.last = None \/ Newer(p.seq, e.last)
             /\ trk' = Judge(e, p)
    <3>1. /\ trk'.epoch = e.epoch /\ trk'.last = p.seq
          /\ trk'.faulted = (e.faulted \/ p.faulted)
          /\ trk'.closed = (e.closed \/ ~p.armed \/ p.faulted)
          /\ trk'.confirmed = IF trk'.closed \/ e.candidate = None THEN e.confirmed
                              ELSE e.candidate
          /\ trk'.candidate = IF e.closed THEN e.candidate
                              ELSE IF trk'.closed THEN None ELSE p.last
      BY <2>2, <2>6, JudgeCases
    <3>2. Candidate' /\ FaultClosed'
      BY <2>2, <2>4, <2>6, <3>1 DEF Candidate, FaultClosed
    <3>3. CASE trk'.closed \/ e.candidate = None
      <4>1. Evident'
        BY <2>2, <2>4, <3>1, <3>3 DEF Evident
      <4> QED
        BY <3>2, <4>1
    <3>4. CASE ~trk'.closed /\ e.candidate # None
      <4>1. PICK q \in net : /\ q.armed /\ ~q.faulted /\ q.epoch = e.epoch
                             /\ q.last = e.candidate /\ q.seq = e.last
        BY <2>4, <3>4
      <4>2. q.seq # None /\ q.last # None
        BY <1>0, <4>1 DEF Packet
      <4>3. ~Misleading(q)
        BY <2>6, <3>1, <3>4, <4>1, <4>2 DEF Unfollowed
      <4>4. q.last # 0 => sentIn[q.last] # None
        BY DEF Numbered
      <4>5. Evident'
        BY <2>2, <3>1, <3>4, <4>1, <4>3, <4>4 DEF Evident, Misleading
      <4> QED
        BY <3>2, <4>5
    <3> QED
      BY <3>3, <3>4
  <2> QED
    BY <2>2, <2>3, <2>5, <2>6
<1> QED
  BY <1>2, <1>3, <1>4, Grows

-----------------------------------------------------------------------------
(* The theorems.                                                           *)

(* Everything the argument rests on holds of every state of the stream, as *)
(* long as a thread inside latch() misses at most one tick: the word may   *)
(* be held unwritten while one packet goes out, not while two do.          *)
THEOREM StreamSafe == ASSUME MaxStall <= 1 PROVE Spec => []StreamInv
<1>1. StreamInv /\ [Next]_vars => StreamInv'
  <2> SUFFICES ASSUME StreamInv, [Next]_vars PROVE StreamInv'
    OBVIOUS
  <2>1. CASE UNCHANGED vars
    BY <2>1 DEF vars, StreamInv, TypeOK, Authority, Selects, Latches, Refused, Over, Numbered,
                LastWord, Unfollowed, Misleading, Candidate, Evident, FaultClosed
  <2>2. CASE Next
    <3>1. TypeOK' /\ Authority' /\ Selects' /\ Latches' /\ Numbered'
      BY <2>2, StreamTyped, AuthorityStep, SelectsStep, LatchesStep, NumberedStep DEF StreamInv
    <3>2. LastWord' /\ Unfollowed'
      BY <2>2, LastWordStep, UnfollowedStep DEF StreamInv
    <3>3. Candidate' /\ Evident' /\ FaultClosed'
      BY <2>2, TrackerStep DEF StreamInv
    <3> QED
      BY <3>1, <3>2, <3>3 DEF StreamInv
  <2> QED
    BY <2>1, <2>2
<1> QED
  BY <1>1, StreamStart, PTL DEF Spec

(* APPLIED is evidence for any number of generations, commands and         *)
(* packets, lost, repeated and reordered in any way: a command that the    *)
(* tracker confirms was accepted by the plant.                             *)
THEOREM StreamApplied == ASSUME MaxStall <= 1 PROVE Spec => []AppliedMeansAccepted
<1>1. StreamInv => AppliedMeansAccepted
  BY DEF StreamInv, Evident, AppliedMeansAccepted, Confirmed, None
<1> QED
  BY <1>1, StreamSafe, PTL

\* What a step does to the tracker, and what it says of a fault it has seen.
LEMMA FaultStep ==
  ASSUME TypeOK, Authority, FaultClosed, Next
  PROVE  /\ FaultClosed'
         /\ trk.faulted /\ trk'.epoch = trk.epoch
              => trk'.faulted /\ trk'.confirmed = trk.confirmed
<1>0. trk \in Tracker /\ net \subseteq Packet
  BY DEF TypeOK
<1>1. CASE trk' = trk
  BY <1>1 DEF FaultClosed
<1>2. CASE RequestDisarm
  <2>1. /\ trk'.candidate = None /\ trk'.confirmed = trk.confirmed /\ trk'.closed = TRUE
        /\ trk'.faulted = trk.faulted
    BY <1>0, <1>2 DEF RequestDisarm, DisarmSent, Tracker
  <2> QED
    BY <2>1 DEF FaultClosed
<1>3. CASE \E p \in net : Receive(p)
  <2>1. PICK p \in net : Receive(p)
    BY <1>3
  <2>2. p \in Packet /\ trk' = Feed(trk, p)
    BY <1>0, <2>1 DEF Receive
  <2>3. PICK e \in Tracker :
           /\ e = trk \/ (e = [NewTracker EXCEPT !.epoch = p.epoch] /\ e.epoch # trk.epoch)
           /\ \/ Feed(trk, p) = e
              \/ /\ p.epoch = e.epoch
                 /\ e.last = None \/ Newer(p.seq, e.last)
                 /\ Feed(trk, p) = Judge(e, p)
    BY <1>0, <2>2, FeedCases
  <2>4. (e.faulted => e.closed) /\ (e.closed => e.candidate = None)
    <3>1. CASE e = trk
      BY <3>1 DEF FaultClosed
    <3>2. CASE e = [NewTracker EXCEPT !.epoch = p.epoch]
      BY <3>2 DEF NewTracker
    <3> QED
      BY <2>3, <3>1, <3>2
  <2>5. CASE trk' = e
    BY <2>3, <2>4, <2>5 DEF FaultClosed
  <2>6. CASE trk' = Judge(e, p)
    <3>1. /\ trk'.epoch = e.epoch
          /\ trk'.faulted = (e.faulted \/ p.faulted)
          /\ trk'.closed = (e.closed \/ ~p.armed \/ p.faulted)
          /\ trk'.confirmed = IF trk'.closed \/ e.candidate = None THEN e.confirmed
                              ELSE e.candidate
          /\ trk'.candidate = IF e.closed THEN e.candidate
                              ELSE IF trk'.closed THEN None ELSE p.last
      BY <2>2, <2>6, JudgeCases
    <3>2. FaultClosed'
      BY <2>4, <3>1 DEF FaultClosed
    <3>3. trk'.epoch = trk.epoch => e = trk
      BY <2>3, <3>1
    <3> QED
      BY <2>4, <3>1, <3>2, <3>3
  <2> QED
    BY <2>2, <2>3, <2>5, <2>6
<1> QED
  BY <1>1, <1>2, <1>3, Grows

(* A fault that the tracker has seen ends its generation for the tracker,  *)
(* whatever still arrives, and however long a thread stalls.               *)
THEOREM StreamFaultCloses == Spec => FaultCloses
<1> DEFINE Closing == TypeOK /\ Authority /\ Selects /\ Numbered /\ FaultClosed
           Kept == trk.faulted /\ trk'.epoch = trk.epoch
                     => trk'.faulted /\ trk'.confirmed = trk.confirmed
<1>1. Init => Closing
  BY StreamStart DEF StreamInv
<1>2. Closing /\ [Next]_vars => Closing'
  <2> SUFFICES ASSUME Closing, [Next]_vars PROVE Closing'
    OBVIOUS
  <2>1. CASE UNCHANGED vars
    BY <2>1 DEF vars, TypeOK, Authority, Selects, Numbered, FaultClosed
  <2>2. CASE Next
    BY <2>2, StreamTyped, AuthorityStep, SelectsStep, NumberedStep, FaultStep
  <2> QED
    BY <2>1, <2>2
<1>3. Closing /\ [Next]_vars => [Kept]_trk
  <2> SUFFICES ASSUME Closing, [Next]_vars PROVE Kept \/ trk' = trk
    OBVIOUS
  <2>1. CASE UNCHANGED vars
    BY <2>1 DEF vars
  <2>2. CASE Next
    BY <2>2, FaultStep
  <2> QED
    BY <2>1, <2>2
<1> QED
  BY <1>1, <1>2, <1>3, PTL DEF Spec, FaultCloses

-----------------------------------------------------------------------------
(* The group record's slot for any number of writes, kills and read tries: *)
(* a copy that is returned is whole, and a slot never stays shut.          *)

Cell == [state : States, body : Nat]
Op == [to : States, from : SUBSET States]
Writer == [pc : {"idle", "load", "cas"} \cup Inside, q : Nat, op : Op, tag : Nat]
Reader == [pc : {"idle", "load", "state", "body", "again"}, tries : Nat, q : Nat,
           state : States, body : Nat, ok : BOOLEAN]

Types ==
  /\ seq \in Nat /\ cell \in Cell /\ held \in Cell
  /\ w \in [Writers -> Writer] /\ rd \in Reader
  /\ up \in {"up", "down", "starting"}
  /\ count \in [writes : Nat, kills : Nat]

(* The sequence is a lock: odd while its one owner is inside, and a thread *)
(* about to swap has loaded an even one.  A killed server owns nothing.    *)
Entered(x) == w[x].pc \in Inside
Locked ==
  /\ \A x \in Writers : Entered(x) => Odd(seq) /\ seq = w[x].q + 1
  /\ \A x, y \in Writers : Entered(x) /\ Entered(y) => x = y
  /\ \A x \in Writers : w[x].pc = "cas" => ~Odd(w[x].q)
  /\ up = "down" => \A x \in Writers : w[x].pc = "idle"
  /\ up # "down" /\ Odd(seq) => \E x \in Writers : Entered(x)

(* Nobody has changed the fields since the slot was last left, unless an   *)
(* owner is past its check, or was killed there.                           *)
Left ==
  /\ ~Odd(seq) => cell = held
  /\ \A x \in Writers : w[x].pc \in {"check", "state"} => cell = held

(* As long as the reader's sequence is still the slot's, what it has       *)
(* copied is what the slot was left with.                                  *)
Copying ==
  /\ rd.ok => rd.pc = "idle"
  /\ rd.pc \in {"state", "body", "again"} => rd.q <= seq /\ ~Odd(rd.q)
  /\ rd.pc \in {"state", "body", "again"} /\ seq = rd.q =>
       /\ held \in window
       /\ rd.pc \in {"body", "again"} => rd.state = cell.state
       /\ rd.pc = "again" => rd.body = cell.body

RecordInv == Types /\ Locked /\ Left /\ Copying /\ ReadWhole

\* Odd and even numbers alternate.
LEMMA Parity == \A n \in Nat : (Odd(n + 1) <=> ~Odd(n)) /\ (Odd(n + 2) <=> Odd(n))
  BY DEF Odd

\* Every write is one that the slot knows of.
LEMMA OpsTyped ==
  /\ Emptying \in Op
  /\ \A x \in Writers : Writes(x) \subseteq Op
<1>1. Emptying \in Op
  BY DEF Emptying, Op, States
<1>2. ControlWrites \subseteq Op
  BY DEF ControlWrites, Op, States, LiveStates
<1>3. TickWrites \subseteq Op
  BY DEF TickWrites, Op, States, LiveStates
<1> QED
  BY <1>1, <1>2, <1>3 DEF Writes

\* A slot that nobody has written yet.
LEMMA RecordStart == RecordInit => RecordInv
<1> SUFFICES ASSUME RecordInit PROVE RecordInv
  OBVIOUS
<1>1. Types
  <2>1. w \in [Writers -> Writer]
    BY OpsTyped, Zenon DEF RecordInit, Idle, Writer, Inside
  <2>2. rd \in Reader /\ cell \in Cell /\ held \in Cell
    BY DEF RecordInit, NoRead, Reader, Cell, States
  <2> QED
    BY <2>1, <2>2 DEF RecordInit, Types
<1>2. \A x \in Writers : w[x].pc = "idle"
  BY DEF RecordInit, Idle
<1>3. ~Odd(seq) /\ rd.pc = "idle" /\ rd.ok = FALSE /\ cell = held /\ up = "up"
  BY DEF RecordInit, Odd, NoRead
<1> QED
  BY <1>1, <1>2, <1>3 DEF RecordInv, Locked, Left, Copying, ReadWhole, Entered, Inside

\* What the steps of a writer change of the other one's and of its own record.
LEMMA OneWriter ==
  ASSUME Types, NEW x \in Writers, NEW p \in {"idle", "load", "cas"} \cup Inside,
         w' = [w EXCEPT ![x].pc = p]
  PROVE  /\ w' \in [Writers -> Writer]
         /\ w'[x].pc = p /\ w'[x].q = w[x].q
         /\ \A y \in Writers \ {x} : w'[y] = w[y]
  BY DEF Types, Writer

\* The reader goes around again, or home with nothing.
LEMMA AgainReads ==
  ASSUME Types, ReadAgain
  PROVE  rd' \in Reader /\ rd'.pc \in {"idle", "load"} /\ rd'.ok = FALSE
<1>1. NoRead \in Reader /\ NoRead.pc = "idle" /\ NoRead.ok = FALSE
  BY DEF NoRead, Reader, States
<1>2. rd.tries + 1 \in Nat
  BY DEF Types, Reader
<1>3. CASE rd' = NoRead
  BY <1>1, <1>3
<1>4. CASE rd' = [NoRead EXCEPT !.tries = rd.tries + 1, !.pc = "load"]
  BY <1>1, <1>2, <1>4 DEF Reader
<1> QED
  BY <1>3, <1>4 DEF ReadAgain

\* A thread comes to its write, or finds the slot taken, or loads the sequence:
\* the slot itself is not touched.
LEMMA OutsideStep ==
  ASSUME RecordInv, NEW x \in Writers,
         UNCHANGED <<seq, cell, rd, up, held, window>>, up # "down",
         count' \in [writes : Nat, kills : Nat], w' \in [Writers -> Writer],
         ~Entered(x), w'[x].pc \in {"idle", "load", "cas"},
         w'[x].pc = "cas" => ~Odd(w'[x].q),
         \A y \in Writers \ {x} : w'[y] = w[y]
  PROVE  RecordInv'
<1>1. Types' /\ ReadWhole' /\ Copying'
  BY DEF RecordInv, Types, ReadWhole, Copying
<1>2. Locked'
  BY DEF RecordInv, Types, Locked, Entered, Inside, Odd
<1>3. Left'
  BY DEF RecordInv, Left, Odd
<1> QED
  BY <1>1, <1>2, <1>3 DEF RecordInv

\* The sequence moves on, and with it every reader's copy is void.
LEMMA NewSequence ==
  ASSUME RecordInv, seq' \in Nat, seq' > seq, UNCHANGED rd,
         window' = window \/ window' = Seen(cell)
  PROVE  Copying' /\ ReadWhole'
<1>1. Copying'
  BY DEF RecordInv, Types, Copying, Reader, Odd
<1>2. ReadWhole'
  BY DEF RecordInv, Copying, ReadWhole, Seen
<1> QED
  BY <1>1, <1>2

\* A write, one step at a time.
LEMMA WriteStep ==
  ASSUME RecordInv, NEW x \in Writers, Write(x)
  PROVE  RecordInv'
<1>0. /\ Types /\ Locked /\ Left /\ Copying /\ ReadWhole
      /\ seq \in Nat /\ w[x].q \in Nat /\ w[x] \in Writer /\ w[x].tag \in Nat
      /\ w[x].op \in Op
  BY DEF RecordInv, Types, Writer
<1>u. w[x].pc # "idle" => up # "down"
  BY <1>0 DEF Locked
<1>1. CASE \E op \in Writes(x) : Begin(x, op)
  <2> PICK op \in Writes(x) : Begin(x, op)
    BY <1>1
  <2>1. /\ w' = [w EXCEPT ![x] = [pc |-> "load", q |-> 0, op |-> op,
                                  tag |-> count.writes + 1]]
        /\ count' \in [writes : Nat, kills : Nat] /\ count.writes + 1 \in Nat
        /\ op \in Op /\ ~Entered(x)
    BY <1>0, OpsTyped DEF Begin, Types, Entered, Inside
  <2>2. w' \in [Writers -> Writer] /\ w'[x].pc = "load"
        /\ \A y \in Writers \ {x} : w'[y] = w[y]
    BY <1>0, <2>1 DEF Types, Writer
  <2> QED
    BY <2>1, <2>2, OutsideStep DEF Begin
<1>c. ASSUME Contended(x), w[x].pc \in {"load", "cas"},
             UNCHANGED <<seq, cell, rd, up, count, held, window>>
      PROVE  RecordInv'
  <2>1. PICK p \in {"load", "idle"} : w' = [w EXCEPT ![x].pc = p]
    BY <1>c DEF Contended
  <2>2. w' \in [Writers -> Writer] /\ w'[x].pc = p /\ \A y \in Writers \ {x} : w'[y] = w[y]
    BY <1>0, <2>1, OneWriter
  <2>3. count' \in [writes : Nat, kills : Nat] /\ ~Entered(x) /\ up # "down"
    BY <1>0, <1>c, <1>u DEF Types, Entered, Inside
  <2> QED
    BY <1>c, <2>2, <2>3, OutsideStep
<1>2. CASE Load(x)
  <2>1. CASE Odd(seq)
    BY <1>2, <1>c, <2>1 DEF Load
  <2>2. CASE ~Odd(seq)
    <3>1. w' \in [Writers -> Writer] /\ w'[x].pc = "cas" /\ w'[x].q = seq
          /\ \A y \in Writers \ {x} : w'[y] = w[y]
      BY <1>0, <1>2, <2>2 DEF Load, Types, Writer
    <3>2. count' \in [writes : Nat, kills : Nat] /\ ~Entered(x) /\ up # "down"
      BY <1>0, <1>2, <1>u DEF Load, Types, Entered, Inside
    <3> QED
      BY <1>2, <2>2, <3>1, <3>2, OutsideStep DEF Load
  <2> QED
    BY <2>1, <2>2
<1>3. CASE Cas(x)
  <2>1. CASE seq # w[x].q
    BY <1>3, <1>c, <2>1 DEF Cas
  <2>2. CASE seq = w[x].q
    <3>1. w' \in [Writers -> Writer] /\ w'[x].pc = "check" /\ w'[x].q = w[x].q
          /\ \A y \in Writers \ {x} : w'[y] = w[y]
      BY <1>0, <1>3, <2>2, OneWriter DEF Cas, Inside
    <3>2. seq' = seq + 1 /\ UNCHANGED <<cell, rd, up, count, held, window>>
          /\ ~Odd(seq) /\ up # "down"
      BY <1>0, <1>3, <1>u, <2>2 DEF Cas, Locked
    <3>3. Odd(seq') /\ \A y \in Writers : ~Entered(y)
      BY <1>0, <3>2, Parity DEF Locked
    <3>4. Types'
      BY <1>0, <3>1, <3>2 DEF Types
    <3>5. Locked'
      BY <1>0, <2>2, <3>1, <3>2, <3>3 DEF Locked, Entered, Inside
    <3>6. Left'
      BY <1>0, <3>1, <3>2, <3>3 DEF Left, Entered, Inside
    <3>7. Copying' /\ ReadWhole'
      BY <1>0, <3>2, NewSequence
    <3> QED
      BY <3>4, <3>5, <3>6, <3>7 DEF RecordInv
  <2> QED
    BY <2>1, <2>2
<1>e. Entered(x) => seq = w[x].q + 1 /\ Odd(seq) /\ up # "down"
                    /\ \A y \in Writers \ {x} : ~Entered(y)
  BY <1>0, <1>u DEF Locked, Entered, Inside
<1>g. ASSUME Entered(x), NEW p \in Inside, w' = [w EXCEPT ![x].pc = p],
             p \in {"check", "state"} => cell' = held,
             UNCHANGED <<seq, rd, up, count, held, window>>, cell' \in Cell
      PROVE  RecordInv'
  <2>1. w' \in [Writers -> Writer] /\ w'[x].pc = p /\ w'[x].q = w[x].q
        /\ \A y \in Writers \ {x} : w'[y] = w[y]
    BY <1>0, <1>g, OneWriter
  <2>2. Types'
    BY <1>0, <1>g, <2>1 DEF Types
  <2>3. Locked'
    BY <1>0, <1>g, <1>e, <2>1 DEF Locked, Entered, Inside
  <2>4. Left'
    BY <1>0, <1>g, <1>e, <2>1 DEF Left, Entered, Inside, Odd
  <2>5. Copying' /\ ReadWhole'
    BY <1>0, <1>g, <1>e DEF Copying, ReadWhole
  <2> QED
    BY <2>2, <2>3, <2>4, <2>5 DEF RecordInv
<1>l. ASSUME Entered(x), w' = [w EXCEPT ![x].pc = "idle"], seq' = w[x].q + 2,
             UNCHANGED <<cell, rd, count>>, held' = cell, up' \in {up, "up"},
             window' = window \/ window' = Seen(cell)
      PROVE  RecordInv'
  <2>1. w' \in [Writers -> Writer] /\ w'[x].pc = "idle"
        /\ \A y \in Writers \ {x} : w'[y] = w[y]
    BY <1>0, <1>l, OneWriter
  <2>2. seq' = seq + 1 /\ ~Odd(seq') /\ seq' \in Nat /\ seq' > seq
    BY <1>0, <1>e, <1>l, Parity
  <2>3. Types'
    BY <1>0, <1>l, <2>1, <2>2 DEF Types
  <2>4. Locked'
    BY <1>0, <1>e, <1>l, <2>1, <2>2 DEF Locked, Entered, Inside
  <2>5. Left'
    BY <1>0, <1>e, <1>l, <2>1, <2>2 DEF Left, Entered, Inside
  <2>6. Copying' /\ ReadWhole'
    BY <1>0, <1>l, <2>2, NewSequence
  <2> QED
    BY <2>3, <2>4, <2>5, <2>6 DEF RecordInv
<1>4. CASE Check(x)
  <2>1. Entered(x) /\ cell = held /\ cell \in Cell
    BY <1>0, <1>4 DEF Check, Entered, Inside, Left, Types
  <2>2. CASE cell.state \in w[x].op.from
    BY <1>4, <1>g, <2>1, <2>2 DEF Check, Inside
  <2>3. CASE cell.state \notin w[x].op.from
    BY <1>4, <1>l, <2>1, <2>3 DEF Check
  <2> QED
    BY <2>2, <2>3
<1>5. CASE PutState(x)
  <2>1. cell' \in Cell
    BY <1>0, <1>5 DEF PutState, Types, Cell, Op
  <2> QED
    BY <1>5, <1>g, <2>1 DEF PutState, Entered, Inside
<1>6. CASE PutBody(x)
  <2>1. cell' \in Cell
    BY <1>0, <1>6 DEF PutBody, Types, Cell
  <2> QED
    BY <1>6, <1>g, <2>1 DEF PutBody, Entered, Inside
<1>7. CASE Leave(x)
  BY <1>7, <1>l DEF Leave, Entered, Inside
<1> QED
  BY <1>1, <1>2, <1>3, <1>4, <1>5, <1>6, <1>7 DEF Write

\* A read, one step at a time.
LEMMA ReadStep ==
  ASSUME RecordInv, Read
  PROVE  RecordInv'
<1>0. /\ Types /\ Locked /\ Left /\ Copying /\ ReadWhole
      /\ seq \in Nat /\ rd \in Reader /\ cell \in Cell
  BY DEF RecordInv, Types
<1>1. UNCHANGED <<seq, cell, w, up, count, held>>
  BY DEF Read, ReadBegin, ReadLoad, ReadState, ReadBody, ReadCheck
<1>2. rd' \in Reader => Types' /\ Locked' /\ Left'
  BY <1>0, <1>1 DEF Types, Locked, Left, Entered, Odd
<1>a. ASSUME ReadAgain PROVE rd' \in Reader /\ Copying' /\ ReadWhole'
  BY <1>0, <1>a, AgainReads DEF Copying, ReadWhole
<1>3. CASE ReadBegin
  <2>1. rd' \in Reader /\ rd'.pc = "load" /\ rd'.ok = FALSE
    BY <1>3 DEF ReadBegin, NoRead, Reader, States
  <2> QED
    BY <1>2, <2>1 DEF Copying, ReadWhole, RecordInv
<1>4. CASE ReadLoad
  <2>1. CASE Odd(seq)
    BY <1>2, <1>4, <1>a, <2>1 DEF ReadLoad, RecordInv
  <2>2. CASE ~Odd(seq)
    <3>1. rd' \in Reader /\ rd'.pc = "state" /\ rd'.q = seq /\ rd'.ok = FALSE
      BY <1>0, <1>4, <2>2 DEF ReadLoad, Reader, Copying
    <3> QED
      BY <1>0, <1>1, <1>2, <1>4, <2>2, <3>1
      DEF ReadLoad, Copying, ReadWhole, RecordInv, Odd
  <2> QED
    BY <2>1, <2>2
<1>5. CASE ReadState
  <2>1. rd' \in Reader /\ rd'.pc = "body" /\ rd'.q = rd.q /\ rd'.ok = FALSE
        /\ rd'.state = cell.state /\ window' = window
    BY <1>0, <1>5 DEF ReadState, Reader, Copying, Cell
  <2> QED
    BY <1>0, <1>1, <1>2, <1>5, <2>1 DEF ReadState, Copying, ReadWhole, RecordInv
<1>6. CASE ReadBody
  <2>1. rd' \in Reader /\ rd'.pc = "again" /\ rd'.q = rd.q /\ rd'.ok = FALSE
        /\ rd'.state = rd.state /\ rd'.body = cell.body /\ window' = window
    BY <1>0, <1>6 DEF ReadBody, Reader, Copying, Cell
  <2> QED
    BY <1>0, <1>1, <1>2, <1>6, <2>1 DEF ReadBody, Copying, ReadWhole, RecordInv
<1>7. CASE ReadCheck
  <2>1. CASE seq # rd.q
    BY <1>2, <1>7, <1>a, <2>1 DEF ReadCheck, RecordInv
  <2>2. CASE seq = rd.q
    <3>1. rd' \in Reader /\ rd'.pc = "idle"
          /\ rd'.state = rd.state /\ rd'.body = rd.body /\ window' = window
      BY <1>0, <1>7, <2>2 DEF ReadCheck, Reader
    <3>2. cell = held /\ held \in window /\ rd.state = cell.state /\ rd.body = cell.body
      BY <1>0, <1>7, <2>2 DEF ReadCheck, Copying, Left
    <3>3. [state |-> rd'.state, body |-> rd'.body] = cell
      BY <1>0, <3>1, <3>2 DEF Cell
    <3> QED
      BY <1>2, <3>1, <3>2, <3>3 DEF Copying, ReadWhole, RecordInv
  <2> QED
    BY <2>1, <2>2
<1> QED
  BY <1>3, <1>4, <1>5, <1>6, <1>7 DEF Read

\* The server killed wherever it was, and its successor's reset.
LEMMA LifeStep ==
  ASSUME RecordInv, Kill \/ ResetSlot
  PROVE  RecordInv'
<1>0. /\ Types /\ Locked /\ Left /\ Copying /\ ReadWhole
      /\ seq \in Nat /\ w \in [Writers -> Writer] /\ cell \in Cell
  BY DEF RecordInv, Types
<1>1. CASE Kill
  <2>1. w' \in [Writers -> Writer] /\ \A x \in Writers : w'[x].pc = "idle"
    BY <1>1, OpsTyped, Zenon DEF Kill, Idle, Writer, Inside
  <2>2. count' \in [writes : Nat, kills : Nat]
    BY <1>0, <1>1 DEF Kill, Types
  <2>3. Types'
    BY <1>0, <1>1, <2>1, <2>2 DEF Kill, Types
  <2>4. Locked' /\ Left'
    BY <1>0, <1>1, <2>1 DEF Kill, Locked, Left, Entered, Inside, Odd
  <2>5. Copying' /\ ReadWhole'
    BY <1>0, <1>1 DEF Kill, Copying, ReadWhole
  <2> QED
    BY <2>3, <2>4, <2>5 DEF RecordInv
<1>2. CASE ResetSlot
  <2>1. seq' \in Nat /\ seq' > seq /\ ~Odd(seq')
    BY <1>0, <1>2, Parity DEF ResetSlot, Cleared
  <2>2. "control" \in Writers /\ w' \in [Writers -> Writer]
        /\ \A x \in Writers : w'[x].pc \in {"idle", "load"}
    BY <1>0, <1>2, OpsTyped DEF ResetSlot, Writers, Writer, Locked
  <2>3. Types'
    BY <1>0, <1>2, <2>1, <2>2 DEF ResetSlot, Types
  <2>4. Locked' /\ Left'
    BY <1>0, <1>2, <2>1, <2>2 DEF ResetSlot, Locked, Left, Entered, Inside
  <2>5. Copying' /\ ReadWhole'
    BY <1>0, <1>2, <2>1, NewSequence DEF ResetSlot
  <2> QED
    BY <2>3, <2>4, <2>5 DEF RecordInv
<1> QED
  BY <1>1, <1>2

(* The sequence number of a slot works as the lock that try_write_slot     *)
(* takes it for, and no copy outlives it, over any writes, kills and resets. *)
THEOREM RecordSafe == RecordSpec => []RecordInv
<1>1. RecordInv /\ [RecordNext]_recordVars => RecordInv'
  <2> SUFFICES ASSUME RecordInv, [RecordNext]_recordVars PROVE RecordInv'
    OBVIOUS
  <2>1. CASE UNCHANGED recordVars
    BY <2>1 DEF recordVars, RecordInv, Types, Locked, Left, Copying, ReadWhole,
                Entered, Odd
  <2>2. CASE RecordNext
    BY <2>2, WriteStep, ReadStep, LifeStep DEF RecordNext
  <2> QED
    BY <2>1, <2>2
<1> QED
  BY <1>1, RecordStart, PTL DEF RecordSpec

(* A copy that read_slot returns is one the slot was left with while the   *)
(* read was going on, whatever the two threads of the server write         *)
(* meanwhile and wherever it is killed.                                    *)
THEOREM RecordReadWhole == RecordSpec => []ReadWhole
<1>1. RecordInv => ReadWhole
  BY DEF RecordInv
<1> QED
  BY <1>1, RecordSafe, PTL

(* With the server there, the sequence is odd only while exactly one of    *)
(* its threads is inside a write: no slot stays shut after a kill.         *)
THEOREM RecordSlotOpen == RecordSpec => []SlotOpen
<1>1. RecordInv => SlotOpen
  BY DEF RecordInv, Locked, SlotOpen, Entered, Writers
<1> QED
  BY <1>1, RecordSafe, PTL

-----------------------------------------------------------------------------
(* Native references, for any number of references, revisions, commits,    *)
(* cancels, mode selections, sessions and ARM generations: what a client   *)
(* has withdrawn is not followed past the tick under way.                  *)

Ref == [id : Nat, rev : Nat, sess : Nat, gen : Nat, cgen : Nat, ticket : Nat, grp : Nat]
Cand == [id : Nat, rev : Nat, sealed : BOOLEAN]
Mode == [mode : Modes \cup {"UNSELECTED"}, mgen : Nat, sess : Nat, gen : Nat, ticket : Nat]
Info == [id : Nat, rev : Nat, st : {"NONE", "RUNNING", "END", "OVER"}, sess : Nat, gen : Nat,
         grp : Nat]
AuthType == [armed : BOOLEAN, gen : Nat, fault : BOOLEAN, sess : Nat, last : Nat,
             opted : BOOLEAN]
CtlType == [at : {"poll", "top"}, cand : Cand, pend : Ref, waiting : BOOLEAN, mode : Mode]
SeamType == [pub : Nat, in : Ref, done : Nat, ok : BOOLEAN, cgen : Nat, cid : Nat,
             csess : Nat, cepoch : Nat, fb : Info, mpub : Nat, min : Mode, mdone : Nat,
             mgen : Nat]
TickType == [at : {"idle", "mode", "select", "report"}, armed : BOOLEAN, fault : BOOLEAN,
             gen : Nat, sess : Nat, pub : Nat, com : Ref, seen : Nat, cseen : Nat,
             mseen : Nat, high : Nat, mode : Mode, ref : Info]
ToldType == [ids : Nat, gone : SUBSET [gen : Nat, id : Nat]]
RefTypes ==
  /\ auth \in AuthType /\ ctl \in CtlType /\ seam \in SeamType /\ tick \in TickType
  /\ told \in ToldType

\* The highest of three ids is one of them.
LEMMA HighestOne ==
  ASSUME NEW a \in Nat, NEW b \in Nat, NEW c \in Nat
  PROVE  Highest({a, b, c}) \in Nat
<1>1. \E n \in {a, b, c} : \A m \in {a, b, c} : m <= n
  OBVIOUS
<1>2. Highest({a, b, c}) \in {a, b, c}
  BY <1>1 DEF Highest
<1> QED
  BY <1>2

\* What is empty has its type.
LEMMA EmptyTyped ==
  /\ NoRef \in Ref /\ NoCand \in Cand /\ NoMode \in Mode
  /\ \A x, g \in Nat : NoInfo(x, g) \in Info
  /\ NoRef.rev = 0 /\ NoCand.rev = 0 /\ NoRef.id = 0 /\ NoCand.id = 0 /\ NoRef.cgen = 0
  /\ \A x, g \in Nat : NoInfo(x, g).st = "NONE" /\ NoInfo(x, g).sess = x
                       /\ NoInfo(x, g).gen = g /\ NoInfo(x, g).id = 0
  BY DEF NoRef, NoCand, NoMode, NoInfo, Ref, Cand, Mode, Info

\* The first state.
LEMMA RefTypesStart == RefInit => RefTypes
<1> SUFFICES ASSUME RefInit PROVE RefTypes
  OBVIOUS
<1>1. auth \in AuthType
  BY DEF RefInit, Armed, AuthType
<1>2. ctl \in CtlType
  BY EmptyTyped DEF RefInit, FreshCtl, CtlType
<1>3. seam \in SeamType
  BY EmptyTyped DEF RefInit, FreshSeam, SeamType
<1>4. tick \in TickType
  <2>1. Native \in Mode
    BY EmptyTyped DEF Native, Mode, Modes
  <2> QED
    BY <2>1, EmptyTyped DEF RefInit, FreshTick, TickType
<1>5. told \in ToldType
  BY DEF RefInit, ToldType
<1> QED
  BY <1>1, <1>2, <1>3, <1>4, <1>5 DEF RefTypes

-----------------------------------------------------------------------------
(* The invariant.                                                          *)

Gone(g, i) == [gen |-> g, id |-> i] \in told.gone

(* Every id in use is one that a client has used, and every session and    *)
(* generation is one that has been.                                        *)
Known ==
  /\ auth.sess <= auth.last
  /\ tick.ref.sess <= auth.last /\ tick.ref.gen <= auth.gen
  /\ Active(tick.ref) => tick.ref.sess # 0
  /\ \A r \in {tick.ref, seam.fb} : Active(r) => r.rev # 0
  /\ \A i \in {ctl.cand.id, ctl.pend.id, seam.in.id, seam.fb.id, tick.com.id, tick.ref.id} :
       i <= told.ids
  /\ \A x \in told.gone : x.id <= told.ids

(* The cancel generation: the tick and the commits on their way are not    *)
(* ahead of it.                                                            *)
Behind == tick.cseen <= seam.cgen /\ \A c \in {seam.in, tick.com} : c.cgen <= seam.cgen

(* A new reference is not uploaded under an id that was withdrawn, and a   *)
(* commit of one that is withdrawn on its way is no longer fresh.          *)
NotReused ==
  /\ ctl.cand.rev = 1 => \A g \in Nat : ~Gone(g, ctl.cand.id)
  /\ \A c \in {seam.in, tick.com} : c.rev = 1 /\ Fresh(c) => ~Gone(c.gen, c.id)

(* At the selection the reference is one of the tick's session and epoch.  *)
Scoped == tick.at = "select" => tick.ref.sess = tick.sess /\ tick.ref.gen = tick.gen

(* A reference that is followed and was withdrawn is under a fence of its  *)
(* own session and epoch that the tick has still to read.                  *)
FenceAhead ==
  Active(tick.ref) /\ tick.ref.sess = auth.sess /\ tick.ref.gen = auth.gen
  /\ Gone(tick.ref.gen, tick.ref.id)
    => /\ tick.cseen # seam.cgen
       /\ seam.csess = auth.sess /\ seam.cepoch = auth.gen

RefInv == RefTypes /\ Known /\ Behind /\ NotReused /\ Scoped /\ FenceAhead

\* The first state keeps it.
LEMMA RefStart == RefInit => RefInv
<1> SUFFICES ASSUME RefInit PROVE RefInv
  OBVIOUS
<1>1. RefTypes
  BY RefTypesStart
<1>2. /\ auth.sess = 1 /\ auth.last = 1 /\ auth.gen = 1 /\ told.ids = 0 /\ told.gone = {}
      /\ ctl.cand = NoCand /\ ctl.pend = NoRef
      /\ seam.in = NoRef /\ seam.cgen = 0 /\ seam.fb = NoInfo(1, 1)
      /\ tick.com = NoRef /\ tick.cseen = 0 /\ tick.at = "idle" /\ tick.ref = NoInfo(1, 1)
  BY DEF RefInit, Armed, FreshCtl, FreshSeam, FreshTick
<1>3. /\ NoCand.id = 0 /\ NoRef.id = 0 /\ NoRef.cgen = 0 /\ NoInfo(1, 1).id = 0
      /\ NoInfo(1, 1).st = "NONE" /\ NoInfo(1, 1).sess = 1 /\ NoInfo(1, 1).gen = 1
  BY EmptyTyped
<1>4. Known /\ Behind
  BY <1>2, <1>3 DEF Known, Behind, Active
<1>5. NotReused /\ Scoped /\ FenceAhead
  BY <1>2, <1>3 DEF NotReused, Scoped, FenceAhead, Active, Gone
<1> QED
  BY <1>1, <1>4, <1>5 DEF RefInv

-----------------------------------------------------------------------------
(* The control thread.                                                     *)

\* A frame that uploads, drops or answers: the tick and the seam are as they were.
LEMMA UploadStep ==
  ASSUME RefInv, BeginUpload \/ Seal \/ AbortUpload \/ Top
  PROVE  RefInv'
<1>0. /\ RefTypes /\ ctl \in CtlType /\ told \in ToldType /\ ctl.cand \in Cand
      /\ ctl.pend \in Ref /\ seam.fb \in Info /\ told.ids \in Nat
  BY DEF RefInv, RefTypes, CtlType, SeamType, ToldType
<1>1. UNCHANGED <<auth, seam, tick>>
  BY DEF BeginUpload, Seal, AbortUpload, Top
<1>2. ctl' \in CtlType /\ told' \in ToldType
  <2>1. CASE BeginUpload
    <3>1. ASSUME NEW id \in Nat, NEW rev \in Nat, BeginAs(id, rev) PROVE ctl' \in CtlType
      BY <1>0, <3>1 DEF BeginAs, CtlType, Cand
    <3>2. told.ids + 1 \in Nat /\ Selected.id \in Nat /\ Selected.rev + 1 \in Nat
      BY <1>0 DEF Selected, Info
    <3>3. told' \in ToldType
      BY <1>0, <2>1 DEF BeginUpload, ToldType
    <3> QED
      BY <2>1, <3>1, <3>2, <3>3 DEF BeginUpload
  <2>2. CASE Seal
    BY <1>0, <2>2 DEF Seal, CtlType, Cand
  <2>3. CASE AbortUpload
    BY <1>0, <2>3, EmptyTyped DEF AbortUpload, CtlType
  <2>4. CASE Top
    <3>1. /\ (IF ctl.mode # NoMode /\ seam.mdone = ctl.mode.ticket THEN NoMode ELSE ctl.mode) \in Mode
          /\ (ctl.waiting /\ seam.done # ctl.pend.ticket) \in BOOLEAN
          /\ (IF seam.done = ctl.pend.ticket THEN NoRef ELSE ctl.pend) \in Ref
          /\ (IF ctl.waiting /\ seam.done = ctl.pend.ticket /\ seam.ok THEN NoCand ELSE ctl.cand)
               \in Cand
      BY <1>0, EmptyTyped DEF CtlType
    <3> QED
      BY <1>0, <2>4, <3>1 DEF Top, Answered, CtlType
  <2> QED
    BY <2>1, <2>2, <2>3, <2>4
<1>3. /\ told'.gone = told.gone /\ told.ids <= told'.ids /\ told'.ids \in Nat
      /\ ctl'.pend \in {ctl.pend, NoRef}
      /\ \/ ctl'.cand = NoCand
         \/ ctl'.cand.id = ctl.cand.id /\ ctl'.cand.rev = ctl.cand.rev
         \/ ctl'.cand.id = told.ids + 1 /\ told'.ids = told.ids + 1
         \/ ctl'.cand.id = Selected.id /\ ctl'.cand.rev = Selected.rev + 1 /\ Active(Selected)
  <2>1. CASE BeginUpload
    <3>1. ASSUME NEW id, NEW rev, BeginAs(id, rev)
          PROVE  ctl'.pend = ctl.pend /\ ctl'.cand.id = id /\ ctl'.cand.rev = rev
      BY <1>0, <3>1 DEF BeginAs, CtlType
    <3>2. CASE told' = [told EXCEPT !.ids = @ + 1] /\ BeginAs(told.ids + 1, 1)
      BY <1>0, <3>1, <3>2 DEF ToldType
    <3>3. CASE Active(Selected) /\ BeginAs(Selected.id, Selected.rev + 1) /\ UNCHANGED told
      BY <1>0, <3>1, <3>3
    <3> QED
      BY <2>1, <3>2, <3>3 DEF BeginUpload
  <2>2. CASE Seal
    BY <1>0, <2>2 DEF Seal, CtlType, Cand
  <2>3. CASE AbortUpload
    BY <1>0, <2>3 DEF AbortUpload, CtlType
  <2>4. CASE Top
    BY <1>0, <2>4 DEF Top, Answered, CtlType
  <2> QED
    BY <2>1, <2>2, <2>3, <2>4
<1>4. RefTypes'
  BY <1>0, <1>1, <1>2 DEF RefTypes
<1>n. NoRef.id = 0 /\ NoCand.id = 0 /\ NoCand.rev = 0
  BY EmptyTyped
<1>k. /\ auth.last \in Nat /\ seam.in.id \in Nat /\ seam.fb.id \in Nat /\ tick.com.id \in Nat
      /\ tick.ref.id \in Nat /\ ctl.cand.id \in Nat /\ ctl.pend.id \in Nat
      /\ \A x \in told.gone : x.id \in Nat
      /\ seam.fb.rev \in Nat
  BY <1>0 DEF RefTypes, SeamType, TickType, CtlType, ToldType, AuthType, Ref, Cand, Info
<1>5. Known'
  <2>1. /\ ctl'.cand.id <= told'.ids /\ ctl'.pend.id <= told'.ids
    BY <1>0, <1>3, <1>n, <1>k DEF RefInv, Known, Selected
  <2> QED
    BY <1>0, <1>1, <1>3, <1>k, <2>1 DEF RefInv, Known, Active
<1>6. Behind' /\ Scoped' /\ FenceAhead'
  BY <1>1, <1>3 DEF RefInv, Behind, Scoped, FenceAhead, Gone, Active
<1>7. NotReused'
  <2>1. ASSUME ctl'.cand.rev = 1, NEW g \in Nat PROVE ~Gone(g, ctl'.cand.id)
    <3>1. CASE ctl'.cand.id = ctl.cand.id /\ ctl'.cand.rev = ctl.cand.rev
      BY <2>1, <3>1 DEF RefInv, NotReused
    <3>2. CASE ctl'.cand.id = told.ids + 1
      <4>1. \A x \in told.gone : x.id # told.ids + 1
        BY <1>0, <1>k DEF RefInv, Known
      <4> QED
        BY <3>2, <4>1 DEF Gone
    <3>3. CASE ctl'.cand.rev = Selected.rev + 1 /\ Active(Selected)
      BY <1>k, <2>1, <3>3 DEF RefInv, Known, Selected
    <3> QED
      BY <1>3, <1>n, <2>1, <3>1, <3>2, <3>3
  <2> QED
    BY <1>1, <1>3, <2>1 DEF RefInv, NotReused, Gone, Fresh
<1> QED
  BY <1>4, <1>5, <1>6, <1>7 DEF RefInv

\* A commit carries the cancel generation it was made in.
LEMMA CommitStep ==
  ASSUME RefInv, Commit
  PROVE  RefInv'
<1> DEFINE c == Pending(0)
<1>0. /\ RefTypes /\ auth \in AuthType /\ ctl \in CtlType /\ seam \in SeamType
      /\ ctl.cand \in Cand /\ auth.gen \in Nat /\ auth.sess \in Nat
      /\ seam.cgen \in Nat /\ seam.pub \in Nat
  BY DEF RefInv, RefTypes, CtlType, SeamType, AuthType
<1>1. /\ c \in Ref /\ c.id = ctl.cand.id /\ c.rev = ctl.cand.rev /\ c.cgen = seam.cgen
      /\ c.gen = auth.gen /\ c.ticket \in Nat
  BY <1>0 DEF Pending, Ref, Cand
<1>2. /\ ctl' = [ctl EXCEPT !.pend = c, !.waiting = TRUE, !.at = "top"]
      /\ seam' = [seam EXCEPT !.in = c, !.pub = c.ticket]
      /\ UNCHANGED <<auth, tick, told>>
  BY DEF Commit, Published
<1> HIDE DEF c
<1>3. /\ ctl' \in CtlType /\ ctl'.cand = ctl.cand /\ ctl'.pend = c
      /\ seam' \in SeamType /\ seam'.in = c /\ seam'.cgen = seam.cgen /\ seam'.fb = seam.fb
      /\ seam'.csess = seam.csess /\ seam'.cepoch = seam.cepoch
  BY <1>0, <1>1, <1>2 DEF CtlType, SeamType
<1>4. RefTypes'
  BY <1>0, <1>2, <1>3 DEF RefTypes
<1>5. Known'
  BY <1>1, <1>2, <1>3 DEF RefInv, Known
<1>6. Behind' /\ Scoped' /\ FenceAhead'
  BY <1>0, <1>1, <1>2, <1>3 DEF RefInv, Behind, Scoped, FenceAhead, Gone
<1>7. NotReused'
  BY <1>0, <1>1, <1>2, <1>3 DEF RefInv, NotReused, Gone, Fresh
<1> QED
  BY <1>4, <1>5, <1>6, <1>7 DEF RefInv

\* A fence: a new cancel generation, of this session and epoch, and no candidate.
LEMMA FenceStep ==
  ASSUME RefInv, RefTypes', UNCHANGED <<auth, tick>>,
         seam'.cgen = seam.cgen + 1, seam'.csess = auth.sess, seam'.cepoch = auth.gen,
         seam'.in = seam.in, seam'.fb = seam.fb,
         ctl'.cand = NoCand, ctl'.pend = ctl.pend,
         told'.ids = told.ids, \A x \in told'.gone : x.id <= told.ids
  PROVE  RefInv'
<1>0. /\ seam.cgen \in Nat /\ tick.cseen \in Nat /\ seam.in.cgen \in Nat
      /\ tick.com.cgen \in Nat /\ told.ids \in Nat
      /\ NoCand.id = 0 /\ NoCand.rev = 0
  BY EmptyTyped DEF RefInv, RefTypes, SeamType, TickType, ToldType, Ref
<1>1. Known'
  BY <1>0 DEF RefInv, Known
<1>2. Behind' /\ Scoped'
  BY <1>0 DEF RefInv, Behind, Scoped
<1>3. NotReused' /\ FenceAhead'
  BY <1>0 DEF RefInv, NotReused, FenceAhead, Behind, Fresh
<1> QED
  BY <1>1, <1>2, <1>3 DEF RefInv

\* What the cancel record changes of the seam.
LEMMA FencedSeam ==
  ASSUME seam \in SeamType, auth \in AuthType, NEW h \in Nat
  PROVE  /\ Fenced(h, auth.gen) \in SeamType
         /\ Fenced(h, auth.gen).cgen = seam.cgen + 1
         /\ Fenced(h, auth.gen).csess = auth.sess /\ Fenced(h, auth.gen).cepoch = auth.gen
         /\ Fenced(h, auth.gen).in = seam.in /\ Fenced(h, auth.gen).fb = seam.fb
<1>1. /\ auth.gen \in Nat /\ auth.sess \in Nat /\ seam.cgen + 1 \in Nat
  BY DEF SeamType, AuthType
<1> DEFINE n == seam.cgen + 1
           t == [seam EXCEPT !.cgen = n, !.cid = h, !.csess = auth.sess, !.cepoch = auth.gen]
<1>2. Fenced(h, auth.gen) = t
  BY DEF Fenced
<1>3. n \in Nat
  BY <1>1
<1> HIDE DEF n
<1>4. /\ t \in SeamType /\ t.cgen = n /\ t.csess = auth.sess /\ t.cepoch = auth.gen
      /\ t.in = seam.in /\ t.fb = seam.fb
  BY <1>1, <1>3 DEF SeamType
<1> QED
  BY <1>2, <1>4 DEF n

\* A withdrawal is of ids that were used.
LEMMA WithdrawnIds ==
  ASSUME RefInv, NEW I \in SUBSET Nat, \A i \in I : i <= told.ids, Withdraw(I)
  PROVE  /\ told' \in ToldType /\ told'.ids = told.ids
         /\ \A x \in told'.gone : x.id <= told.ids
<1>0. told \in ToldType /\ auth.gen \in Nat /\ \A x \in told.gone : x.id <= told.ids
  BY DEF RefInv, RefTypes, AuthType, Known
<1>1. /\ told'.ids = told.ids /\ told' \in [ids : Nat, gone : SUBSET [gen : Nat, id : Nat]]
      /\ told'.gone = told.gone \cup {[gen |-> auth.gen, id |-> i] : i \in I \ {0}}
  BY <1>0 DEF Withdraw, ToldType
<1>2. ASSUME NEW x \in {[gen |-> auth.gen, id |-> i] : i \in I \ {0}} PROVE x.id <= told.ids
  <2>1. PICK i \in I \ {0} : x = [gen |-> auth.gen, id |-> i]
    OBVIOUS
  <2>2. i \in I /\ x.id = i
    BY <2>1
  <2> QED
    BY <2>2
<1> QED
  BY <1>0, <1>1, <1>2 DEF ToldType

\* CANCEL and the selection of a mode.
LEMMA WithdrawStep ==
  ASSUME RefInv, Cancel \/ ModeSelect
  PROVE  RefInv'
<1>0. /\ RefTypes /\ auth \in AuthType /\ ctl \in CtlType /\ seam \in SeamType
      /\ auth.gen \in Nat /\ auth.sess \in Nat /\ seam.cgen \in Nat
      /\ ctl.cand.id \in Nat /\ ctl.pend.id \in Nat /\ Selected.id \in Nat
      /\ seam.mgen \in Nat /\ seam.mpub \in Nat
  BY DEF RefInv, RefTypes, CtlType, SeamType, AuthType, Ref, Cand, Info, Selected
<1>1. /\ \A i \in Staged \cup {Selected.id} : i \in Nat /\ i <= told.ids
  BY <1>0 DEF RefInv, Known, Staged, Selected
<1>2. CASE Cancel
  <2>1. PICK id \in Nat : /\ id <= told.ids /\ Withdraw({id})
                          /\ seam' = Fenced(Highest(Staged \cup {id}), auth.gen)
    BY <1>1, <1>2 DEF Cancel
  <2>2. Highest(Staged \cup {id}) \in Nat
    <3>1. CASE ctl.waiting
      <4>1. Staged \cup {id} = {ctl.cand.id, ctl.pend.id, id}
        BY <3>1 DEF Staged
      <4> QED
        BY <1>0, <4>1, HighestOne
    <3>2. CASE ~ctl.waiting
      <4>1. Staged \cup {id} = {ctl.cand.id, ctl.cand.id, id}
        BY <3>2 DEF Staged
      <4> QED
        BY <1>0, <4>1, HighestOne
    <3> QED
      BY <3>1, <3>2
  <2>3. /\ seam' \in SeamType /\ seam'.cgen = seam.cgen + 1 /\ seam'.csess = auth.sess
        /\ seam'.cepoch = auth.gen /\ seam'.in = seam.in /\ seam'.fb = seam.fb
    BY <1>0, <2>1, <2>2, FencedSeam
  <2>4. /\ ctl' \in CtlType /\ ctl'.cand = NoCand /\ ctl'.pend = ctl.pend
    BY <1>0, <1>2, EmptyTyped DEF Cancel, CtlType
  <2>5. /\ told' \in ToldType /\ told'.ids = told.ids /\ \A x \in told'.gone : x.id <= told.ids
    BY <2>1, WithdrawnIds
  <2>6. RefTypes' /\ UNCHANGED <<auth, tick>>
    BY <1>0, <1>2, <2>3, <2>4, <2>5 DEF Cancel, RefTypes
  <2> QED
    BY <2>3, <2>4, <2>5, <2>6, FenceStep
<1>3. CASE ModeSelect
  <2>1. PICK want \in Modes, old \in 0..Selected.id :
          \E req \in {[mode |-> want, mgen |-> seam.mgen + 1, sess |-> auth.sess,
                       gen |-> auth.gen, ticket |-> seam.mpub + 1]} :
            /\ ctl' = [ctl EXCEPT !.mode = req, !.cand = NoCand, !.at = "top"]
            /\ seam' = [Fenced(Highest({old, ctl.cand.id}), auth.gen)
                          EXCEPT !.min = req, !.mpub = req.ticket]
    BY <1>3 DEF ModeSelect
  <2>2. PICK req \in Mode :
            /\ ctl' = [ctl EXCEPT !.mode = req, !.cand = NoCand, !.at = "top"]
            /\ seam' = [Fenced(Highest({old, ctl.cand.id}), auth.gen)
                          EXCEPT !.min = req, !.mpub = req.ticket]
    <3>1. [mode |-> want, mgen |-> seam.mgen + 1, sess |-> auth.sess,
           gen |-> auth.gen, ticket |-> seam.mpub + 1] \in Mode
      BY <1>0 DEF Mode
    <3> QED
      BY <2>1, <3>1
  <2>3. Highest({old, ctl.cand.id}) \in Nat
    <3>1. {old, ctl.cand.id} = {old, old, ctl.cand.id} /\ old \in Nat
      BY <1>0
    <3> QED
      BY <1>0, <3>1, HighestOne
  <2>4. /\ Fenced(Highest({old, ctl.cand.id}), auth.gen) \in SeamType
        /\ Fenced(Highest({old, ctl.cand.id}), auth.gen).cgen = seam.cgen + 1
        /\ Fenced(Highest({old, ctl.cand.id}), auth.gen).csess = auth.sess
        /\ Fenced(Highest({old, ctl.cand.id}), auth.gen).cepoch = auth.gen
        /\ Fenced(Highest({old, ctl.cand.id}), auth.gen).in = seam.in
        /\ Fenced(Highest({old, ctl.cand.id}), auth.gen).fb = seam.fb
    BY <1>0, <2>3, FencedSeam
  <2>5. /\ seam' \in SeamType /\ seam'.cgen = seam.cgen + 1 /\ seam'.csess = auth.sess
        /\ seam'.cepoch = auth.gen /\ seam'.in = seam.in /\ seam'.fb = seam.fb
    <3>1. req.ticket \in Nat
      BY DEF Mode
    <3> QED
      BY <2>2, <2>4, <3>1 DEF SeamType
  <2>6. /\ ctl' \in CtlType /\ ctl'.cand = NoCand /\ ctl'.pend = ctl.pend
    BY <1>0, <2>2, EmptyTyped DEF CtlType
  <2>7. /\ told' \in ToldType /\ told'.ids = told.ids /\ \A x \in told'.gone : x.id <= told.ids
    <3>1. {Selected.id} \cup Staged \in SUBSET Nat
      BY <1>1
    <3> QED
      BY <1>1, <1>3, <3>1, WithdrawnIds DEF ModeSelect
  <2>8. RefTypes' /\ UNCHANGED <<auth, tick>>
    BY <1>0, <1>3, <2>5, <2>6, <2>7 DEF ModeSelect, RefTypes
  <2> QED
    BY <2>5, <2>6, <2>7, <2>8, FenceStep
<1> QED
  BY <1>2, <1>3

\* ARM, DISARM, a latch, the end of a session and the next one: a reference of the
\* session and epoch before is not one of those after.
LEMMA AuthStep ==
  ASSUME RefInv, Disarm \/ OptIn \/ ArmEpoch \/ Latch \/ SessionEnds \/ Accept
  PROVE  RefInv'
<1>0. /\ RefTypes /\ auth \in AuthType /\ ctl \in CtlType
      /\ auth.gen \in Nat /\ auth.sess \in Nat /\ auth.last \in Nat
      /\ tick.ref.sess \in Nat /\ tick.ref.gen \in Nat /\ told.ids \in Nat
  BY DEF RefInv, RefTypes, CtlType, AuthType, TickType, Info, ToldType
<1>1. UNCHANGED <<seam, tick, told>>
  BY DEF Disarm, OptIn, ArmEpoch, Latch, SessionEnds, Accept
<1>2. /\ ctl' \in CtlType /\ ctl'.cand \in {ctl.cand, NoCand} /\ ctl'.pend \in {ctl.pend, NoRef}
  <2>1. CASE Disarm
    BY <1>0, <2>1, EmptyTyped DEF Disarm, CtlType
  <2>2. CASE OptIn \/ ArmEpoch
    BY <1>0, <2>2 DEF OptIn, ArmEpoch, CtlType
  <2>3. CASE Latch \/ Accept
    BY <1>0, <2>3 DEF Latch, Accept
  <2>4. CASE SessionEnds
    BY <2>4, EmptyTyped DEF SessionEnds, FreshCtl, CtlType
  <2> QED
    BY <2>1, <2>2, <2>3, <2>4
<1>3. /\ auth' \in AuthType
      /\ \/ auth'.gen = auth.gen /\ auth'.sess = auth.sess /\ auth'.last = auth.last
         \/ auth'.gen = auth.gen + 1 /\ auth'.sess = auth.sess /\ auth'.last = auth.last
         \/ auth'.gen = auth.gen /\ auth'.sess = 0 /\ auth'.last = auth.last
         \/ auth'.gen = auth.gen /\ auth'.sess = auth.last + 1 /\ auth'.last = auth.last + 1
  <2>1. CASE Disarm \/ OptIn \/ Latch
    BY <1>0, <2>1 DEF Disarm, OptIn, Latch, AuthType
  <2>2. CASE ArmEpoch
    <3>1. auth.gen + 1 \in Nat
      BY <1>0
    <3>2. /\ auth' \in AuthType /\ auth'.gen = auth.gen + 1 /\ auth'.sess = auth.sess
          /\ auth'.last = auth.last
      BY <1>0, <2>2, <3>1 DEF ArmEpoch, AuthType
    <3> QED
      BY <3>2
  <2>3. CASE SessionEnds
    <3>1. (auth.fault \/ auth.armed) \in BOOLEAN
      OBVIOUS
    <3> QED
      BY <1>0, <2>3, <3>1 DEF SessionEnds, AuthType
  <2>4. CASE Accept
    <3>1. auth.last + 1 \in Nat
      BY <1>0
    <3>2. /\ auth' \in AuthType /\ auth'.gen = auth.gen /\ auth'.sess = auth.last + 1
          /\ auth'.last = auth.last + 1
      BY <1>0, <2>4, <3>1 DEF Accept, AuthType
    <3> QED
      BY <3>2
  <2> QED
    BY <2>1, <2>2, <2>3, <2>4
<1>4. RefTypes'
  BY <1>0, <1>1, <1>2, <1>3 DEF RefTypes
<1>n. NoRef.id = 0 /\ NoCand.id = 0 /\ NoCand.rev = 0
  BY EmptyTyped
<1>5. Known'
  <2>1. /\ auth'.sess <= auth'.last /\ auth.last <= auth'.last /\ auth.gen <= auth'.gen
        /\ auth'.last \in Nat /\ auth'.gen \in Nat
    BY <1>0, <1>3 DEF RefInv, Known
  <2>2. /\ tick.ref.sess <= auth'.last /\ tick.ref.gen <= auth'.gen
    BY <1>0, <2>1 DEF RefInv, Known
  <2>3. ctl'.cand.id <= told.ids /\ ctl'.pend.id <= told.ids
    BY <1>0, <1>2, <1>n DEF RefInv, Known
  <2> QED
    BY <1>1, <2>1, <2>2, <2>3 DEF RefInv, Known
<1>6. Behind' /\ Scoped'
  BY <1>1 DEF RefInv, Behind, Scoped
<1>7. NotReused'
  BY <1>1, <1>2, <1>n DEF RefInv, NotReused, Gone, Fresh
<1>8. FenceAhead'
  BY <1>0, <1>1, <1>3 DEF RefInv, FenceAhead, Known, Gone, Active
<1> QED
  BY <1>4, <1>5, <1>6, <1>7, <1>8 DEF RefInv

-----------------------------------------------------------------------------
(* The tick.                                                               *)

\* Sampling and reporting change nothing of the selection.
LEMMA EdgeStep ==
  ASSUME RefInv, TickSample \/ TickReport
  PROVE  RefInv'
<1>0. /\ RefTypes /\ tick \in TickType /\ seam \in SeamType /\ auth \in AuthType
  BY DEF RefInv, RefTypes
<1>1. UNCHANGED <<auth, ctl, told>>
  BY DEF TickSample, TickReport
<1>2. /\ tick' \in TickType /\ tick'.at # "select" /\ tick'.ref = tick.ref
      /\ tick'.com = tick.com /\ tick'.cseen = tick.cseen
  <2>1. CASE TickSample
    BY <1>0, <2>1 DEF TickSample, TickType, AuthType
  <2>2. CASE TickReport
    BY <1>0, <2>2 DEF TickReport, TickType
  <2> QED
    BY <2>1, <2>2
<1>3. /\ seam' \in SeamType /\ seam'.cgen = seam.cgen /\ seam'.in = seam.in
      /\ seam'.csess = seam.csess /\ seam'.cepoch = seam.cepoch
      /\ seam'.fb \in {seam.fb, tick.ref}
  <2>1. CASE TickSample
    BY <1>0, <2>1 DEF TickSample
  <2>2. CASE TickReport
    BY <1>0, <2>2 DEF TickReport, TickType, SeamType
  <2> QED
    BY <2>1, <2>2
<1>4. RefTypes'
  BY <1>0, <1>1, <1>2, <1>3 DEF RefTypes
<1>5. Known'
  BY <1>1, <1>2, <1>3 DEF RefInv, Known
<1>6. Behind' /\ Scoped' /\ NotReused' /\ FenceAhead'
  BY <1>1, <1>2, <1>3 DEF RefInv, Behind, Scoped, NotReused, FenceAhead, Gone, Fresh
<1> QED
  BY <1>4, <1>5, <1>6 DEF RefInv

\* A reference that is retired or reset and active all the same is as it was.
LEMMA ResetRefs ==
  ASSUME RefTypes, NEW x \in {tick.ref, Retired(tick.ref)}
  PROVE  /\ Reset(x) \in Info /\ Reset(x).sess = auth.sess /\ Reset(x).gen = auth.gen
         /\ Active(Reset(x)) => Reset(x) = tick.ref
         /\ Reset(x).id \in {0, tick.ref.id}
<1>0. tick.ref \in Info /\ auth.sess \in Nat /\ auth.gen \in Nat
  BY DEF RefTypes, TickType, AuthType
<1>1. /\ x \in Info /\ x.id = tick.ref.id /\ (Active(x) => x = tick.ref)
  <2>1. CASE x = tick.ref
    BY <1>0, <2>1
  <2>2. CASE x = Retired(tick.ref)
    BY <1>0, <2>2 DEF Retired, Active, Info
  <2> QED
    BY <2>1, <2>2
<1>2. CASE x.sess = auth.sess /\ x.gen = auth.gen
  BY <1>1, <1>2 DEF Reset
<1>3. CASE ~(x.sess = auth.sess /\ x.gen = auth.gen)
  <2>1. Reset(x) = NoInfo(auth.sess, auth.gen)
    BY <1>3 DEF Reset
  <2> QED
    BY <1>0, <2>1, EmptyTyped DEF Active
<1> QED
  BY <1>2, <1>3

\* The mode a tick settles on.
LEMMA ModeTyped ==
  ASSUME RefTypes
  PROVE  /\ \A arm \in BOOLEAN : Seeded(arm) \in Mode
         /\ \A m \in Mode, good \in BOOLEAN : ConfirmedMode(m, good) \in Mode
<1>0. /\ tick.mode \in Mode /\ seam.min \in Mode /\ auth.sess \in Nat /\ auth.gen \in Nat
  BY DEF RefTypes, TickType, SeamType, AuthType
<1>1. ASSUME NEW arm \in BOOLEAN PROVE Seeded(arm) \in Mode
  <2>1. (IF auth.opted THEN "REFERENCE" ELSE "STREAMED") \in Modes \cup {"UNSELECTED"}
    BY DEF Modes
  <2>2. [mode |-> IF auth.opted THEN "REFERENCE" ELSE "STREAMED", mgen |-> 0,
         sess |-> auth.sess, gen |-> auth.gen, ticket |-> 0] \in Mode
    BY <1>0, <2>1, Zenon DEF Mode
  <2> QED
    BY <1>0, <2>2, EmptyTyped DEF Seeded
<1>2. ASSUME NEW m \in Mode, NEW good \in BOOLEAN PROVE ConfirmedMode(m, good) \in Mode
  <2>1. [m EXCEPT !.mode = seam.min.mode, !.mgen = seam.min.mgen] \in Mode
    BY <1>0 DEF Mode
  <2> QED
    BY <2>1 DEF ConfirmedMode
<1> QED
  BY <1>1, <1>2

\* Session, generation, mode and the commit's mailbox.
LEMMA ModeTickStep ==
  ASSUME RefInv, NEW arm \in BOOLEAN, NEW fault \in BOOLEAN, ModeStep(arm, fault)
  PROVE  RefInv'
<1>0. /\ RefTypes /\ tick \in TickType /\ seam \in SeamType /\ auth \in AuthType
      /\ auth.gen \in Nat /\ auth.sess \in Nat /\ auth.last \in Nat
      /\ seam.mpub \in Nat /\ seam.pub \in Nat /\ seam.in \in Ref
      /\ tick.high \in Nat /\ tick.com \in Ref /\ told.ids \in Nat
  BY DEF RefInv, RefTypes, TickType, SeamType, AuthType, ToldType
<1> DEFINE m0 == Seeded(arm)
           m == ConfirmedMode(m0, arm /\ ~fault)
           r == Reset(IF m = m0 THEN tick.ref ELSE Retired(tick.ref))
<1>1. /\ tick' =
           [tick EXCEPT !.at = "select", !.armed = arm, !.fault = fault,
                        !.gen = auth.gen, !.sess = auth.sess,
                        !.mode = m, !.mseen = seam.mpub, !.ref = r,
                        !.high = IF r.sess = tick.ref.sess /\ r.gen = tick.ref.gen
                                 THEN @ ELSE 0,
                        !.pub = seam.pub,
                        !.com = IF seam.pub # tick.seen THEN seam.in ELSE @]
      /\ seam' = [seam EXCEPT !.mdone = seam.mpub, !.mgen = m.mgen, !.min = NoMode]
  BY DEF ModeStep
<1>2. m \in Mode /\ m.mgen \in Nat
  <2>1. m0 \in Mode
    BY <1>0, ModeTyped
  <2>2. m \in Mode
    BY <1>0, <2>1, ModeTyped
  <2> QED
    BY <2>2 DEF Mode
<1>3. /\ r \in Info /\ r.sess = auth.sess /\ r.gen = auth.gen
      /\ Active(r) => r = tick.ref
      /\ r.id \in {0, tick.ref.id}
  BY <1>0, ResetRefs
<1> HIDE DEF m0, m, r
<1>4. PICK h \in Nat, c \in {seam.in, tick.com} :
         tick' = [tick EXCEPT !.at = "select", !.armed = arm, !.fault = fault,
                              !.gen = auth.gen, !.sess = auth.sess,
                              !.mode = m, !.mseen = seam.mpub, !.ref = r,
                              !.high = h, !.pub = seam.pub, !.com = c]
  BY <1>0, <1>1
<1>5. /\ tick' \in TickType /\ tick'.sess = auth.sess /\ tick'.gen = auth.gen
      /\ tick'.ref = r /\ tick'.com = c /\ tick'.cseen = tick.cseen
  BY <1>0, <1>2, <1>3, <1>4 DEF TickType
<1>6. /\ seam' \in SeamType /\ seam'.cgen = seam.cgen /\ seam'.in = seam.in
      /\ seam'.csess = seam.csess /\ seam'.cepoch = seam.cepoch /\ seam'.fb = seam.fb
  BY <1>0, <1>1, <1>2, EmptyTyped DEF SeamType
<1>7. UNCHANGED <<auth, ctl, told>>
  BY DEF ModeStep
<1>8. RefTypes'
  BY <1>0, <1>5, <1>6, <1>7 DEF RefTypes
<1>9. Known'
  <2>1. r.sess <= auth.last /\ r.gen <= auth.gen /\ r.id <= told.ids
    BY <1>0, <1>3 DEF RefInv, Known
  <2> QED
    BY <1>3, <1>5, <1>6, <1>7, <2>1 DEF RefInv, Known
<1>10. Behind' /\ NotReused'
  BY <1>5, <1>6, <1>7 DEF RefInv, Behind, NotReused, Gone, Fresh
<1>11. Scoped' /\ FenceAhead'
  BY <1>3, <1>5, <1>6, <1>7 DEF RefInv, Scoped, FenceAhead, Gone
<1> QED
  BY <1>8, <1>9, <1>10, <1>11 DEF RefInv

\* What a tick has left of its reference once it has read the fence and evaluated:
\* a withdrawn one of this session and epoch is not followed any more.
LEMMA FencedRef ==
  ASSUME RefInv, tick.at = "select", NEW r \in Evaluated(Cancelled.ref)
  PROVE  /\ r \in Info /\ Cancelled.high \in Nat
         /\ r.id = tick.ref.id /\ r.rev = tick.ref.rev
         /\ r.sess = tick.ref.sess /\ r.gen = tick.ref.gen
         /\ Active(r) => Active(tick.ref)
         /\ Active(r) /\ r.sess = auth.sess /\ r.gen = auth.gen => ~Gone(r.gen, r.id)
<1> DEFINE hit == seam.cgen # tick.cseen /\ seam.csess = tick.sess /\ seam.cepoch = tick.gen
           q == Cancelled.ref
<1>0. /\ RefTypes /\ tick.ref \in Info /\ tick.high \in Nat /\ seam.cid \in Nat
  BY DEF RefInv, RefTypes, TickType, SeamType
<1>1. Cancelled.high \in Nat
  <2>1. Highest({tick.high, tick.high, seam.cid}) \in Nat
    BY <1>0, HighestOne
  <2>2. {tick.high, tick.high, seam.cid} = {tick.high, seam.cid}
    OBVIOUS
  <2>3. Cancelled.high = IF hit THEN Highest({tick.high, seam.cid}) ELSE tick.high
    BY DEF Cancelled
  <2> QED
    BY <1>0, <2>1, <2>2, <2>3
<1>2. q = IF hit \/ ~tick.armed \/ tick.fault THEN Retired(tick.ref) ELSE tick.ref
  BY DEF Cancelled
<1>3. /\ q \in Info /\ q.id = tick.ref.id /\ q.rev = tick.ref.rev
      /\ q.sess = tick.ref.sess /\ q.gen = tick.ref.gen
      /\ Active(q) => Active(tick.ref) /\ ~hit
  BY <1>0, <1>2 DEF Retired, Active, Info
<1>4. /\ r \in Info /\ r.id = q.id /\ r.rev = q.rev /\ r.sess = q.sess /\ r.gen = q.gen
      /\ Active(r) => Active(q)
  <2>1. CASE q.st = "RUNNING"
    <3>1. PICK x \in {"RUNNING", "END", "OVER"} : r = [q EXCEPT !.st = x]
      BY <2>1 DEF Evaluated
    <3> QED
      BY <1>3, <2>1, <3>1 DEF Info, Active
  <2>2. CASE q.st # "RUNNING"
    BY <1>3, <2>2 DEF Evaluated
  <2> QED
    BY <2>1, <2>2
<1>5. ASSUME Active(r), r.sess = auth.sess, r.gen = auth.gen, Gone(r.gen, r.id) PROVE FALSE
  <2>1. Active(tick.ref) /\ ~hit
    BY <1>3, <1>4, <1>5
  <2>2. tick.cseen # seam.cgen /\ seam.csess = auth.sess /\ seam.cepoch = auth.gen
    BY <1>3, <1>4, <1>5, <2>1 DEF RefInv, FenceAhead
  <2>3. tick.sess = auth.sess /\ tick.gen = auth.gen
    BY <1>3, <1>4, <1>5 DEF RefInv, Scoped
  <2> QED
    BY <2>1, <2>2, <2>3
<1> QED
  BY <1>1, <1>3, <1>4, <1>5

\* What the selection leaves in the seam.
LEMMA HandledSeam ==
  ASSUME RefTypes, NEW c, NEW t, t = Handled(c)
  PROVE  /\ t \in SeamType /\ t.cgen = seam.cgen /\ t.fb = seam.fb /\ t.in \in {seam.in, NoRef}
<1> DEFINE i == IF seam.in = c THEN NoRef ELSE seam.in
<1>1. t = [seam EXCEPT !.in = i, !.cid = 0, !.csess = 0, !.cepoch = 0]
  BY DEF Handled
<1>2. i \in Ref /\ seam \in SeamType /\ i \in {seam.in, NoRef}
  BY EmptyTyped DEF RefTypes, SeamType
<1> HIDE DEF i
<1>3. t.cgen = seam.cgen /\ t.fb = seam.fb /\ t.in = i
  BY <1>1, <1>2 DEF SeamType
<1>4. [seam EXCEPT !.in = i, !.cid = 0, !.csess = 0, !.cepoch = 0] \in SeamType
  BY <1>2 DEF SeamType
<1> QED
  BY <1>1, <1>2, <1>3, <1>4

\* The selection: the fence, the evaluation, the commit.
LEMMA SelectStep ==
  ASSUME RefInv, TickSelect
  PROVE  RefInv'
<1>0. /\ RefTypes /\ tick \in TickType /\ seam \in SeamType /\ tick.com \in Ref
      /\ tick.ref \in Info /\ seam.cgen \in Nat /\ tick.pub \in Nat /\ tick.at = "select"
      /\ UNCHANGED <<auth, ctl, told>>
  BY DEF RefInv, RefTypes, TickType, SeamType, TickSelect
<1>n. NoRef \in Ref /\ NoRef.rev = 0 /\ NoRef.id = 0 /\ NoRef.cgen = 0
  BY EmptyTyped
<1>1. ASSUME NEW n \in Info, NEW h \in Nat, NEW c \in {tick.com, NoRef}, NEW u \in Nat,
             tick' = [tick EXCEPT !.at = "report", !.com = c, !.cseen = seam.cgen,
                                  !.seen = u, !.high = h, !.ref = n],
             seam' \in SeamType, seam'.cgen = seam.cgen, seam'.fb = seam.fb,
             seam'.in \in {seam.in, NoRef},
             n.sess <= auth.last, n.gen <= auth.gen, n.id <= told.ids,
             Active(n) => n.sess # 0 /\ n.rev # 0,
             Active(n) /\ n.sess = auth.sess /\ n.gen = auth.gen => ~Gone(n.gen, n.id)
      PROVE  RefInv'
  <2>1. /\ tick' \in TickType /\ tick'.ref = n /\ tick'.com = c /\ tick'.cseen = seam.cgen
        /\ tick'.at = "report"
    BY <1>0, <1>n, <1>1 DEF TickType
  <2>2. RefTypes'
    BY <1>0, <1>1, <2>1 DEF RefTypes
  <2>i. told.ids \in Nat /\ tick.com.cgen \in Nat /\ seam.in.cgen \in Nat
    BY <1>0 DEF RefTypes, ToldType, SeamType, Ref
  <2>3. Known'
    BY <1>0, <1>n, <1>1, <2>1, <2>i DEF RefInv, Known
  <2>4. Behind' /\ NotReused'
    BY <1>0, <1>n, <1>1, <2>1, <2>i DEF RefInv, Behind, NotReused, Gone, Fresh
  <2>5. Scoped' /\ FenceAhead'
    BY <1>0, <1>1, <2>1 DEF Scoped, FenceAhead, Gone
  <2> QED
    BY <2>2, <2>3, <2>4, <2>5 DEF RefInv
<1>2. PICK x \in {Cancelled}, r \in Evaluated(Cancelled.ref) :
       \/ /\ tick.pub # tick.seen
          /\ \E timely \in BOOLEAN : \E c \in {tick.com} :
             \E ok \in {timely /\ Admits(c, r, x.high)} :
               /\ tick' = [tick EXCEPT !.at = "report", !.com = NoRef, !.cseen = seam.cgen,
                                       !.seen = tick.pub,
                                       !.high = IF ok THEN c.id ELSE x.high,
                                       !.ref = IF ok THEN Selection(c) ELSE r]
               /\ seam' = [Handled(c) EXCEPT !.done = tick.pub, !.ok = ok]
       \/ /\ tick.pub = tick.seen
          /\ tick' = [tick EXCEPT !.at = "report", !.cseen = seam.cgen, !.high = x.high,
                                  !.ref = r]
          /\ seam' = Handled(NoRef)
  BY DEF TickSelect
<1>3. /\ r \in Info /\ x.high \in Nat
      /\ r.id = tick.ref.id /\ r.rev = tick.ref.rev
      /\ r.sess = tick.ref.sess /\ r.gen = tick.ref.gen
      /\ Active(r) => Active(tick.ref)
      /\ Active(r) /\ r.sess = auth.sess /\ r.gen = auth.gen => ~Gone(r.gen, r.id)
  BY <1>0, FencedRef
<1>4. /\ r.sess <= auth.last /\ r.gen <= auth.gen /\ r.id <= told.ids
      /\ Active(r) => r.sess # 0 /\ r.rev # 0
  BY <1>3 DEF RefInv, Known
<1>5. CASE /\ tick.pub = tick.seen
           /\ tick' = [tick EXCEPT !.at = "report", !.cseen = seam.cgen, !.high = x.high,
                                   !.ref = r]
           /\ seam' = Handled(NoRef)
  <2>1. tick' = [tick EXCEPT !.at = "report", !.com = tick.com, !.cseen = seam.cgen,
                             !.seen = tick.pub, !.high = x.high, !.ref = r]
    BY <1>0, <1>3, <1>5 DEF TickType
  <2>2. /\ seam' \in SeamType /\ seam'.cgen = seam.cgen /\ seam'.fb = seam.fb
        /\ seam'.in \in {seam.in, NoRef}
    BY <1>0, <1>5, HandledSeam
  <2> QED
    BY <1>0, <1>1, <1>3, <1>4, <2>1, <2>2
<1>6. CASE \E timely \in BOOLEAN : \E c \in {tick.com} :
           \E ok \in {timely /\ Admits(c, r, x.high)} :
             /\ tick' = [tick EXCEPT !.at = "report", !.com = NoRef, !.cseen = seam.cgen,
                                     !.seen = tick.pub,
                                     !.high = IF ok THEN c.id ELSE x.high,
                                     !.ref = IF ok THEN Selection(c) ELSE r]
             /\ seam' = [Handled(c) EXCEPT !.done = tick.pub, !.ok = ok]
  <2> DEFINE c == tick.com
  <2>1. PICK ok \in BOOLEAN :
             /\ ok => Admits(c, r, x.high)
             /\ tick' = [tick EXCEPT !.at = "report", !.com = NoRef, !.cseen = seam.cgen,
                                     !.seen = tick.pub,
                                     !.high = IF ok THEN c.id ELSE x.high,
                                     !.ref = IF ok THEN Selection(c) ELSE r]
             /\ seam' = [Handled(c) EXCEPT !.done = tick.pub, !.ok = ok]
    <3>1. PICK timely \in BOOLEAN :
             \E ok \in {timely /\ Admits(c, r, x.high)} :
             /\ tick' = [tick EXCEPT !.at = "report", !.com = NoRef, !.cseen = seam.cgen,
                                     !.seen = tick.pub,
                                     !.high = IF ok THEN c.id ELSE x.high,
                                     !.ref = IF ok THEN Selection(c) ELSE r]
             /\ seam' = [Handled(c) EXCEPT !.done = tick.pub, !.ok = ok]
      BY <1>6
    <3>2. (timely /\ Admits(c, r, x.high)) \in BOOLEAN
      OBVIOUS
    <3> QED
      BY <3>1, <3>2
  <2>2. /\ seam' \in SeamType /\ seam'.cgen = seam.cgen /\ seam'.fb = seam.fb
        /\ seam'.in \in {seam.in, NoRef}
    <3> DEFINE t == Handled(c)
    <3>1. t \in SeamType /\ t.cgen = seam.cgen /\ t.fb = seam.fb /\ t.in \in {seam.in, NoRef}
      BY <1>0, HandledSeam
    <3>2. seam' = [t EXCEPT !.done = tick.pub, !.ok = ok]
      BY <2>1
    <3> HIDE DEF t
    <3> QED
      BY <1>0, <3>1, <3>2 DEF SeamType
  <2>c. c \in Ref /\ c.id \in Nat
    BY <1>0 DEF Ref
  <2>3. CASE ~ok
    <3>1. tick' = [tick EXCEPT !.at = "report", !.com = NoRef, !.cseen = seam.cgen,
                               !.seen = tick.pub, !.high = x.high, !.ref = r]
      BY <2>1, <2>3
    <3> QED
      BY <1>0, <1>1, <1>3, <1>4, <2>2, <3>1
  <2>4. CASE ok
    <3> DEFINE n == Selection(c)
    <3>1. tick' = [tick EXCEPT !.at = "report", !.com = NoRef, !.cseen = seam.cgen,
                               !.seen = tick.pub, !.high = c.id, !.ref = n]
      BY <2>1, <2>4
    <3>2. /\ n \in Info /\ n.id = c.id /\ n.rev = c.rev /\ n.sess = c.sess /\ n.gen = c.gen
      BY <2>c DEF Selection, Ref, Info
    <3>3. /\ c.sess = tick.sess /\ c.sess # 0 /\ c.gen = tick.gen /\ Fresh(c)
          /\ \/ c.rev = 1
             \/ Active(r) /\ c.id = r.id /\ c.rev = r.rev + 1
      BY <2>1, <2>4 DEF Admits
    <3>4. tick.ref.sess = tick.sess /\ tick.ref.gen = tick.gen
      BY <1>0 DEF RefInv, Scoped
    <3>5. n.sess <= auth.last /\ n.gen <= auth.gen /\ n.id <= told.ids
      BY <1>3, <1>4, <3>2, <3>3, <3>4 DEF RefInv, Known
    <3>6. n.sess # 0 /\ n.rev # 0
      BY <1>3, <3>2, <3>3 DEF Info
    <3>7. n.sess = auth.sess /\ n.gen = auth.gen => ~Gone(n.gen, n.id)
      <4>1. CASE c.rev = 1
        BY <3>2, <3>3, <4>1 DEF RefInv, NotReused
      <4>2. CASE Active(r) /\ c.id = r.id
        BY <1>3, <3>2, <3>3, <3>4, <4>2
      <4> QED
        BY <3>3, <4>1, <4>2
    <3> HIDE DEF n
    <3> QED
      BY <1>0, <1>1, <2>c, <2>2, <3>1, <3>2, <3>5, <3>6, <3>7
  <2> QED
    BY <2>3, <2>4
<1> QED
  BY <1>2, <1>5, <1>6

-----------------------------------------------------------------------------
(* The theorems.                                                           *)

(* Every step of the control thread and of the tick keeps what the         *)
(* argument rests on, between any two of each other's steps.               *)
THEOREM RefSafe == RefSpec => []RefInv
<1>1. RefInv /\ [RefNext]_refVars => RefInv'
  <2> SUFFICES ASSUME RefInv, [RefNext]_refVars PROVE RefInv'
    OBVIOUS
  <2>1. CASE UNCHANGED refVars
    BY <2>1 DEF refVars, RefInv, RefTypes, Known, Behind, NotReused, Scoped, FenceAhead, Gone,
                Fresh, Active
  <2>2. CASE TickMode
    <3>1. tick.armed \in BOOLEAN /\ tick.fault \in BOOLEAN
      BY DEF RefInv, RefTypes, TickType
    <3> QED
      BY <2>2, <3>1, ModeTickStep DEF TickMode
  <2>3. CASE TickSelect
    BY <2>3, SelectStep
  <2>4. CASE TickSample \/ TickReport
    BY <2>4, EdgeStep
  <2>5. CASE BeginUpload \/ Seal \/ AbortUpload \/ Top
    BY <2>5, UploadStep
  <2>6. CASE Commit
    BY <2>6, CommitStep
  <2>7. CASE Cancel \/ ModeSelect
    BY <2>7, WithdrawStep
  <2>8. CASE Disarm \/ OptIn \/ ArmEpoch \/ Latch \/ SessionEnds \/ Accept
    BY <2>8, AuthStep
  <2> QED
    BY <2>1, <2>2, <2>3, <2>4, <2>5, <2>6, <2>7, <2>8 DEF RefNext
<1> QED
  BY <1>1, RefStart, PTL DEF RefSpec

(* A reference that was cancelled, or retired by a mode selection, is not  *)
(* followed past the tick under way: whichever commit, revision, upload or *)
(* session raced it, the next tick has its fence still to read.            *)
THEOREM RefWithdrawnStops == RefSpec => []WithdrawnStops
<1>1. RefInv => WithdrawnStops
  BY DEF RefInv, FenceAhead, WithdrawnStops, Gone
<1> QED
  BY <1>1, RefSafe, PTL
=============================================================================
