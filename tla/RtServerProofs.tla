--------------------------- MODULE RtServerProofs ----------------------------
(***************************************************************************)
(* Proofs about RtServer for every value of its bounds: the fault latch    *)
(* has one owner, shows the cause its serial was claimed for, and every    *)
(* notice the client receives names that cause; no command is written      *)
(* under another ARM generation than its own, no torque session of the     *)
(* plant outlives the generation that opened it, and a servo that gave up  *)
(* writing has latched why.                                                *)
(***************************************************************************)
EXTENDS RtServer, TLAPS

USE RtServerAssumption

(* What latch() has done so far, for a thread inside it: the cause it      *)
(* claimed for is filled in, then the fault flag is raised.                *)
LatchProgress ==
  \A t \in Threads :
    /\ lw[t] \in {"fault", "set"} => fseq > 0 /\ cause = lc[t] /\ causes[fseq] = lc[t]
    /\ lw[t] = "set" => fault

(* The control thread latches only as its session ends.                    *)
ControlInside == ~Idle("control") => cpc = "end"

(* A reset that has lowered the flag keeps it low.                         *)
ResetProgress == cpc = "reset" => ~fault

(* The notice being sent was read from a latch that was set.               *)
NoticeHeld ==
  cpc = "notice" => notice.seq \in 1..fseq /\ notice.code = causes[notice.seq].code

(* The requests a bound admitted still fit it.                             *)
Bounded ==
  /\ cpc = "prepare" => agen < MaxGen
  /\ cpc \in {"clear", "clearing", "reset", "bump"} => dgen < MaxDisarm
  /\ (\E t \in Threads : lw[t] = "fill") => fseq < MaxFault

LatchInv ==
  /\ Bounded
  /\ LatchOwned /\ LatchCoherent
  /\ LatchProgress /\ ControlInside /\ ResetProgress
  /\ NoticesTrue /\ NoticeHeld

IInv == TypeOK /\ LatchInv

-----------------------------------------------------------------------------
(* Types.  An action that leaves a group of variables alone keeps the      *)
(* group's types; LatchBegin is shared by six actions.                     *)

\* A step that leaves the latch's variables alone keeps their types.
LEMMA LatchTypesKept == LatchTypes /\ UNCHANGED latchVars => LatchTypes'
  BY DEF LatchTypes, latchVars

\* A step that leaves the control thread's variables alone keeps their types.
LEMMA ControlTypesKept == ControlTypes /\ UNCHANGED ctlVars => ControlTypes'
  BY DEF ControlTypes, ctlVars

\* A step that leaves the command thread's variables alone keeps their types.
LEMMA CommandTypesKept == CommandTypes /\ UNCHANGED cmdVars => CommandTypes'
  BY DEF CommandTypes, cmdVars

\* A step that leaves the servo thread's variables alone keeps their types.
LEMMA ServoTypesKept == ServoTypes /\ UNCHANGED servoVars => ServoTypes'
  BY DEF ServoTypes, servoVars

\* The empty command slot is a command value.
LEMMA NoCmdType == NoCmd \in Cmd
  BY DEF NoCmd, Cmd

\* The cleared latch cause is a cause value.
LEMMA NoCauseType == NoCause \in Cause
  BY DEF NoCause, Cause

(* Entering latch() keeps the latch's types.                               *)
LEMMA LatchBeginTypes ==
  ASSUME LatchTypes, NEW t \in Threads, NEW c \in Codes, NEW g \in 0..MaxGen,
         LatchBegin(t, c, g)
  PROVE  LatchTypes'
<1>1. [code |-> c, gen |-> g] \in Cause
  BY DEF Cause
<1>2. CASE word = "FREE"
  BY <1>1, <1>2 DEF LatchTypes, LatchBegin
<1>3. CASE word # "FREE"
  BY <1>3 DEF LatchTypes, LatchBegin
<1> QED
  BY <1>2, <1>3

(* Every action keeps the types.                                           *)
LEMMA TypesStep ==
  ASSUME IInv, [Next]_vars
  PROVE  TypeOK'
<1> USE DEF IInv, TypeOK, LatchInv
<1>0. CASE UNCHANGED vars
  BY <1>0, LatchTypesKept, ControlTypesKept, CommandTypesKept, ServoTypesKept DEF vars
<1>1. ASSUME NEW t \in Threads, LatchFill(t) PROVE TypeOK'
  <2>1. LatchTypes'
    BY <1>1 DEF LatchFill, LatchTypes, Bounded
  <2>2. ControlTypes'
    BY <1>1, ControlTypesKept DEF LatchFill
  <2>3. CommandTypes'
    BY <1>1, CommandTypesKept DEF LatchFill
  <2>4. ServoTypes'
    BY <1>1, ServoTypesKept DEF LatchFill
  <2> QED
    BY <2>1, <2>2, <2>3, <2>4 DEF TypeOK
<1>2. ASSUME NEW t \in Threads, LatchFault(t) PROVE TypeOK'
  <2>1. LatchTypes'
    BY <1>2 DEF LatchFault, LatchTypes
  <2>2. ControlTypes'
    BY <1>2, ControlTypesKept DEF LatchFault
  <2>3. CommandTypes'
    BY <1>2, CommandTypesKept DEF LatchFault
  <2>4. ServoTypes'
    BY <1>2, ServoTypesKept DEF LatchFault
  <2> QED
    BY <2>1, <2>2, <2>3, <2>4 DEF TypeOK
<1>3. ASSUME NEW t \in Threads, LatchSet(t) PROVE TypeOK'
  <2>1. LatchTypes'
    BY <1>3 DEF LatchSet, LatchTypes
  <2>2. ControlTypes'
    BY <1>3, ControlTypesKept DEF LatchSet
  <2>3. CommandTypes'
    BY <1>3, CommandTypesKept DEF LatchSet
  <2>4. ServoTypes'
    BY <1>3, ServoTypesKept DEF LatchSet
  <2> QED
    BY <2>1, <2>2, <2>3, <2>4 DEF TypeOK
<1>4. CASE Accept
  <2>1. LatchTypes'
    BY <1>4, LatchTypesKept DEF Accept
  <2>2. ControlTypes'
    BY <1>4 DEF Accept, ControlTypes
  <2>3. CommandTypes'
    BY <1>4, CommandTypesKept DEF Accept
  <2>4. ServoTypes'
    BY <1>4, ServoTypesKept DEF Accept
  <2> QED
    BY <2>1, <2>2, <2>3, <2>4 DEF TypeOK
<1>5. CASE Arm
  <2>1. LatchTypes'
    BY <1>5 DEF Arm, LatchTypes
  <2>2. ControlTypes'
    BY <1>5 DEF Arm, ControlTypes
  <2>3. CommandTypes'
    BY <1>5, CommandTypesKept DEF Arm
  <2>4. ServoTypes'
    BY <1>5, ServoTypesKept DEF Arm
  <2> QED
    BY <2>1, <2>2, <2>3, <2>4 DEF TypeOK
<1>6. CASE ArmAgain
  <2>1. LatchTypes'
    BY <1>6, LatchTypesKept DEF ArmAgain
  <2>2. ControlTypes'
    BY <1>6, ControlTypesKept DEF ArmAgain
  <2>3. CommandTypes'
    BY <1>6 DEF ArmAgain, CommandTypes, ControlTypes
  <2>4. ServoTypes'
    BY <1>6, ServoTypesKept DEF ArmAgain
  <2> QED
    BY <2>1, <2>2, <2>3, <2>4 DEF TypeOK
<1>7. CASE Prepare
  <2>1. LatchTypes'
    BY <1>7, LatchTypesKept DEF Prepare
  <2>2. ControlTypes'
    BY <1>7 DEF Prepare, ControlTypes, Bounded
  <2>3. CommandTypes'
    BY <1>7, CommandTypesKept DEF Prepare
  <2>4. ServoTypes'
    BY <1>7, ServoTypesKept DEF Prepare
  <2> QED
    BY <2>1, <2>2, <2>3, <2>4 DEF TypeOK
<1>8. CASE FreeWord
  <2>1. LatchTypes'
    BY <1>8 DEF FreeWord, LatchTypes
  <2>2. ControlTypes'
    BY <1>8 DEF FreeWord, ControlTypes
  <2>3. CommandTypes'
    BY <1>8, CommandTypesKept DEF FreeWord
  <2>4. ServoTypes'
    BY <1>8, ServoTypesKept DEF FreeWord
  <2> QED
    BY <2>1, <2>2, <2>3, <2>4 DEF TypeOK
<1>9. CASE Raise
  <2>1. LatchTypes'
    BY <1>9, LatchTypesKept DEF Raise
  <2>2. ControlTypes'
    BY <1>9 DEF Raise, ControlTypes
  <2>3. CommandTypes'
    BY <1>9 DEF Raise, CommandTypes, ControlTypes
  <2>4. ServoTypes'
    BY <1>9, ServoTypesKept DEF Raise
  <2> QED
    BY <2>1, <2>2, <2>3, <2>4 DEF TypeOK
<1>10. CASE Disarm
  <2>1. LatchTypes'
    BY <1>10, LatchTypesKept DEF Disarm
  <2>2. ControlTypes'
    BY <1>10 DEF Disarm, ControlTypes
  <2>3. CommandTypes'
    BY <1>10, CommandTypesKept DEF Disarm
  <2>4. ServoTypes'
    BY <1>10, ServoTypesKept DEF Disarm
  <2> QED
    BY <2>1, <2>2, <2>3, <2>4 DEF TypeOK
<1>11. CASE ClearClaim
  <2>1. LatchTypes'
    BY <1>11 DEF ClearClaim, LatchTypes
  <2>2. ControlTypes'
    BY <1>11 DEF ClearClaim, ControlTypes
  <2>3. CommandTypes'
    BY <1>11, CommandTypesKept DEF ClearClaim
  <2>4. ServoTypes'
    BY <1>11, ServoTypesKept DEF ClearClaim
  <2> QED
    BY <2>1, <2>2, <2>3, <2>4 DEF TypeOK
<1>12. CASE ClearTimeout
  <2>1. LatchTypes'
    BY <1>12, LatchTypesKept DEF ClearTimeout
  <2>2. ControlTypes'
    BY <1>12 DEF ClearTimeout, ControlTypes
  <2>3. CommandTypes'
    BY <1>12, CommandTypesKept DEF ClearTimeout
  <2>4. ServoTypes'
    BY <1>12, ServoTypesKept DEF ClearTimeout
  <2> QED
    BY <2>1, <2>2, <2>3, <2>4 DEF TypeOK
<1>13. CASE ClearFault
  <2>1. LatchTypes'
    BY <1>13 DEF ClearFault, LatchTypes
  <2>2. ControlTypes'
    BY <1>13 DEF ClearFault, ControlTypes
  <2>3. CommandTypes'
    BY <1>13, CommandTypesKept DEF ClearFault
  <2>4. ServoTypes'
    BY <1>13, ServoTypesKept DEF ClearFault
  <2> QED
    BY <2>1, <2>2, <2>3, <2>4 DEF TypeOK
<1>14. CASE ClearReset
  <2>1. LatchTypes'
    BY <1>14, NoCauseType DEF ClearReset, LatchTypes
  <2>2. ControlTypes'
    BY <1>14 DEF ClearReset, ControlTypes
  <2>3. CommandTypes'
    BY <1>14, CommandTypesKept DEF ClearReset
  <2>4. ServoTypes'
    BY <1>14, ServoTypesKept DEF ClearReset
  <2> QED
    BY <2>1, <2>2, <2>3, <2>4 DEF TypeOK
<1>15. CASE Bump
  <2>1. LatchTypes'
    BY <1>15, LatchTypesKept DEF Bump
  <2>2. ControlTypes'
    BY <1>15 DEF Bump, ControlTypes, Bounded
  <2>3. CommandTypes'
    BY <1>15 DEF Bump, CommandTypes
  <2>4. ServoTypes'
    BY <1>15, ServoTypesKept DEF Bump
  <2> QED
    BY <2>1, <2>2, <2>3, <2>4 DEF TypeOK
<1>16. CASE NoticeRead
  <2>1. LatchTypes'
    BY <1>16, LatchTypesKept DEF NoticeRead
  <2>2. ControlTypes'
    BY <1>16 DEF NoticeRead, ControlTypes, LatchTypes, Notice, Cause
  <2>3. CommandTypes'
    BY <1>16, CommandTypesKept DEF NoticeRead
  <2>4. ServoTypes'
    BY <1>16, ServoTypesKept DEF NoticeRead
  <2> QED
    BY <2>1, <2>2, <2>3, <2>4 DEF TypeOK
<1>17. CASE NoticeSent
  <2>1. LatchTypes'
    BY <1>17, LatchTypesKept DEF NoticeSent
  <2>2. ControlTypes'
    BY <1>17 DEF NoticeSent, ControlTypes, Notice
  <2>3. CommandTypes'
    BY <1>17, CommandTypesKept DEF NoticeSent
  <2>4. ServoTypes'
    BY <1>17, ServoTypesKept DEF NoticeSent
  <2> QED
    BY <2>1, <2>2, <2>3, <2>4 DEF TypeOK
<1>18. CASE EndSession
  <2>1. LatchTypes'
    BY <1>18, LatchTypesKept DEF EndSession
  <2>2. ControlTypes'
    BY <1>18 DEF EndSession, ControlTypes
  <2>3. CommandTypes'
    BY <1>18 DEF EndSession, CommandTypes
  <2>4. ServoTypes'
    BY <1>18, ServoTypesKept DEF EndSession
  <2> QED
    BY <2>1, <2>2, <2>3, <2>4 DEF TypeOK
<1>19. CASE Send
  <2>1. LatchTypes'
    BY <1>19, LatchTypesKept DEF Send
  <2>2. ControlTypes'
    BY <1>19, ControlTypesKept DEF Send
  <2>3. CommandTypes'
    BY <1>19 DEF Send, CommandTypes, ControlTypes, Cmd
  <2>4. ServoTypes'
    BY <1>19, ServoTypesKept DEF Send
  <2> QED
    BY <2>1, <2>2, <2>3, <2>4 DEF TypeOK
<1>20. CASE RxPublish
  <2>1. LatchTypes'
    BY <1>20, LatchTypesKept DEF RxPublish
  <2>2. ControlTypes'
    BY <1>20, ControlTypesKept DEF RxPublish
  <2>3. CommandTypes'
    BY <1>20, NoCmdType DEF RxPublish, CommandTypes, Cmd
  <2>4. ServoTypes'
    BY <1>20, ServoTypesKept DEF RxPublish
  <2> QED
    BY <2>1, <2>2, <2>3, <2>4 DEF TypeOK
<1>21. CASE SampleStop
  <2>1. LatchTypes'
    BY <1>21, LatchTypesKept DEF SampleStop
  <2>2. ControlTypes'
    BY <1>21, ControlTypesKept DEF SampleStop
  <2>3. CommandTypes'
    BY <1>21, CommandTypesKept DEF SampleStop
  <2>4. ServoTypes'
    BY <1>21 DEF SampleStop, ServoTypes, ControlTypes
  <2> QED
    BY <2>1, <2>2, <2>3, <2>4 DEF TypeOK
<1>22. CASE SampleArmed
  <2>1. LatchTypes'
    BY <1>22, LatchTypesKept DEF SampleArmed
  <2>2. ControlTypes'
    BY <1>22, ControlTypesKept DEF SampleArmed
  <2>3. CommandTypes'
    BY <1>22, CommandTypesKept DEF SampleArmed
  <2>4. ServoTypes'
    BY <1>22 DEF SampleArmed, ServoTypes, ControlTypes
  <2> QED
    BY <2>1, <2>2, <2>3, <2>4 DEF TypeOK
<1>23. CASE SampleFault
  <2>1. LatchTypes'
    BY <1>23, LatchTypesKept DEF SampleFault
  <2>2. ControlTypes'
    BY <1>23, ControlTypesKept DEF SampleFault
  <2>3. CommandTypes'
    BY <1>23, CommandTypesKept DEF SampleFault
  <2>4. ServoTypes'
    BY <1>23 DEF SampleFault, ServoTypes, LatchTypes
  <2> QED
    BY <2>1, <2>2, <2>3, <2>4 DEF TypeOK
<1>24. CASE SampleGen
  <2>1. LatchTypes'
    BY <1>24, LatchTypesKept DEF SampleGen
  <2>2. ControlTypes'
    BY <1>24, ControlTypesKept DEF SampleGen
  <2>3. CommandTypes'
    BY <1>24, CommandTypesKept DEF SampleGen
  <2>4. ServoTypes'
    BY <1>24, NoCmdType DEF SampleGen, ServoTypes, ControlTypes, CommandTypes
  <2> QED
    BY <2>1, <2>2, <2>3, <2>4 DEF TypeOK
<1>25. CASE ActDisarmed
  <2>1. LatchTypes'
    BY <1>25, LatchTypesKept DEF ActDisarmed
  <2>2. ControlTypes'
    BY <1>25, ControlTypesKept DEF ActDisarmed
  <2>3. CommandTypes'
    BY <1>25, CommandTypesKept DEF ActDisarmed
  <2>4. ServoTypes'
    BY <1>25 DEF ActDisarmed, ServoTypes
  <2> QED
    BY <2>1, <2>2, <2>3, <2>4 DEF TypeOK
<1>26. CASE ActSuppressed
  <2>1. LatchTypes'
    BY <1>26, LatchTypesKept DEF ActSuppressed
  <2>2. ControlTypes'
    BY <1>26, ControlTypesKept DEF ActSuppressed
  <2>3. CommandTypes'
    BY <1>26, CommandTypesKept DEF ActSuppressed
  <2>4. ServoTypes'
    BY <1>26 DEF ActSuppressed, ServoTypes, AfterEdge
  <2> QED
    BY <2>1, <2>2, <2>3, <2>4 DEF TypeOK
<1>27. CASE ActSelect
  <2>1. LatchTypes'
    BY <1>27, LatchTypesKept DEF ActSelect
  <2>2. ControlTypes'
    BY <1>27, ControlTypesKept DEF ActSelect
  <2>3. CommandTypes'
    BY <1>27, CommandTypesKept DEF ActSelect
  <2>4. ServoTypes'
    BY <1>27 DEF ActSelect, ServoTypes, AfterEdge, Cmd
  <2> QED
    BY <2>1, <2>2, <2>3, <2>4 DEF TypeOK
<1>28. CASE ActHold
  <2>1. LatchTypes'
    BY <1>28, LatchTypesKept DEF ActHold
  <2>2. ControlTypes'
    BY <1>28, ControlTypesKept DEF ActHold
  <2>3. CommandTypes'
    BY <1>28, CommandTypesKept DEF ActHold
  <2>4. ServoTypes'
    BY <1>28, NoCmdType DEF ActHold, ServoTypes, AfterEdge
  <2> QED
    BY <2>1, <2>2, <2>3, <2>4 DEF TypeOK
<1>29. CASE WriteAccepted
  <2>1. LatchTypes'
    BY <1>29, LatchTypesKept DEF WriteAccepted
  <2>2. ControlTypes'
    BY <1>29, ControlTypesKept DEF WriteAccepted
  <2>3. CommandTypes'
    BY <1>29, CommandTypesKept DEF WriteAccepted
  <2>4. ServoTypes'
    BY <1>29 DEF WriteAccepted, ServoTypes, Cmd
  <2> QED
    BY <2>1, <2>2, <2>3, <2>4 DEF TypeOK
<1>30. CASE Publish
  <2>1. LatchTypes'
    BY <1>30, LatchTypesKept DEF Publish
  <2>2. ControlTypes'
    BY <1>30, ControlTypesKept DEF Publish
  <2>3. CommandTypes'
    BY <1>30, CommandTypesKept DEF Publish
  <2>4. ServoTypes'
    BY <1>30 DEF Publish, ServoTypes, LatchTypes, Packet
  <2> QED
    BY <2>1, <2>2, <2>3, <2>4 DEF TypeOK
<1>31. ASSUME NEW c \in wire, RxCheck(c) PROVE TypeOK'
  <2>1. LatchTypes'
    BY <1>31, LatchTypesKept DEF RxCheck
  <2>2. ControlTypes'
    BY <1>31, ControlTypesKept DEF RxCheck
  <2>3. CommandTypes'
    BY <1>31 DEF RxCheck, CommandTypes, ControlTypes, Cmd
  <2>4. ServoTypes'
    BY <1>31, ServoTypesKept DEF RxCheck
  <2> QED
    BY <2>1, <2>2, <2>3, <2>4 DEF TypeOK
<1>32. CASE SessionLost
  <2>1. LatchTypes'
    <3>1. CASE LatchBegin("control", "CTL_LOST", agen)
      BY <3>1, LatchBeginTypes DEF Threads, Codes, ControlTypes
    <3>2. CASE UNCHANGED latchVars
      BY <3>2, LatchTypesKept
    <3> QED
      BY <1>32, <3>1, <3>2 DEF SessionLost
  <2>2. ControlTypes'
    BY <1>32 DEF SessionLost, ControlTypes
  <2>3. CommandTypes'
    BY <1>32, CommandTypesKept DEF SessionLost
  <2>4. ServoTypes'
    BY <1>32, ServoTypesKept DEF SessionLost
  <2> QED
    BY <2>1, <2>2, <2>3, <2>4 DEF TypeOK
<1>33. CASE ReadFails
  <2>1. LatchTypes'
    <3>1. CASE LatchBegin("servo", "PLANT", agen)
      BY <3>1, LatchBeginTypes DEF Threads, Codes, ControlTypes
    <3>2. CASE UNCHANGED latchVars
      BY <3>2, LatchTypesKept
    <3> QED
      BY <1>33, <3>1, <3>2 DEF ReadFails
  <2>2. ControlTypes'
    BY <1>33, ControlTypesKept DEF ReadFails
  <2>3. CommandTypes'
    BY <1>33, CommandTypesKept DEF ReadFails
  <2>4. ServoTypes'
    BY <1>33 DEF ReadFails, ServoTypes
  <2> QED
    BY <2>1, <2>2, <2>3, <2>4 DEF TypeOK
<1>34. CASE ActNonFinite
  <2>1. LatchTypes'
    <3>1. LatchBegin("servo", "PLANT", s.gen)
      BY <1>34 DEF ActNonFinite
    <3>2. s.gen \in 0..MaxGen
      BY DEF ServoTypes
    <3> QED
      BY <3>1, <3>2, LatchBeginTypes DEF Threads, Codes
  <2>2. ControlTypes'
    BY <1>34, ControlTypesKept DEF ActNonFinite
  <2>3. CommandTypes'
    BY <1>34, CommandTypesKept DEF ActNonFinite
  <2>4. ServoTypes'
    BY <1>34 DEF ActNonFinite, ServoTypes, AfterEdge
  <2> QED
    BY <2>1, <2>2, <2>3, <2>4 DEF TypeOK
<1>35. CASE ActLawInvalid
  <2>1. LatchTypes'
    <3>1. LatchBegin("servo", "PLANT", s.gen)
      BY <1>35 DEF ActLawInvalid
    <3>2. s.gen \in 0..MaxGen
      BY DEF ServoTypes
    <3> QED
      BY <3>1, <3>2, LatchBeginTypes DEF Threads, Codes
  <2>2. ControlTypes'
    BY <1>35, ControlTypesKept DEF ActLawInvalid
  <2>3. CommandTypes'
    BY <1>35, CommandTypesKept DEF ActLawInvalid
  <2>4. ServoTypes'
    BY <1>35, NoCmdType DEF ActLawInvalid, ServoTypes, AfterEdge, Cmd
  <2> QED
    BY <2>1, <2>2, <2>3, <2>4 DEF TypeOK
<1>36. CASE ActCmdLost
  <2>1. LatchTypes'
    <3>1. LatchBegin("servo", "CMD_LOST", s.gen)
      BY <1>36 DEF ActCmdLost
    <3>2. s.gen \in 0..MaxGen
      BY DEF ServoTypes
    <3> QED
      BY <3>1, <3>2, LatchBeginTypes DEF Threads, Codes
  <2>2. ControlTypes'
    BY <1>36, ControlTypesKept DEF ActCmdLost
  <2>3. CommandTypes'
    BY <1>36, CommandTypesKept DEF ActCmdLost
  <2>4. ServoTypes'
    BY <1>36, NoCmdType DEF ActCmdLost, ServoTypes, AfterEdge
  <2> QED
    BY <2>1, <2>2, <2>3, <2>4 DEF TypeOK
<1>37. CASE WriteRejected
  <2>1. LatchTypes'
    <3>1. LatchBegin("servo", "PLANT", s.gen)
      BY <1>37 DEF WriteRejected
    <3>2. s.gen \in 0..MaxGen
      BY DEF ServoTypes
    <3> QED
      BY <3>1, <3>2, LatchBeginTypes DEF Threads, Codes
  <2>2. ControlTypes'
    BY <1>37, ControlTypesKept DEF WriteRejected
  <2>3. CommandTypes'
    BY <1>37, CommandTypesKept DEF WriteRejected
  <2>4. ServoTypes'
    BY <1>37 DEF WriteRejected, ServoTypes
  <2> QED
    BY <2>1, <2>2, <2>3, <2>4 DEF TypeOK
<1> QED
  BY <1>0, <1>1, <1>2, <1>3, <1>4, <1>5, <1>6, <1>7, <1>8, <1>9, <1>10, <1>11, <1>12, <1>13, <1>14, <1>15, <1>16, <1>17, <1>18, <1>19, <1>20, <1>21, <1>22, <1>23, <1>24, <1>25, <1>26, <1>27, <1>28, <1>29, <1>30, <1>31, <1>32, <1>33, <1>34, <1>35, <1>36, <1>37
  DEF Next, Tick, Serving, Requests, Latch, Threads

-----------------------------------------------------------------------------
(* The latch.  Its invariant reads only the latch's and the control        *)
(* thread's variables.                                                     *)

\* A step that touches no variable the latch's invariant reads keeps it.
LEMMA LatchInvKept ==
  LatchInv /\ UNCHANGED latchVars /\ UNCHANGED ctlVars => LatchInv'
  BY DEF LatchInv, Bounded, LatchOwned, LatchCoherent, LatchProgress,
         ControlInside, ResetProgress, NoticesTrue, NoticeHeld, Idle, latchVars, ctlVars

(* A thread enters latch() only from outside it, and only over a FREE      *)
(* word, so the fault's fields are nobody else's.                          *)
LEMMA ClaimKeeps ==
  ASSUME TypeOK, LatchInv, NEW t \in Threads, Idle(t), NEW c \in Codes,
         NEW g \in 0..MaxGen, MayFault, LatchBegin(t, c, g),
         UNCHANGED <<agen, dgen, notice, notified, delivered>>,
         \/ t = "servo" /\ UNCHANGED cpc
         \/ t = "control" /\ cpc \in {"serve", "notice"} /\ cpc' = "end"
  PROVE  LatchInv'
<1> USE DEF TypeOK, LatchTypes, LatchInv
<1>1. CASE word = "FREE"
  <2>0. /\ word' = "WRITING"
        /\ lw' = [lw EXCEPT ![t] = "fill"]
        /\ lc' = [lc EXCEPT ![t] = [code |-> c, gen |-> g]]
        /\ UNCHANGED <<fault, cause, fseq, secondary, causes>>
    BY <1>1 DEF LatchBegin
  <2>1. \A u \in Threads : lw[u] = "no"
    BY <1>1 DEF LatchOwned, Idle
  <2>2. Bounded'
    BY <2>0, <2>1 DEF Bounded, MayFault
  <2>3. LatchOwned'
    BY <1>1, <2>0, <2>1 DEF LatchOwned, Idle
  <2>4. LatchCoherent' /\ LatchProgress' /\ ControlInside' /\ ResetProgress'
    BY <2>0, <2>1 DEF LatchCoherent, LatchProgress, ControlInside, ResetProgress, Idle, Threads
  <2>5. NoticesTrue' /\ NoticeHeld'
    BY <2>0 DEF NoticesTrue, NoticeHeld
  <2> QED
    BY <2>2, <2>3, <2>4, <2>5
<1>2. CASE word # "FREE"
  <2>0. UNCHANGED <<word, fault, cause, fseq, lw, lc, causes>>
    BY <1>2 DEF LatchBegin
  <2>1. Bounded' /\ LatchOwned'
    BY <2>0 DEF Bounded, LatchOwned, Idle
  <2>2. LatchCoherent' /\ LatchProgress' /\ ControlInside' /\ ResetProgress'
    BY <2>0 DEF LatchCoherent, LatchProgress, ControlInside, ResetProgress, Idle, Threads
  <2>3. NoticesTrue' /\ NoticeHeld'
    BY <2>0 DEF NoticesTrue, NoticeHeld
  <2> QED
    BY <2>1, <2>2, <2>3
<1> QED
  BY <1>1, <1>2

(* The writer fills the fields under a serial of its own: earlier serials  *)
(* keep their causes.                                                      *)
LEMMA FillKeeps ==
  ASSUME TypeOK, LatchInv, NEW t \in Threads, LatchFill(t)
  PROVE  LatchInv'
<1> USE DEF TypeOK, LatchTypes, LatchInv
<1>0. /\ lw[t] = "fill" /\ cause' = lc[t] /\ fseq' = fseq + 1
      /\ causes' = [causes EXCEPT ![fseq + 1] = lc[t]]
      /\ lw' = [lw EXCEPT ![t] = "fault"]
      /\ UNCHANGED <<word, fault, lc>> /\ UNCHANGED ctlVars
  BY DEF LatchFill
<1>1. word = "WRITING" /\ \A u \in Threads : u # t => lw[u] = "no"
  BY <1>0 DEF LatchOwned, Idle
<1>2. fseq + 1 \in 1..MaxFault /\ causes'[fseq + 1] = lc[t]
  BY <1>0 DEF Bounded
<1>3. \A n \in 1..fseq : causes'[n] = causes[n]
  BY <1>0, <1>2
<1>4. Bounded' /\ LatchOwned'
  BY <1>0, <1>1 DEF Bounded, LatchOwned, Idle, ctlVars
<1>5. LatchCoherent' /\ ControlInside' /\ ResetProgress'
  BY <1>0, <1>1 DEF LatchCoherent, ControlInside, ResetProgress, Idle, Threads,
           ctlVars
<1>6. LatchProgress'
  BY <1>0, <1>1, <1>2 DEF LatchProgress
<1>7. NoticesTrue' /\ NoticeHeld'
  BY <1>0, <1>3 DEF NoticesTrue, NoticeHeld, ctlVars
<1> QED
  BY <1>4, <1>5, <1>6, <1>7

(* The writer raises the flag, then publishes SET, last.                   *)
LEMMA PublishKeeps ==
  ASSUME TypeOK, LatchInv, NEW t \in Threads, LatchFault(t) \/ LatchSet(t)
  PROVE  LatchInv'
<1> USE DEF TypeOK, LatchTypes, LatchInv
<1>1. word = "WRITING" /\ \A u \in Threads : u # t => lw[u] = "no"
  BY DEF LatchOwned, Idle, LatchFault, LatchSet
<1>2. CASE LatchFault(t)
  <2>1. Bounded' /\ LatchOwned'
    BY <1>1, <1>2 DEF LatchFault, Bounded, LatchOwned, Idle, ctlVars
  <2>2. LatchCoherent' /\ ControlInside' /\ ResetProgress'
    BY <1>1, <1>2 DEF LatchFault, LatchCoherent, ControlInside, ResetProgress,
           LatchOwned, Idle, Threads, ctlVars
  <2>3. LatchProgress'
    BY <1>1, <1>2 DEF LatchFault, LatchProgress
  <2>4. NoticesTrue' /\ NoticeHeld'
    BY <1>2 DEF LatchFault, NoticesTrue, NoticeHeld, ctlVars
  <2> QED
    BY <2>1, <2>2, <2>3, <2>4
<1>3. CASE LatchSet(t)
  <2>1. Bounded' /\ LatchOwned'
    BY <1>1, <1>3 DEF LatchSet, Bounded, LatchOwned, Idle, ctlVars
  <2>2. LatchCoherent' /\ ControlInside' /\ ResetProgress'
    BY <1>1, <1>3 DEF LatchSet, LatchCoherent, ControlInside, ResetProgress,
           LatchProgress, Idle, Threads, ctlVars
  <2>3. LatchProgress'
    BY <1>1, <1>3 DEF LatchSet, LatchProgress
  <2>4. NoticesTrue' /\ NoticeHeld'
    BY <1>3 DEF LatchSet, NoticesTrue, NoticeHeld, ctlVars
  <2> QED
    BY <2>1, <2>2, <2>3, <2>4
<1> QED
  BY <1>2, <1>3

(* The control thread's own operations on the latch word.                  *)
LEMMA ServingKeeps ==
  ASSUME TypeOK, LatchInv,
         \/ Accept \/ Arm \/ Prepare \/ FreeWord \/ Raise \/ Disarm
         \/ ClearClaim \/ ClearTimeout \/ ClearFault \/ ClearReset \/ Bump
         \/ NoticeRead \/ NoticeSent \/ EndSession
  PROVE  LatchInv'
<1> USE DEF TypeOK, LatchTypes, ControlTypes, LatchInv, latchVars
<1>1. CASE Accept
  <2>1. Bounded' /\ LatchOwned'
    BY <1>1 DEF Accept, Bounded, LatchOwned, Idle
  <2>2. LatchCoherent' /\ LatchProgress' /\ ControlInside' /\ ResetProgress'
    BY <1>1 DEF Accept, LatchCoherent, LatchProgress, ControlInside, ResetProgress,
           LatchOwned, Idle, Threads
  <2>3. NoticesTrue' /\ NoticeHeld'
    BY <1>1 DEF Accept, NoticesTrue, NoticeHeld
  <2> QED
    BY <2>1, <2>2, <2>3
<1>2. CASE Arm
  <2>1. Bounded' /\ LatchOwned'
    BY <1>2 DEF Arm, Bounded, LatchOwned, Idle
  <2>2. LatchCoherent' /\ LatchProgress' /\ ControlInside' /\ ResetProgress'
    BY <1>2 DEF Arm, LatchCoherent, LatchProgress, ControlInside, ResetProgress,
           LatchOwned, Idle, Threads
  <2>3. NoticesTrue' /\ NoticeHeld'
    BY <1>2 DEF Arm, NoticesTrue, NoticeHeld
  <2> QED
    BY <2>1, <2>2, <2>3
<1>3. CASE Prepare
  <2>1. Bounded' /\ LatchOwned'
    BY <1>3 DEF Prepare, Bounded, LatchOwned, Idle
  <2>2. LatchCoherent' /\ LatchProgress' /\ ControlInside' /\ ResetProgress'
    BY <1>3 DEF Prepare, LatchCoherent, LatchProgress, ControlInside, ResetProgress,
           LatchOwned, Idle, Threads
  <2>3. NoticesTrue' /\ NoticeHeld'
    BY <1>3 DEF Prepare, NoticesTrue, NoticeHeld
  <2> QED
    BY <2>1, <2>2, <2>3
<1>4. CASE FreeWord
  <2>1. Bounded' /\ LatchOwned'
    BY <1>4 DEF FreeWord, Bounded, LatchOwned, Idle
  <2>2. LatchCoherent' /\ LatchProgress' /\ ControlInside' /\ ResetProgress'
    BY <1>4 DEF FreeWord, LatchCoherent, LatchProgress, ControlInside, ResetProgress,
           LatchOwned, Idle, Threads
  <2>3. NoticesTrue' /\ NoticeHeld'
    BY <1>4 DEF FreeWord, NoticesTrue, NoticeHeld
  <2> QED
    BY <2>1, <2>2, <2>3
<1>5. CASE Raise
  <2>1. Bounded' /\ LatchOwned'
    BY <1>5 DEF Raise, Bounded, LatchOwned, Idle
  <2>2. LatchCoherent' /\ LatchProgress' /\ ControlInside' /\ ResetProgress'
    BY <1>5 DEF Raise, LatchCoherent, LatchProgress, ControlInside, ResetProgress,
           LatchOwned, Idle, Threads
  <2>3. NoticesTrue' /\ NoticeHeld'
    BY <1>5 DEF Raise, NoticesTrue, NoticeHeld
  <2> QED
    BY <2>1, <2>2, <2>3
<1>6. CASE Disarm
  <2>1. Bounded' /\ LatchOwned'
    BY <1>6 DEF Disarm, Bounded, LatchOwned, Idle
  <2>2. LatchCoherent' /\ LatchProgress' /\ ControlInside' /\ ResetProgress'
    BY <1>6 DEF Disarm, LatchCoherent, LatchProgress, ControlInside, ResetProgress,
           LatchOwned, Idle, Threads
  <2>3. NoticesTrue' /\ NoticeHeld'
    BY <1>6 DEF Disarm, NoticesTrue, NoticeHeld
  <2> QED
    BY <2>1, <2>2, <2>3
<1>7. CASE ClearClaim
  <2>1. Bounded' /\ LatchOwned'
    BY <1>7 DEF ClearClaim, Bounded, LatchOwned, Idle
  <2>2. LatchCoherent' /\ LatchProgress' /\ ControlInside' /\ ResetProgress'
    BY <1>7 DEF ClearClaim, LatchCoherent, LatchProgress, ControlInside, ResetProgress,
           LatchOwned, Idle, Threads
  <2>3. NoticesTrue' /\ NoticeHeld'
    BY <1>7 DEF ClearClaim, NoticesTrue, NoticeHeld
  <2> QED
    BY <2>1, <2>2, <2>3
<1>8. CASE ClearTimeout
  <2>1. Bounded' /\ LatchOwned'
    BY <1>8 DEF ClearTimeout, Bounded, LatchOwned, Idle
  <2>2. LatchCoherent' /\ LatchProgress' /\ ControlInside' /\ ResetProgress'
    BY <1>8 DEF ClearTimeout, LatchCoherent, LatchProgress, ControlInside, ResetProgress,
           LatchOwned, Idle, Threads
  <2>3. NoticesTrue' /\ NoticeHeld'
    BY <1>8 DEF ClearTimeout, NoticesTrue, NoticeHeld
  <2> QED
    BY <2>1, <2>2, <2>3
<1>9. CASE ClearFault
  <2>1. Bounded' /\ LatchOwned'
    BY <1>9 DEF ClearFault, Bounded, LatchOwned, Idle
  <2>2. LatchCoherent' /\ LatchProgress' /\ ControlInside' /\ ResetProgress'
    BY <1>9 DEF ClearFault, LatchCoherent, LatchProgress, ControlInside, ResetProgress,
           LatchOwned, Idle, Threads
  <2>3. NoticesTrue' /\ NoticeHeld'
    BY <1>9 DEF ClearFault, NoticesTrue, NoticeHeld
  <2> QED
    BY <2>1, <2>2, <2>3
<1>10. CASE ClearReset
  <2>1. Bounded' /\ LatchOwned'
    BY <1>10 DEF ClearReset, Bounded, LatchOwned, Idle
  <2>2. LatchCoherent' /\ LatchProgress' /\ ControlInside' /\ ResetProgress'
    BY <1>10 DEF ClearReset, LatchCoherent, LatchProgress, ControlInside, ResetProgress,
           LatchOwned, Idle, Threads
  <2>3. NoticesTrue' /\ NoticeHeld'
    BY <1>10 DEF ClearReset, NoticesTrue, NoticeHeld
  <2> QED
    BY <2>1, <2>2, <2>3
<1>11. CASE Bump
  <2>1. Bounded' /\ LatchOwned'
    BY <1>11 DEF Bump, Bounded, LatchOwned, Idle
  <2>2. LatchCoherent' /\ LatchProgress' /\ ControlInside' /\ ResetProgress'
    BY <1>11 DEF Bump, LatchCoherent, LatchProgress, ControlInside, ResetProgress,
           LatchOwned, Idle, Threads
  <2>3. NoticesTrue' /\ NoticeHeld'
    BY <1>11 DEF Bump, NoticesTrue, NoticeHeld
  <2> QED
    BY <2>1, <2>2, <2>3
<1>12. CASE NoticeRead
  <2>1. Bounded' /\ LatchOwned'
    BY <1>12 DEF NoticeRead, Bounded, LatchOwned, Idle
  <2>2. LatchCoherent' /\ LatchProgress' /\ ControlInside' /\ ResetProgress'
    BY <1>12 DEF NoticeRead, LatchCoherent, LatchProgress, ControlInside, ResetProgress,
           LatchOwned, Idle, Threads
  <2>3. NoticesTrue' /\ NoticeHeld'
    BY <1>12 DEF NoticeRead, NoticesTrue, NoticeHeld, LatchCoherent
  <2> QED
    BY <2>1, <2>2, <2>3
<1>13. CASE NoticeSent
  <2>1. Bounded' /\ LatchOwned'
    BY <1>13 DEF NoticeSent, Bounded, LatchOwned, Idle
  <2>2. LatchCoherent' /\ LatchProgress' /\ ControlInside' /\ ResetProgress'
    BY <1>13 DEF NoticeSent, LatchCoherent, LatchProgress, ControlInside, ResetProgress,
           LatchOwned, Idle, Threads
  <2>3. NoticesTrue' /\ NoticeHeld'
    BY <1>13 DEF NoticeSent, NoticesTrue, NoticeHeld
  <2> QED
    BY <2>1, <2>2, <2>3
<1>14. CASE EndSession
  <2>1. Bounded' /\ LatchOwned'
    BY <1>14 DEF EndSession, Bounded, LatchOwned, Idle
  <2>2. LatchCoherent' /\ LatchProgress' /\ ControlInside' /\ ResetProgress'
    BY <1>14 DEF EndSession, LatchCoherent, LatchProgress, ControlInside, ResetProgress,
           LatchOwned, Idle, Threads
  <2>3. NoticesTrue' /\ NoticeHeld'
    BY <1>14 DEF EndSession, NoticesTrue, NoticeHeld
  <2> QED
    BY <2>1, <2>2, <2>3
<1> QED
  BY <1>1, <1>2, <1>3, <1>4, <1>5, <1>6, <1>7, <1>8, <1>9, <1>10, <1>11, <1>12, <1>13, <1>14

(* Every action keeps the latch's invariant.                               *)
LEMMA LatchStep ==
  ASSUME IInv, [Next]_vars
  PROVE  LatchInv'
<1> USE DEF IInv
<1>0. agen \in 0..MaxGen /\ s.gen \in 0..MaxGen
  BY DEF TypeOK, ControlTypes, ServoTypes
<1>1. CASE UNCHANGED latchVars /\ UNCHANGED ctlVars
  BY <1>1, LatchInvKept
<1>2. ASSUME NEW t \in Threads, Latch(t) PROVE LatchInv'
  BY <1>2, FillKeeps, PublishKeeps DEF Latch
<1>3. CASE \/ Accept \/ Arm \/ Prepare \/ FreeWord \/ Raise \/ Disarm
           \/ ClearClaim \/ ClearTimeout \/ ClearFault \/ ClearReset \/ Bump
           \/ NoticeRead \/ NoticeSent \/ EndSession
  BY <1>3, ServingKeeps
<1>4. CASE SessionLost
  <2>1. CASE armed
    <3>1. LatchBegin("control", "CTL_LOST", agen) /\ MayFault
      BY <1>4, <2>1 DEF SessionLost
    <3>2. Idle("control")
      BY <1>4 DEF SessionLost, LatchInv, ControlInside
    <3> QED
      BY <1>0, <1>4, <3>1, <3>2, ClaimKeeps DEF SessionLost, Threads, Codes
  <2>2. CASE ~armed
    BY <1>4, <2>2
    DEF SessionLost, LatchInv, Bounded, LatchOwned, LatchCoherent, LatchProgress,
        ControlInside, ResetProgress, NoticesTrue, NoticeHeld, Idle, latchVars
  <2> QED
    BY <2>1, <2>2
<1>5. CASE ReadFails
  <2>1. CASE armed
    <3>1. LatchBegin("servo", "PLANT", agen) /\ MayFault /\ Idle("servo")
      BY <1>5, <2>1 DEF ReadFails, ServoAt
    <3> QED
      BY <1>0, <1>5, <3>1, ClaimKeeps DEF ReadFails, Threads, Codes, ctlVars
  <2>2. CASE ~armed
    BY <1>5, <2>2, LatchInvKept DEF ReadFails
  <2> QED
    BY <2>1, <2>2
<1>6. CASE ActNonFinite \/ ActLawInvalid \/ ActCmdLost \/ WriteRejected
  <2>1. PICK c \in Codes : LatchBegin("servo", c, s.gen)
    BY <1>6 DEF ActNonFinite, ActLawInvalid, ActCmdLost, WriteRejected, Codes
  <2>2. MayFault /\ Idle("servo") /\ UNCHANGED ctlVars
    BY <1>6 DEF ActNonFinite, ActLawInvalid, ActCmdLost, WriteRejected, ServoAt
  <2> QED
    BY <1>0, <2>1, <2>2, ClaimKeeps DEF Threads, ctlVars
<1>7. CASE UNCHANGED vars
  BY <1>1, <1>7 DEF vars
<1>8. CASE \/ SampleStop \/ SampleArmed \/ SampleFault \/ SampleGen \/ ActDisarmed
           \/ ActSuppressed \/ ActSelect \/ ActHold \/ WriteAccepted \/ Publish
  BY <1>1, <1>8
  DEF SampleStop, SampleArmed, SampleFault, SampleGen, ActDisarmed, ActSuppressed,
      ActSelect, ActHold, WriteAccepted, Publish
<1>9. CASE \/ ArmAgain \/ Send \/ RxPublish \/ \E c \in wire : RxCheck(c)
  BY <1>1, <1>9 DEF ArmAgain, Send, RxPublish, RxCheck
<1> QED
  BY <1>2, <1>3, <1>4, <1>5, <1>6, <1>7, <1>8, <1>9
  DEF Next, Tick, Serving, Requests, Threads

-----------------------------------------------------------------------------
\* A server that has just started satisfies the inductive invariant.
LEMMA InitIInv == Init => IInv
<1> SUFFICES ASSUME Init PROVE IInv
  OBVIOUS
<1>0. /\ 0 \in 0..MaxGen /\ 0 \in 0..MaxDisarm /\ 0 \in 0..MaxSession
      /\ 0 \in 0..MaxSeq /\ 0 \in 0..MaxFault
  OBVIOUS
<1>1. LatchTypes
  BY <1>0, NoCauseType, Zenon DEF Init, LatchTypes
<1>2. ControlTypes
  <2>1. notice \in Notice
    BY <1>0 DEF Init, Notice
  <2> QED
    BY <1>0, <2>1, Zenon DEF Init, ControlTypes
<1>3. CommandTypes
  BY NoCmdType DEF Init, CommandTypes
<1>4. ServoTypes
  <2>1. s \in [stop : 0..MaxDisarm, armed : BOOLEAN, faulted : BOOLEAN,
              gen : 0..MaxGen, cmd : Cmd]
    BY <1>0, NoCmdType, Zenon DEF Init
  <2>2. out \in Packet
    BY <1>0, Zenon DEF Init, Packet
  <2> QED
    BY <1>0, <2>1, <2>2, Zenon DEF Init, ServoTypes
<1>5. LatchInv
  BY DEF Init, LatchInv, Bounded, LatchOwned, LatchCoherent, LatchProgress,
         ControlInside, ResetProgress, NoticesTrue, NoticeHeld, Idle, Threads
<1> QED
  BY <1>1, <1>2, <1>3, <1>4, <1>5 DEF IInv, TypeOK

(* The invariant is inductive.                                             *)
THEOREM RtServerInvariant == Spec => []IInv
<1>1. IInv /\ [Next]_vars => IInv'
  BY TypesStep, LatchStep DEF IInv
<1> QED
  BY InitIInv, <1>1, PTL DEF Spec

(* Every variable keeps its type, whatever the bounds.                     *)
THEOREM RtServerTypes == Spec => []TypeOK
<1>1. IInv => TypeOK
  BY DEF IInv
<1> QED
  BY <1>1, RtServerInvariant, PTL

(* The latch word always names its one owner.                              *)
THEOREM RtLatchOwned == Spec => []LatchOwned
<1>1. IInv => LatchOwned
  BY DEF IInv, LatchInv
<1> QED
  BY <1>1, RtServerInvariant, PTL

(* First cause wins, and no ARM is prepared over a latched fault.          *)
THEOREM RtLatchCoherent == Spec => []LatchCoherent
<1>1. IInv => LatchCoherent
  BY DEF IInv, LatchInv
<1> QED
  BY <1>1, RtServerInvariant, PTL

(* Every fault notice the client receives names the cause latched under    *)
(* its serial.                                                             *)
THEOREM RtNoticesTrue == Spec => []NoticesTrue
<1>1. IInv => NoticesTrue
  BY DEF IInv, LatchInv
<1> QED
  BY <1>1, RtServerInvariant, PTL

-----------------------------------------------------------------------------
(* Commands, torque sessions and rejected writes.                          *)

(* A command keeps the generation it was checked in, which is the one it   *)
(* was sent for, in udp_rx's hand, in the mailbox and in the servo's       *)
(* sample; the servo samples only commands of the generation it samples.   *)
CommandInv ==
  /\ hand.epoch = hand.gen
  /\ cmdIn.epoch = cmdIn.gen
  /\ s.cmd.epoch = s.cmd.gen
  /\ s.cmd # NoCmd => s.cmd.gen = s.gen
  /\ CommandsScoped

(* Until it acts, a tick whose predecessor ran disarmed finds the session  *)
(* stopped; only an armed tick that has taken the generation edge writes;  *)
(* a disarmed tick publishes with the session stopped.                     *)
BeforeAct == {"read", "armed", "fault", "gen", "act"}

SessionInv ==
  /\ out.armed = prevArmed
  /\ spc \in BeforeAct /\ ~prevArmed => open = 0
  /\ spc = "write" => s.armed /\ seen = s.gen
  /\ spc = "publish" /\ ~s.armed => open = 0
  /\ open # 0 => open = seen

-----------------------------------------------------------------------------
(* Commands.                                                               *)

\* Every action keeps the commands in their generation.
LEMMA CommandStep ==
  ASSUME TypeOK, CommandInv, [Next]_vars
  PROVE  CommandInv'
<1> USE DEF TypeOK, CommandTypes, ServoTypes, ControlTypes
<1>1. CASE UNCHANGED <<hand, cmdIn, s, accepted>>
  BY <1>1 DEF CommandInv, CommandsScoped
<1>2. ASSUME NEW c \in wire, RxCheck(c) PROVE CommandInv'
  <2>1. hand'.epoch = hand'.gen
    BY <1>2 DEF RxCheck, Cmd
  <2> QED
    BY <1>2, <2>1 DEF RxCheck, CommandInv, CommandsScoped, servoVars
<1>3. CASE RxPublish
  BY <1>3 DEF RxPublish, CommandInv, CommandsScoped, servoVars, NoCmd
<1>4. CASE SampleStop \/ SampleArmed \/ SampleFault
  <2>1. s'.cmd = s.cmd /\ s'.gen = s.gen
    BY <1>4 DEF SampleStop, SampleArmed, SampleFault
  <2>2. UNCHANGED <<hand, cmdIn, accepted>>
    BY <1>4 DEF SampleStop, SampleArmed, SampleFault, cmdVars
  <2> QED
    BY <2>1, <2>2 DEF CommandInv, CommandsScoped
<1>5. CASE SampleGen
  <2>1. /\ s'.gen = agen
        /\ s'.cmd = IF cmdIn.gen = agen THEN cmdIn ELSE NoCmd
        /\ UNCHANGED <<hand, cmdIn, accepted>>
    BY <1>5 DEF SampleGen, cmdVars
  <2> QED
    BY <2>1 DEF CommandInv, CommandsScoped, NoCmd
<1>6. CASE ActLawInvalid \/ ActHold \/ ActCmdLost
  <2>1. s'.cmd = NoCmd /\ s'.gen = s.gen
    BY <1>6 DEF ActLawInvalid, ActHold, ActCmdLost
  <2>2. UNCHANGED <<hand, cmdIn, accepted>>
    BY <1>6 DEF ActLawInvalid, ActHold, ActCmdLost, cmdVars
  <2> QED
    BY <2>1, <2>2 DEF CommandInv, CommandsScoped, NoCmd
<1>7. CASE WriteAccepted
  <2>1. UNCHANGED <<hand, cmdIn, s>>
    BY <1>7 DEF WriteAccepted, cmdVars
  <2>2. CASE s.cmd = NoCmd
    BY <1>7, <2>1, <2>2 DEF WriteAccepted, CommandInv, CommandsScoped
  <2>3. CASE s.cmd # NoCmd
    <3>1. accepted' = accepted \cup {[s.cmd EXCEPT !.gen = s.gen]}
      BY <1>7, <2>3 DEF WriteAccepted
    <3>2. [s.cmd EXCEPT !.gen = s.gen].epoch = [s.cmd EXCEPT !.gen = s.gen].gen
      BY <2>3 DEF CommandInv, Cmd
    <3> QED
      BY <2>1, <3>1, <3>2 DEF CommandInv, CommandsScoped
  <2> QED
    BY <2>2, <2>3
<1>8. CASE \/ ReadFails \/ ActDisarmed \/ ActSuppressed \/ ActNonFinite \/ ActSelect
           \/ WriteRejected \/ Publish
  BY <1>1, <1>8 DEF ReadFails, ActDisarmed, ActSuppressed, ActNonFinite, ActSelect,
                    WriteRejected, Publish, cmdVars
<1>9. CASE Serving \/ Latch("servo")
  BY <1>1, <1>9
  DEF Serving, Prepare, FreeWord, Raise, ClearClaim, ClearTimeout, ClearFault,
      ClearReset, Bump, NoticeRead, NoticeSent, EndSession, Latch, LatchFill,
      LatchFault, LatchSet, cmdVars, servoVars
<1>10. CASE Accept \/ Arm \/ ArmAgain \/ Disarm \/ SessionLost \/ Send
  BY <1>1, <1>10 DEF Accept, Arm, ArmAgain, Disarm, SessionLost, Send, cmdVars, servoVars
<1>11. CASE UNCHANGED vars
  BY <1>1, <1>11 DEF vars, cmdVars, servoVars
<1> QED
  BY <1>2, <1>3, <1>4, <1>5, <1>6, <1>7, <1>8, <1>9, <1>10, <1>11
  DEF Next, Tick, Requests

(* No command moves the robot under another ARM generation than the one it *)
(* was sent for, for any number of commands, generations and sessions.     *)
THEOREM RtCommandsScoped == Spec => []CommandsScoped
<1>1. Init => CommandInv
  BY DEF Init, CommandInv, CommandsScoped, NoCmd
<1>2. TypeOK /\ CommandInv /\ [Next]_vars => CommandInv'
  BY CommandStep
<1>3. CommandInv => CommandsScoped
  BY DEF CommandInv
<1> QED
  BY <1>1, <1>2, <1>3, RtServerTypes, PTL DEF Spec

-----------------------------------------------------------------------------
(* Sessions.                                                               *)

\* A step of another thread leaves the session's invariant alone.
LEMMA SessionKept ==
  SessionInv /\ UNCHANGED <<out, prevArmed, spc, s, seen, open>> => SessionInv'
  BY DEF SessionInv

\* An action of an armed tick before its write: the generation edge has
\* stopped what a DISARM that was never sampled left open.
LEMMA EdgeKeeps ==
  ASSUME TypeOK, SessionInv, spc = "act", s.armed, AfterEdge,
         s'.armed = s.armed, s'.gen = s.gen, spc' \in {"write", "publish"},
         UNCHANGED <<out, prevArmed>>
  PROVE  SessionInv'
<1>1. open' # 0 => open' = seen'
  <2>1. CASE Edge /\ ~prevArmed
    BY <2>1 DEF AfterEdge, SessionInv, BeforeAct
  <2>2. CASE ~Edge
    BY <2>2 DEF AfterEdge, Edge, SessionInv
  <2>3. CASE Edge /\ prevArmed
    BY <2>3 DEF AfterEdge
  <2> QED
    BY <2>1, <2>2, <2>3 DEF TypeOK, ServoTypes
<1> QED
  BY <1>1 DEF AfterEdge, SessionInv, BeforeAct

\* Every action keeps the session in its generation.
LEMMA SessionStep ==
  ASSUME TypeOK, SessionInv, [Next]_vars
  PROVE  SessionInv'
<1> USE DEF TypeOK, ServoTypes
<1>1. CASE SampleStop \/ SampleArmed \/ SampleFault \/ SampleGen
  BY <1>1 DEF SampleStop, SampleArmed, SampleFault, SampleGen, ServoAt, SessionInv, BeforeAct
<1>2. CASE ActDisarmed
  BY <1>2 DEF ActDisarmed, ServoAt, SessionInv, BeforeAct
<1>3. CASE ActSuppressed \/ ActNonFinite \/ ActSelect
  BY <1>3, EdgeKeeps DEF ActSuppressed, ActNonFinite, ActSelect, ServoAt
<1>4. CASE ActLawInvalid \/ ActHold \/ ActCmdLost
  BY <1>4, EdgeKeeps DEF ActLawInvalid, ActHold, ActCmdLost, ServoAt
<1>5. CASE WriteAccepted \/ WriteRejected
  BY <1>5 DEF WriteAccepted, WriteRejected, ServoAt, SessionInv, BeforeAct
<1>6. CASE Publish
  BY <1>6 DEF Publish, ServoAt, SessionInv, BeforeAct
<1>7. CASE ReadFails
  BY <1>7, SessionKept DEF ReadFails
<1>8. CASE Serving \/ Latch("servo")
  BY <1>8, SessionKept
  DEF Serving, Prepare, FreeWord, Raise, ClearClaim, ClearTimeout, ClearFault,
      ClearReset, Bump, NoticeRead, NoticeSent, EndSession, Latch, LatchFill,
      LatchFault, LatchSet, servoVars
<1>9. CASE Requests \/ RxPublish
  BY <1>9, SessionKept DEF Requests, Accept, Arm, ArmAgain, Disarm, SessionLost, Send,
                           RxCheck, RxPublish, servoVars
<1>10. CASE UNCHANGED vars
  BY <1>10, SessionKept DEF vars, servoVars
<1> QED
  BY <1>1, <1>2, <1>3, <1>4, <1>5, <1>6, <1>7, <1>8, <1>9, <1>10 DEF Next, Tick

(* A plant torque session never outlives its ARM generation, and a packet  *)
(* that says disarmed is sent with the session stopped, even when a DISARM *)
(* and the next ARM fall between two samples of the servo.                 *)
THEOREM RtPlantSessionScoped == Spec => []PlantSessionScoped
<1>1. ASSUME Init PROVE SessionInv
  <2>1. open = 0 /\ spc = "read"
    BY <1>1, Zenon DEF Init
  <2>2. out.armed = prevArmed
    BY <1>1, Zenon DEF Init
  <2> QED
    BY <2>1, <2>2 DEF SessionInv
<1>2. TypeOK /\ SessionInv /\ [Next]_vars => SessionInv'
  BY SessionStep
<1>3. SessionInv => PlantSessionScoped
  BY DEF SessionInv, PlantSessionScoped, BeforeAct
<1> QED
  BY <1>1, <1>2, <1>3, RtServerTypes, PTL DEF Spec

-----------------------------------------------------------------------------
(* Rejected writes.                                                        *)

(* A DISARM's number reaches the servo's sample, then stop_epoch, then the *)
(* packet; the generation reaches the sample, then seen_gen.               *)
Handed ==
  /\ out.stop <= stopEpoch /\ stopEpoch <= s.stop /\ s.stop <= dgen
  /\ seen <= agen /\ s.gen <= agen

(* Authority is down from the DISARM on, and until the ARM is complete.    *)
Preparing == {"prepare", "free", "raise"}
Disarming == {"clear", "clearing", "reset", "bump"}
Down == cpc \in Preparing \cup Disarming => ~armed

(* Once a DISARM is numbered, a tick that has sampled its number samples   *)
(* no authority; so a client that waits for the number finds no armed tick *)
(* under way.                                                              *)
Sampled == spc \in {"fault", "gen", "act", "write", "publish"}
Quiet ==
  /\ ~armed /\ cpc \notin Disarming /\ Sampled /\ s.stop = dgen => ~s.armed
  /\ cpc \in Preparing /\ Sampled => ~s.armed

(* A servo that gave up in the present generation has its fault latched,   *)
(* or a DISARM has taken the authority from it.                            *)
GaveUp ==
  plant = "rejected" /\ seen = agen =>
    word \in {"WRITING", "SET"} \/ (~armed /\ cpc \notin {"free", "raise"})

StopInv == Handed /\ Down /\ Quiet /\ GaveUp

\* What latch() does to the word: FREE becomes WRITING, nothing else changes.
LEMMA ClaimsWord ==
  ASSUME NEW t, NEW c, NEW g, LatchBegin(t, c, g)
  PROVE  word' = IF word = "FREE" THEN "WRITING" ELSE word
  BY DEF LatchBegin

\* A step of the control thread.
LEMMA StopServing ==
  ASSUME ConfirmedStop, TypeOK, LatchInv, StopInv,
         \/ Accept \/ Arm \/ Prepare \/ FreeWord \/ Raise \/ Disarm
         \/ ClearClaim \/ ClearTimeout \/ ClearFault \/ ClearReset \/ Bump
         \/ NoticeRead \/ NoticeSent \/ EndSession \/ SessionLost
  PROVE  StopInv'
<1> USE DEF TypeOK, ControlTypes, ServoTypes, StopInv, latchVars, servoVars
<1>1. CASE Accept \/ ClearTimeout \/ ClearFault \/ NoticeRead \/ NoticeSent \/ EndSession
  BY <1>1 DEF Accept, ClearTimeout, ClearFault, NoticeRead, NoticeSent, EndSession,
              Handed, Down, Quiet, GaveUp, Sampled, Preparing, Disarming
<1>2. CASE Arm
  <2>1. ~armed
    BY <1>2 DEF Arm, LatchInv, LatchCoherent
  <2>2. s.stop = dgen
    BY <1>2 DEF Arm, Handed, Packet
  <2> QED
    BY <1>2, <2>1, <2>2 DEF Arm, Handed, Down, Quiet, GaveUp, Sampled, Preparing, Disarming
<1>3. CASE Prepare
  BY <1>3 DEF Prepare, Handed, Down, Quiet, GaveUp, Sampled, Preparing, Disarming
<1>4. CASE FreeWord
  BY <1>4 DEF FreeWord, LatchInv, LatchOwned, Handed, Down, Quiet, GaveUp, Sampled,
              Preparing, Disarming
<1>5. CASE Raise
  BY <1>5 DEF Raise, Handed, Down, Quiet, GaveUp, Sampled, Preparing, Disarming
<1>6. CASE Disarm
  BY <1>6 DEF Disarm, Handed, Down, Quiet, GaveUp, Sampled, Preparing, Disarming
<1>7. CASE ClearClaim \/ ClearReset
  BY <1>7 DEF ClearClaim, ClearReset, Handed, Down, Quiet, GaveUp, Sampled,
              Preparing, Disarming
<1>8. CASE Bump
  BY <1>8 DEF Bump, Handed, Down, Quiet, GaveUp, Sampled, Preparing, Disarming
<1>9. CASE SessionLost
  <2>1. word' \in {word, "WRITING"}
    BY <1>9, ClaimsWord DEF SessionLost
  <2> QED
    BY <1>9, <2>1 DEF SessionLost, Handed, Down, Quiet, GaveUp, Sampled, Preparing, Disarming
<1> QED
  BY <1>1, <1>2, <1>3, <1>4, <1>5, <1>6, <1>7, <1>8, <1>9

\* A step of the servo.
LEMMA StopTick ==
  ASSUME TypeOK, LatchInv, SessionInv, StopInv, Tick \/ Publish
  PROVE  StopInv'
<1> USE DEF TypeOK, ControlTypes, ServoTypes, StopInv, latchVars, ctlVars, servoVars
<1>1. CASE ReadFails
  <2>1. word' \in {word, "WRITING"}
    BY <1>1, ClaimsWord DEF ReadFails
  <2> QED
    BY <1>1, <2>1 DEF ReadFails, Handed, Down, Quiet, GaveUp, Sampled
<1>2. CASE SampleStop
  BY <1>2 DEF SampleStop, Handed, Down, Quiet, GaveUp, Sampled, Packet
<1>3. CASE SampleArmed
  BY <1>3 DEF SampleArmed, ServoAt, Handed, Down, Quiet, GaveUp, Sampled
<1>4. CASE SampleFault \/ SampleGen
  <2>1. s'.stop = s.stop /\ s'.armed = s.armed /\ s'.gen \in {s.gen, agen}
    BY <1>4 DEF SampleFault, SampleGen
  <2> QED
    BY <1>4, <2>1 DEF SampleFault, SampleGen, ServoAt, Handed, Down, Quiet, GaveUp, Sampled
<1>5. CASE ActDisarmed
  BY <1>5 DEF ActDisarmed, ServoAt, PlantOk, Edge, Handed, Down, Quiet, GaveUp, Sampled,
              Packet
<1>6. CASE ActSuppressed
  BY <1>6 DEF ActSuppressed, ServoAt, AfterEdge, PlantOk, Edge, Handed, Down, Quiet,
              GaveUp, Sampled
<1>7. CASE ActSelect \/ ActHold
  BY <1>7 DEF ActSelect, ActHold, ServoAt, AfterEdge, Handed, Down, Quiet, GaveUp, Sampled
<1>8. CASE ActLawInvalid \/ ActCmdLost
  BY <1>8 DEF ActLawInvalid, ActCmdLost, ServoAt, AfterEdge, Handed, Down, Quiet, GaveUp,
              Sampled
<1>9. CASE ActNonFinite \/ WriteRejected
  <2>1. s.armed /\ Sampled
    BY <1>9 DEF ActNonFinite, WriteRejected, ServoAt, SessionInv, Sampled
  <2>2. word' = IF word = "FREE" THEN "WRITING" ELSE word
    BY <1>9, ClaimsWord DEF ActNonFinite, WriteRejected
  <2>3. cpc \notin Preparing
    BY <2>1 DEF Quiet
  <2>4. word \in {"FREE", "WRITING", "SET"} \/ (word = "CLEARING" /\ ~armed)
    BY <2>3 DEF LatchTypes, LatchInv, LatchOwned, Down, Preparing, Disarming
  <2>5. UNCHANGED ctlVars
    BY <1>9 DEF ActNonFinite, WriteRejected
  <2>6. GaveUp'
    BY <2>2, <2>3, <2>4, <2>5 DEF GaveUp, Preparing
  <2>7. Handed' /\ Down' /\ Quiet'
    BY <1>9, <2>5 DEF ActNonFinite, WriteRejected, ServoAt, AfterEdge, Handed, Down, Quiet,
                      Sampled
  <2> QED
    BY <2>6, <2>7
<1>10. CASE WriteAccepted
  BY <1>10 DEF WriteAccepted, ServoAt, Handed, Down, Quiet, GaveUp, Sampled
<1>11. CASE Latch("servo")
  BY <1>11 DEF Latch, LatchFill, LatchFault, LatchSet, Handed, Down, Quiet, GaveUp, Sampled
<1>12. CASE Publish
  BY <1>12 DEF Publish, ServoAt, Handed, Down, Quiet, GaveUp, Sampled
<1> QED
  BY <1>1, <1>2, <1>3, <1>4, <1>5, <1>6, <1>7, <1>8, <1>9, <1>10, <1>11, <1>12 DEF Tick

(* Where clients wait for the stream to confirm their DISARM before they   *)
(* arm again, as the supervisor does, a servo that gave up writing over a  *)
(* rejected write has a fault latched or being latched, for any number of  *)
(* generations, sessions and faults.                                       *)
THEOREM RtRejectedWriteLatched ==
  ASSUME ConfirmedStop
  PROVE  Spec => []RejectedWriteLatched
<1>1. Init => SessionInv /\ StopInv
  <2> SUFFICES ASSUME Init PROVE SessionInv /\ StopInv
    OBVIOUS
  <2>1. /\ open = 0 /\ spc = "read" /\ plant = "ok" /\ cpc = "accept" /\ armed = FALSE
        /\ stopEpoch = 0 /\ dgen = 0 /\ seen = 0 /\ agen = 0
    BY Zenon DEF Init
  <2>2. out.armed = prevArmed /\ out.stop = 0 /\ s.stop = 0 /\ s.gen = 0
    BY Zenon DEF Init
  <2> QED
    BY <2>1, <2>2 DEF SessionInv, StopInv, Handed, Down, Quiet, GaveUp, Sampled, Preparing,
                      Disarming
<1>2. ASSUME IInv, SessionInv, StopInv, [Next]_vars PROVE SessionInv' /\ StopInv'
  <2>0. SessionInv'
    BY <1>2, SessionStep DEF IInv
  <2>1. CASE Tick \/ Publish
    BY <1>2, <2>0, <2>1, StopTick DEF IInv
  <2>2. CASE \/ Accept \/ Arm \/ Prepare \/ FreeWord \/ Raise \/ Disarm
             \/ ClearClaim \/ ClearTimeout \/ ClearFault \/ ClearReset \/ Bump
             \/ NoticeRead \/ NoticeSent \/ EndSession \/ SessionLost
    BY <1>2, <2>0, <2>2, StopServing DEF IInv
  <2>3. CASE Latch("control")
    BY <1>2, <2>0, <2>3 DEF Latch, LatchFill, LatchFault, LatchSet, ctlVars, servoVars, StopInv,
                      Handed, Down, Quiet, GaveUp, Sampled
  <2>4. CASE ArmAgain \/ Send \/ RxPublish \/ (\E c \in wire : RxCheck(c)) \/ UNCHANGED vars
    BY <1>2, <2>0, <2>4 DEF ArmAgain, Send, RxPublish, RxCheck, vars, latchVars, ctlVars, servoVars,
                      StopInv, Handed, Down, Quiet, GaveUp, Sampled
  <2> QED
    BY <1>2, <2>0, <2>1, <2>2, <2>3, <2>4 DEF Next, Serving, Requests
<1>3. StopInv => RejectedWriteLatched
  BY DEF StopInv, GaveUp, RejectedWriteLatched
<1> QED
  BY <1>1, <1>2, <1>3, RtServerInvariant, PTL DEF Spec
=============================================================================
