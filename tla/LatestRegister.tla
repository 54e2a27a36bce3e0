--------------------------- MODULE LatestRegister ----------------------------
(***************************************************************************)
(* What a mailbox promises its reader: a register of numbered values, read *)
(* in two events.  A read returns a value that was the newest at some      *)
(* moment between the two, and never one older than the read before it.    *)
(***************************************************************************)
EXTENDS Naturals

VARIABLES
  newest,  \* the newest value published
  asked,   \* whether a read is in progress
  floor,   \* the newest value when it began
  got      \* what the last finished read returned

vars == <<newest, asked, floor, got>>

Init == newest = 0 /\ asked = FALSE /\ floor = 0 /\ got = 0

Put ==
  /\ newest' = newest + 1
  /\ UNCHANGED <<asked, floor, got>>

Ask ==
  /\ ~asked
  /\ asked' = TRUE
  /\ floor' = newest
  /\ UNCHANGED <<newest, got>>

Get ==
  /\ asked
  /\ asked' = FALSE
  /\ got' \in floor..newest
  /\ got' >= got
  /\ UNCHANGED <<newest, floor>>

Next == Put \/ Ask \/ Get

Spec == Init /\ [][Next]_vars
=============================================================================
