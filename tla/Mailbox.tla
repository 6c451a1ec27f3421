------------------------------ MODULE Mailbox ------------------------------
(***************************************************************************)
(* What inject_event promises to its callers: the messages that are        *)
(* accepted reach the conversation once each and in the order they came,   *)
(* and only a restart of the process loses those still on the way.         *)
(***************************************************************************)
EXTENDS Sequences

CONSTANT Letter

VARIABLES
  way, \* accepted, not yet in the conversation
  got  \* in the conversation

Init == way = <<>> /\ got = <<>>

Post == \E m \in Letter : way' = Append(way, m) /\ UNCHANGED got

Deliver ==
  /\ way # <<>>
  /\ got' = Append(got, Head(way))
  /\ way' = Tail(way)

Lose == way' = <<>> /\ UNCHANGED got

Spec == Init /\ [][Post \/ Deliver \/ Lose]_<<way, got>>
=============================================================================
