--------------------------- MODULE BoundedChannel ---------------------------
(***************************************************************************)
(* What the shared message area promises to its two sides, without its     *)
(* indices: inside one session the user program obtains the messages the   *)
(* kernel module has sent, each once, in the order in which they were sent,*)
(* and at most Capacity of them are on their way.  A message may be refused*)
(* when the channel has no room (that is a step of the sender which leaves *)
(* sent alone); starting a session empties the channel.                    *)
(***************************************************************************)
EXTENDS Naturals, Sequences

CONSTANTS
  Capacity,  \* messages on their way, the one being copied out included (> 0)
  Message    \* the messages

VARIABLES
  sent,      \* messages accepted in this session, oldest first
  got        \* messages the user program has obtained in this session

vars == <<sent, got>>

Init == sent = <<>> /\ got = <<>>

Put(m) ==
  /\ Len(sent) - Len(got) < Capacity
  /\ sent' = Append(sent, m)
  /\ UNCHANGED got

Get ==
  /\ Len(got) < Len(sent)
  /\ got' = Append(got, sent[Len(got) + 1])
  /\ UNCHANGED sent

Reset == sent' = <<>> /\ got' = <<>>

Next == (\E m \in Message : Put(m)) \/ Get \/ Reset

Spec == Init /\ [][Next]_vars
=============================================================================
