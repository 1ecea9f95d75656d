-------------------------------- MODULE Fifo --------------------------------
(***************************************************************************)
(* What a message channel promises its two ends: the messages accepted     *)
(* from the senders are delivered whole, once each and in the order in     *)
(* which they were accepted.  Delivery may stop for good at any point (the *)
(* connection may be lost), but what was delivered is never wrong.         *)
(***************************************************************************)
EXTENDS Sequences, Naturals

CONSTANT Messages

VARIABLES
  accepted,   \* messages in the order in which the channel took them
  delivered   \* messages in the order in which it handed them out

Init == accepted = <<>> /\ delivered = <<>>

Accept ==
  /\ \E m \in Messages : accepted' = Append(accepted, m)
  /\ UNCHANGED delivered

Deliver ==
  /\ Len(delivered) < Len(accepted)
  /\ delivered' = Append(delivered, accepted[Len(delivered) + 1])
  /\ UNCHANGED accepted

Next == Accept \/ Deliver

Spec == Init /\ [][Next]_<<accepted, delivered>>
=============================================================================
