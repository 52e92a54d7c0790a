---------------------------- MODULE FrameChannel ----------------------------
(***************************************************************************)
(* What framing promises: the frames one side sends are handed to the      *)
(* other side whole, once, and in the order they were sent.                *)
(***************************************************************************)
EXTENDS Naturals, Sequences

CONSTANT Frames

VARIABLES sent, got

vars == <<sent, got>>

Init == sent = <<>> /\ got = <<>>

Send(f) ==
    /\ sent' = Append(sent, f)
    /\ UNCHANGED got

Deliver ==
    /\ Len(got) < Len(sent)
    /\ got' = Append(got, sent[Len(got) + 1])
    /\ UNCHANGED sent

Next == (\E f \in Frames : Send(f)) \/ Deliver

Spec == Init /\ [][Next]_vars
=============================================================================
