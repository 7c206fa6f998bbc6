----------------------------- MODULE MCSendPath -----------------------------
(* SendPath for TLC: a client on each relay.                                *)
EXTENDS SendPath

CONSTANTS t1, t2, i1, i2

AClientEach == t1 :> 1 @@ t2 :> 2
TheirIds == t1 :> {i1} @@ t2 :> {i2}
TwoIds == {i1, i2}
Kinds == t1 :> {"peer_ack", "sync"} @@ t2 :> {"send"}

(* Pick is SelectSeq, on short sequences.                                   *)
ASSUME PickIsSelectSeq ==
  \A n \in 0 .. 4 : \A s \in [1 .. n -> 1 .. 3] : \A T \in SUBSET (1 .. 3) :
    Pick(s, T) = SelectSeq(s, LAMBDA x : x \in T)

=============================================================================
