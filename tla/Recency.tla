------------------------------ MODULE Recency ------------------------------
(***************************************************************************)
(* What the RPC server's list of connections promises (RPCFramework/rpc.cc,*)
(* MarkActive): the connections it has, the one active last first.         *)
(***************************************************************************)
EXTENDS Sequences, SequencesExt

CONSTANT Conns

VARIABLE order

\* A connection that is not there enters, as the most recent.
Enter(c) == c \notin ToSet(order) /\ order' = <<c>> \o order

\* One that is there has been active.
Touch(i) == order' = <<order[i]>> \o RemoveAt(order, i)

Leave(i) == order' = RemoveAt(order, i)

Init == order = <<>>

Next == (\E c \in Conns : Enter(c)) \/ (\E i \in DOMAIN order : Touch(i) \/ Leave(i))

Spec == Init /\ [][Next]_order

=============================================================================
