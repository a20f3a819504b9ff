------------------------------ MODULE MCRelay -------------------------------
(* Three nodes in a line.  The first payment has a rival that is given to     *)
(* the other end, and a successor that its payee can make only when the first *)
(* is confirmed.                                                             *)
EXTENDS Relay, TLC

MCNeighbours == ("a" :> {"b"} @@ "b" :> {"a", "c"} @@ "c" :> {"b"})

MCFirst == [from |-> "x", to |-> "y", amount |-> 1, fee |-> 1]
MCRival == [from |-> "x", to |-> "z", amount |-> 1, fee |-> 1]
MCLater == [from |-> "y", to |-> "z", amount |-> 1, fee |-> 0]
MCGivenTo == (MCFirst :> {"a"} @@ MCRival :> {"c"} @@ MCLater :> {"b"})
MCPayments == DOMAIN MCGivenTo
MCFunds == ("x" :> 2 @@ "y" :> 0 @@ "z" :> 0)
=============================================================================
