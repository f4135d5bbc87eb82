------------------------------ MODULE MCProxy ------------------------------
(***************************************************************************)
(* Instances of Proxy for TLC.                                             *)
(***************************************************************************)
EXTENDS Proxy, TLC

\* One object; two objects of one server; and one more with the host and path of the
\* first at another port, which the cache cannot tell from it.
OneRequest    == {[key |-> "a", port |-> 80]}
TwoRequests   == {[key |-> k, port |-> 80] : k \in {"a", "b"}}
ThreeRequests == TwoRequests \cup {[key |-> "a", port |-> 8080]}

Symmetry == Permutations(Threads)
=============================================================================
