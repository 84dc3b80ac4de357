--------------------------- MODULE MCModeHandler ----------------------------
(* Instance of ModeHandler for TLC: addresses of three bits.                 *)
EXTENDS ModeHandler, TLC

\* Which thread has which request does not matter.
Anyone == Permutations(Threads)

Net(ip, len) == [ip |-> ip, len |-> len]
Allow(n, f)  == [key |-> "acl_allow", net |-> n, flags |-> f]
Forget(n)    == [key |-> "acl_remove", net |-> n]
Set(k, v)    == [key |-> k, val |-> v]

\* A network and one inside it, the address 0 that the parser refuses, and a
\* setting of every kind.
AllLines == {Allow(Net(4, 1), {}), Allow(Net(6, 2), {"noserve"}), Allow(Net(0, 0), {}),
             Forget(Net(4, 1)), Set("policy", {"noquery"}), Set("broadcast", TRUE),
             Set("symmetric", FALSE), Set("interval", 1), Set("ratio", 50), [key |-> "other"]}

=============================================================================
