---------------------------- MODULE MCDiscovery -----------------------------
(* Instances of Discovery for TLC: three hash functions onto four bits, such *)
(* that a filter with the first two items answers "probably" for the third.  *)
EXTENDS Discovery

MCHash == [x \in Items |->
            [i \in Seeds |-> CASE x = "t1" -> i
                               [] x = "t2" -> i + 1
                               [] OTHER -> 2 * i - (i \div 2)]]

MCNetwork == Nodes \X {"psk"}

\* One daemon has joined the global network too.
MCShadowed == MCNetwork \cup {<<CHOOSE n \in Nodes : TRUE, "global">>}
=============================================================================
