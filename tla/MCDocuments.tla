------------------------------ MODULE MCDocuments ------------------------------
EXTENDS Documents, TLC

Is(k, c, n) == [op |-> "key", key |-> k, cmp |-> c, num |-> n]
MCAtoms == <<Is("a", "==", 12), Is("a", "!=", 12), Is("b", ">", 12), [op |-> "IN", key |-> "b", list |-> {9, 30}]>>

(* Formulas of those at the places in s and r. *)
Ops == <<"AND", "OR", "==">>
Negated(s) == [i \in DOMAIN s |-> [op |-> "NOT", of |-> s[i]]]
Combined(s, r) ==
    LET n == Len(r)
    IN  [i \in 1..3 * Len(s) * n |->
            [op |-> Ops[1 + (i % 3)], left |-> s[1 + (((i \div 3) \div n) % Len(s))], right |-> r[1 + ((i \div 3) % n)]]]
Places(s)  == [i \in DOMAIN s |-> i]
Small      == MCAtoms \o Negated(Places(MCAtoms)) \o Combined(Places(MCAtoms), <<2, 3>>)
MCFormulas == Small \o Negated(Places(Small)) \o Combined(Places(Small), <<3>>) \o Combined(<<1>>, Places(Small))

MCRows        == [key : Keys, value : Values]
Sent(u, m, d) == [uid |-> u, metadata |-> m, doc |-> d]
Row(k, n)     == [key |-> k, value |-> n]
Text(h, l)    == {[hit |-> h, length |-> l]}
MCRequests ==
    { <<Sent(1, {{Row("a", 12)}}, Text(TRUE, 2)), Sent(2, {{Row("b", 9)}}, Text(TRUE, 1))>>,
      <<Sent(1, {{Row("a", 9), Row("b", 12)}}, {}), Sent(1, {}, Text(FALSE, 1))>> }
MCSymmetry == Permutations(Threads) \cup Permutations(Versions)
=============================================================================
