------------------------------ MODULE MCMarshal ------------------------------
(* Instances of Marshal.  Sources differ in their number only: the first is *)
(* taken to be the longest, or, of those as long, to have the highest word, *)
(* in which a source counts as itself or as another one.                    *)
EXTENDS Marshal

Rank(o, v) == IF v = o THEN 2 ELSE IF v \in Sources THEN 1 ELSE v

Ordered ==
  \A o \in Sources :
    \/ Len(graph[1]) > Len(graph[o])
    \/ /\ Len(graph[1]) = Len(graph[o])
       /\ \A i \in DOMAIN graph[o] :
            (\A j \in 1 .. i - 1 : Rank(1, graph[1][j]) = Rank(o, graph[o][j]))
              => Rank(1, graph[1][i]) >= Rank(o, graph[o][i])

MCInit == Init /\ Ordered
MCFairSpec == MCInit /\ [][Next]_vars /\ WF_vars(Step)
=============================================================================
