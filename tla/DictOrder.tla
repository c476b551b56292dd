------------------------------ MODULE DictOrder ------------------------------
(***************************************************************************)
(* The order of a Python dict or OrderedDict.  An order q gives for each   *)
(* key the set of those that come no later, the key itself among them, and *)
(* the empty set for a key the dict does not have.                         *)
(***************************************************************************)
EXTENDS Integers, FiniteSets

Empty(K)     == [k \in K |-> {}]
Listed(q)    == {k \in DOMAIN q : k \in q[k]}
Place(q, k)  == Cardinality(q[k])

\* pop, and popitem in the order of the dict.
Without(q, X) == [k \in DOMAIN q |-> IF k \in X THEN {} ELSE q[k] \ X]

\* q[k] = ...: a key that is there keeps its place.
WithLast(q, k) == IF k \in q[k] THEN q ELSE [q EXCEPT ![k] = Listed(q) \cup {k}]

\* move_to_end(k, last=False) for each key of X, which q has, in its order.
ToFront(q, X) ==
  [k \in DOMAIN q |-> IF k \in X THEN {j \in X : k \in q[j]}
                      ELSE IF k \in q[k] THEN q[k] \cup X ELSE {}]

\* The keys of rank, in the order of their ranks.
Ranked(K, rank) ==
  [k \in K |-> {j \in DOMAIN rank : k \in DOMAIN rank /\ rank[j] <= rank[k]}]

Orders(K) == {q \in [K -> SUBSET K] :
  /\ \A k \in K : \A j \in q[k] : /\ j \in Listed(q) /\ k \in Listed(q)
                                  /\ q[j] \subseteq q[k]
                                  /\ k \in q[j] => j = k
  /\ \A j, k \in Listed(q) : j \in q[k] \/ k \in q[j]}
=============================================================================
