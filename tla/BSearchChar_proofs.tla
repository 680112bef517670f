------------------------ MODULE BSearchChar_proofs ------------------------
(***************************************************************************)
(* The search of gen_inp.c returns the first index of a code, for tables   *)
(* of every length: partial correctness of both loops of bsearch_char().   *)
(***************************************************************************)
EXTENDS BSearchChar, TLAPS

\* The codes left of the bounds are smaller, those right of them greater.
Bounds ==
    /\ head <= middle /\ middle < end /\ end <= size
    /\ \A i \in Index : (i < head => below(i, goal)) /\ (i >= end => above(i, goal))

IInv ==
    /\ Sorted /\ TypeOK
    /\ pc = "probe" => Bounds
    /\ pc = "back" => middle \in Index /\ equal(middle, goal)
    /\ FirstFound

\* The order of the array carries a comparison to the left of an index.
LEMMA LeftOfBelow ==
    ASSUME Sorted, NEW g \in Nat \X Nat, NEW i \in Index, NEW j \in Index,
           i < j, below(j, g)
    PROVE  below(i, g)
<1>1. ~above(i, <<ic1[j], ic2[j]>>)
  BY DEF Sorted
<1>2. /\ ic1[i] \in Nat /\ ic1[j] \in Nat /\ ic2[i] \in Nat /\ ic2[j] \in Nat
      /\ g[1] \in Nat /\ g[2] \in Nat /\ md \in BOOLEAN
  BY DEF Sorted
<1> QED
  BY <1>1, <1>2 DEF above, below

\* And to the right of it.
LEMMA RightOfAbove ==
    ASSUME Sorted, NEW g \in Nat \X Nat, NEW i \in Index, NEW j \in Index,
           i < j, above(i, g)
    PROVE  above(j, g)
<1>1. ~above(i, <<ic1[j], ic2[j]>>)
  BY DEF Sorted
<1>2. /\ ic1[i] \in Nat /\ ic1[j] \in Nat /\ ic2[i] \in Nat /\ ic2[j] \in Nat
      /\ g[1] \in Nat /\ g[2] \in Nat /\ md \in BOOLEAN
  BY DEF Sorted
<1> QED
  BY <1>1, <1>2 DEF above

\* An index is a number below the length of the arrays.
LEMMA IndexNat ==
    ASSUME Sorted
    PROVE  /\ size \in Nat \ {0}
           /\ \A i : i \in Index <=> i \in Nat /\ i < size
<1>1. size \in Nat \ {0}
  BY DEF Sorted
<1> QED
  BY <1>1 DEF Index

\* The indices that hold a code are next to each other.
LEMMA EqualBetween ==
    ASSUME Sorted, NEW g \in Nat \X Nat,
           NEW i \in Index, NEW j \in Index, NEW k \in Index,
           i <= j, j <= k, equal(i, g), equal(k, g)
    PROVE  equal(j, g)
<1>1. i \in Nat /\ j \in Nat /\ k \in Nat
  BY IndexNat
<1>2. ~below(j, g)
  <2> SUFFICES ASSUME below(j, g) PROVE FALSE
    OBVIOUS
  <2>1. CASE i = j
    BY <2>1 DEF equal
  <2>2. CASE i < j
    BY <2>2, LeftOfBelow DEF equal
  <2> QED
    BY <1>1, <2>1, <2>2
<1>3. ~above(j, g)
  <2> SUFFICES ASSUME above(j, g) PROVE FALSE
    OBVIOUS
  <2>1. CASE j = k
    BY <2>1 DEF equal
  <2>2. CASE j < k
    BY <2>2, RightOfAbove DEF equal
  <2> QED
    BY <1>1, <2>1, <2>2
<1> QED
  BY <1>2, <1>3 DEF equal

\* The middle of two bounds lies between them.
LEMMA Halfway ==
    ASSUME NEW h \in Nat, NEW e \in Nat, h <= e
    PROVE  LET m == (e + h) \div 2
           IN  m \in Nat /\ h <= m /\ m <= e /\ (h < e => m < e)
OBVIOUS

\* Nothing is searched yet.
LEMMA InitIInv == Init => IInv
BY DEF Init, SearchInit, IInv, TypeOK, FirstFound

\* At the start the bounds leave out no index.
LEMMA CallIInv ==
    ASSUME IInv, NEW g \in Nat \X Nat, Call(g)
    PROVE  IInv'
<1> USE DEF IInv
<1>1. UNCHANGED array /\ goal' = g /\ head' = 0 /\ middle' = size \div 2
      /\ end' = size /\ pc' = "probe" /\ found' = -1
  BY DEF Call
<1>2. Sorted'
  BY <1>1 DEF array, Sorted, Index, above
<1>3. middle' \in Nat /\ middle' < size /\ size \in Nat
  BY <1>1 DEF Sorted
<1>4. TypeOK'
  BY <1>1, <1>3 DEF TypeOK
<1>5. Bounds'
  BY <1>1, <1>3 DEF Bounds, Index, array
<1> QED
  BY <1>1, <1>2, <1>4, <1>5 DEF FirstFound

\* A probe that misses moves a bound past indices that cannot hold the code.
LEMMA ProbeIInv ==
    ASSUME IInv, Probe
    PROVE  IInv'
<1> USE DEF IInv
<1>1. /\ UNCHANGED <<ic1, ic2, size, md, goal>>
      /\ pc = "probe" /\ ~equal(middle, goal) /\ halves(head', end')
      /\ middle' = (end' + head') \div 2 /\ found' = -1
      /\ pc' = IF middle' = head' /\ middle' = end' THEN "done" ELSE pc
  BY DEF Probe, array
<1>2. Sorted'
  BY <1>1 DEF Sorted, Index, above
<1>3. Bounds /\ middle \in Index /\ goal \in Nat \X Nat
      /\ head \in Nat /\ middle \in Nat /\ end \in Nat /\ size \in Nat
  BY <1>1 DEF Bounds, TypeOK, Index, Sorted
<1>4. /\ head' \in Nat /\ end' \in Nat /\ head' <= end' /\ end' <= size
      /\ \A i \in Index : (i < head' => below(i, goal))
                          /\ (i >= end' => above(i, goal))
  <2>1. CASE above(middle, goal)
    <3>1. head' = head /\ end' = middle
      BY <1>1, <2>1 DEF halves
    <3>2. \A i \in Index : i >= middle => above(i, goal)
      BY <1>3, <2>1, RightOfAbove DEF Index
    <3> QED
      BY <1>3, <3>1, <3>2 DEF Bounds
  <2>2. CASE ~above(middle, goal)
    <3>1. head' = middle + 1 /\ end' = end
      BY <1>1, <2>2 DEF halves
    <3>2. below(middle, goal)
      BY <1>1, <2>2 DEF equal
    <3>3. \A i \in Index : i <= middle => below(i, goal)
      BY <1>3, <3>2, LeftOfBelow DEF Index
    <3> QED
      BY <1>3, <3>1, <3>3 DEF Bounds, Index
  <2> QED
    BY <2>1, <2>2
<1>5. middle' \in Nat /\ head' <= middle' /\ middle' <= end'
      /\ (head' < end' => middle' < end')
  <2> HIDE DEF IInv
  <2> QED
    BY <1>1, <1>4, Halfway
<1>6. TypeOK'
  BY <1>1, <1>4, <1>5 DEF TypeOK
<1>7. ASSUME pc' = "probe" PROVE Bounds'
  <2>1. ~(middle' = head' /\ middle' = end')
    BY <1>1, <1>7
  <2>2. head' < end'
    BY <1>4, <1>5, <2>1
  <2> QED
    BY <1>1, <1>4, <1>5, <2>2 DEF Bounds, Index, below, above
<1>8. FirstFound'
  <2> SUFFICES ASSUME pc' = "done"
               PROVE  \A i \in Index : ~equal(i, goal)
    BY <1>1 DEF FirstFound, Holds, Index, equal, above, below
  <2>1. head' = end'
    BY <1>1
  <2>2. \A i \in Index : below(i, goal) \/ above(i, goal)
    BY <1>3, <1>4, <2>1 DEF Index
  <2> QED
    BY <2>2 DEF equal
<1> QED
  BY <1>1, <1>2, <1>6, <1>7, <1>8

\* A hit is an index that holds the code.
LEMMA MatchIInv ==
    ASSUME IInv, Match
    PROVE  IInv'
<1> USE DEF IInv
<1>1. /\ UNCHANGED <<ic1, ic2, size, md, goal, head, middle, end, found>>
      /\ pc = "probe" /\ pc' = "back" /\ equal(middle, goal)
  BY DEF Match, array
<1>2. Sorted' /\ TypeOK'
  BY <1>1 DEF Sorted, Index, above, TypeOK
<1>3. middle \in Index
  BY <1>1 DEF Bounds, TypeOK, Index, Sorted
<1> QED
  BY <1>1, <1>2, <1>3 DEF FirstFound, equal, above, below, Index

\* Going back stays on such indices.
LEMMA BackIInv ==
    ASSUME IInv, Back
    PROVE  IInv'
<1> USE DEF IInv
<1>1. /\ UNCHANGED <<ic1, ic2, size, md, goal, head, end, pc, found>>
      /\ pc = "back" /\ middle > 0 /\ equal(middle - 1, goal)
      /\ middle' = middle - 1 /\ middle \in Index
  BY DEF Back, more_before, array
<1>2. Sorted'
  BY <1>1 DEF Sorted, Index, above
<1>3. middle' \in Index
  BY <1>1 DEF Index, Sorted
<1>4. TypeOK'
  BY <1>1 DEF TypeOK
<1> QED
  BY <1>1, <1>2, <1>3, <1>4 DEF FirstFound, equal, above, below, Index

\* When the one before does not hold the code, no earlier one does.
LEMMA ReturnIInv ==
    ASSUME IInv, Return
    PROVE  IInv'
<1> USE DEF IInv
<1>1. /\ UNCHANGED <<ic1, ic2, size, md, goal, head, middle, end>>
      /\ pc = "back" /\ ~more_before /\ found' = middle /\ pc' = "done"
      /\ middle \in Index /\ equal(middle, goal) /\ goal \in Nat \X Nat
  BY DEF Return, last_step, array, TypeOK
<1>2. Sorted' /\ TypeOK'
  BY <1>1 DEF Sorted, Index, above, TypeOK
<1>3. ASSUME NEW i \in Index, equal(i, goal) PROVE middle <= i
  <2> SUFFICES ASSUME i < middle PROVE FALSE
    BY <1>1 DEF Index, Sorted
  <2>1. middle - 1 \in Index /\ i <= middle - 1 /\ middle - 1 <= middle /\ middle > 0
    BY <1>1 DEF Index, Sorted
  <2>2. equal(middle - 1, goal)
    BY <1>1, <1>3, <2>1, EqualBetween
  <2> QED
    BY <1>1, <2>1, <2>2 DEF more_before
<1>4. FirstFound'
  <2>1. middle # -1
    BY <1>1 DEF Index, Sorted
  <2> QED
    BY <1>1, <1>3, <2>1 DEF FirstFound, Holds, Index, equal, above, below
<1> QED
  BY <1>1, <1>2, <1>4

\* Each step of a search, and a new search, preserve the invariant.
LEMMA NextIInv == IInv /\ [Next]_vars => IInv'
<1> SUFFICES ASSUME IInv, [Next]_vars PROVE IInv'
  OBVIOUS
<1>1. CASE \E g \in Nat \X Nat : Call(g)
  BY <1>1, CallIInv
<1>2. CASE Step
  BY <1>2, ProbeIInv, MatchIInv, BackIInv, ReturnIInv DEF Step
<1>3. CASE UNCHANGED vars
  <2>1. UNCHANGED <<ic1, ic2, size, md, goal, head, middle, end, pc, found>>
    BY <1>3 DEF vars, array, search
  <2> QED
    BY <2>1 DEF IInv, Sorted, TypeOK, Bounds, FirstFound, Holds,
                Index, equal, above, below
<1> QED
  BY <1>1, <1>2, <1>3 DEF Next

\* Sorted arrays stay so, and while the first loop runs the code can only be
\* between the bounds of bsearch_char().
THEOREM Invariance == Spec => []IInv
BY InitIInv, NextIInv, PTL DEF Spec

\* bsearch_char() returns the first index that holds the code it is given,
\* and -1 exactly when no index does.
THEOREM SearchFindsFirst == Spec => []FirstFound
<1>1. IInv => FirstFound
  BY DEF IInv
<1> QED
  BY <1>1, Invariance, PTL

\* Neither loop of bsearch_char() compares an index outside the arrays.
THEOREM SearchStaysInside == Spec => []ReadsInside
<1>1. IInv => ReadsInside
  BY IndexNat DEF IInv, ReadsInside, Bounds, TypeOK
<1> QED
  BY <1>1, Invariance, PTL
=============================================================================
