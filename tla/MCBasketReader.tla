--------------------------- MODULE MCBasketReader ---------------------------
EXTENDS BasketReader

\* Two branches whose baskets end at different entries.
TwoBranches ==
  << << [end |-> 1, sp |-> Sp(0, 2)], [end |-> 3, sp |-> Sp(2, 1)] >>,
     << [end |-> 2, sp |-> Sp(3, 2)], [end |-> 3, sp |-> Sp(5, 1)] >> >>

\* Reads that overlap several baskets, the longest in two blocks, and one inside a basket.
Overlapping == {Sp(1, 1), Sp(1, 3), Sp(0, 6)}

Scenario(beg, end, n, reads, other) ==
  [beg |-> beg, end |-> end, nrab |-> n, reads |-> reads, other |-> other]

\* Every range, with one basket and with two read ahead.
AllRanges ==
  UNION {{Scenario(beg, end, n, 1, FALSE) : end \in beg .. 3, n \in {1, 2}} : beg \in 0 .. 3}

\* Two calls, the second of which finds baskets in the cache.
Again == {Scenario(1, 3, 1, 2, FALSE)}

\* Baskets are read ahead while another goroutine reads the same bytes.
WithOther == {Scenario(0, 3, 1, 0, TRUE)}

Explored == AllRanges \cup Again \cup WithOther
Middle == {[beg |-> 1, end |-> 2]}
=============================================================================
