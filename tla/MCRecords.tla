------------------------------- MODULE MCRecords -------------------------------
EXTENDS Records

R(s, e, n) == [start |-> s, end |-> e, acc |-> n]
MCRegions == {R(1, 2, 0), R(1, 4, 2), R(2, 4, 1), R(3, 5, 3)}
MCLines == {l \in [lo : 0..4, hi : 1..5] : l.lo < l.hi}
=============================================================================
