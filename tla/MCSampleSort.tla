---------------------------- MODULE MCSampleSort ----------------------------
(* Lines of up to eleven elements on up to four tasks. *)
EXTENDS SampleSort
Problem(sizes, lines, argsort, stable, bound) == [sizes |-> sizes, lines |-> lines, argsort |-> argsort, stable |-> stable, bound |-> bound]
Lines(n, values) == [1..n -> values]
OneLine(sizes, values, argsort, stable, bound) ==
  { Problem(sizes, << << l >> >>, argsort, stable, bound) : l \in Lines(SumOf(sizes), values) }
MCValues == 1..3
MCProblems ==
  UNION {
    OneLine(s, 1..2, TRUE, TRUE, FALSE) : s \in { << 3, 1 >>, << 1, 2, 1 >>, << 2, 2, 1 >>, << 2, 1, 0 >>, << 5 >>, << 1, 0, 0 >>, << 0, 0 >> } }
  \union UNION { OneLine(s, 1..3, FALSE, TRUE, FALSE) : s \in { << 1, 1, 2 >>, << 4, 1 >>, << 3 >> } }
  \union UNION { OneLine(s, 1..2, TRUE, TRUE, TRUE) : s \in { << 3, 3 >>, << 3, 2 >>, << 2, 2, 1 >>, << 1, 1, 1 >>, << 1, 1, 0 >>, << 0 >>, << 0, 0 >>, << 2, 2, 1, 0 >> } }
  \union UNION { OneLine(s, 1..3, FALSE, TRUE, TRUE) : s \in { << 2, 2 >>, << 3, 1 >> } }
  \union UNION { OneLine(s, 1..2, TRUE, FALSE, b) : s \in { << 2, 2 >>, << 3 >> }, b \in BOOLEAN }
  \* Two groups, with two lines and one.
  \union { Problem(<< 2, 1 >>, << << l, m >>, << l >> >>, a, TRUE, TRUE) : l, m \in Lines(3, 1..2), a \in BOOLEAN }
  \* Lines longer than there are samples, of few patterns.
  \union { Problem(sizes, << << [k \in 1..SumOf(sizes) |-> IF k \in high THEN 3 ELSE 1 + (k % 2)] >> >>, TRUE, TRUE, TRUE) :
             sizes \in { << 4, 4, 1 >>, << 4, 4, 3 >>, << 3, 3, 3, 2 >> },
             high \in { {}, 1..4, 5..8, 5..9, {1, 2, 9}, {1, 5}, {4, 6, 8} } }
\* Twenty-six elements of two values on five tasks.
MCShifted ==
  { Problem(<< 6, 6, 6, 6, 2 >>, << << [k \in 1..26 |-> IF k \in {5, 6, 11, 12, 17, 18, 22, 23, 24} THEN 2 ELSE 1] >> >>, FALSE, TRUE, TRUE) }
=============================================================================
