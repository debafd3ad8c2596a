---------------------------- MODULE MCIndexing ----------------------------
EXTENDS Picking
MCShapes == { << 2, 3 >>, << 2, 2, 2 >> }
MCPickShapes == MCShapes \union { << >>, << 3 >>, << 0 >>, << 4, 2 >>, << 2, 0 >>, << 2, 1, 3 >> }
MCAxes == -1..2
MCIndices == { Build(<< 2 >>, LAMBDA i : i[1] - 1), Build(<< 1 >>, LAMBDA i : 1), Build(<< 2 >>, LAMBDA i : 5 - i[1]),
               Build(<< 3 >>, LAMBDA i : (2 * i[1]) % 3), Build(<< 2, 1 >>, LAMBDA i : 1 - i[1]), Build(<< 0 >>, LAMBDA i : 0),
               Build(<< 1, 2 >>, LAMBDA i : i[2]), Build(<< 2, 1, 3 >>, LAMBDA i : i[1]), Build(<< 1, 2, 1 >>, LAMBDA i : 1 - i[2]) }
MCGivens == { Mapped(Arange(s), LAMBDA n : 100 + n) : s \in { << >>, << 0 >>, << 1 >>, << 2 >>, << 3 >>, << 5 >>, << 2, 1 >>, << 2, 3 >> } }
\* Items for an array with dimensions of 2 and 3 elements.
MCKeyItems(shape) ==
  IF shape \notin MCShapes THEN {} ELSE
  { Full, Slice(1, None), NewAxis, Dots, At(-1),
    Ints(Build(<< 2 >>, LAMBDA i : i[1] - 1)),
    Bools(Build(<< 2 >>, LAMBDA i : TRUE)) }
    \union IF Len(shape) = 2
           THEN { Slice(2, 1), Ints(Build(<< 2, 1 >>, LAMBDA i : 1 - i[1])),
                  Bools(Build(<< 3 >>, LAMBDA i : i[1] # 1)) }
           ELSE { Bools(Build(<< 2, 2 >>, LAMBDA i : i[1] >= i[2])) }
=============================================================================
