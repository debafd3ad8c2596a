----------------------------- MODULE MCFunctions -----------------------------
EXTENDS Orders, MatrixFunctions
MCShapes == { << >>, << 0 >>, << 2 >>, << 5 >>, << 0, 2 >>, << 1, 2 >>, << 2, 3 >>, << 2, 1, 3 >>, << 2, 2, 3 >> }
MCNewShapes ==
  { s \in UNION { [1..n -> {-1, 1, 2, 3, 6}] : n \in 0..3 } : Cardinality({ d \in DOMAIN s : s[d] = -1 }) < 2 }
    \union { << 4, 3 >>, << 2, 3, 2 >>, << 3, 4 >>, << 1, 2, 3, 1 >>, << 3, 2, 1, 2 >>, << -1, -1 >> }
MCAxes == -2..2
MCSequences == { << >>, << 0 >>, << 2 >>, << -1 >>, << 1, 0 >>, << 2, 2 >>, << 0, 3 >>, << 2, -2 >>, << 2, 0, 1 >> }
L(xs) == [list |-> xs]
A(s) == Second(Arange(s))
B(s) == Arange(s)
MCBlocks ==
  { L(<< p, q >>) : p, q \in { B(<< >>), B(<< 2 >>), A(<< 3 >>), A(<< 2, 1 >>), B(<< 2, 3 >>), A(<< 0 >>) } }
    \union { L(<< L(<< p, q >>), L(<< r, p >>) >>) : p, q, r \in { B(<< 2 >>), A(<< 2 >>), A(<< 1, 2 >>), B(<< 2, 2 >>), B(<< 1, 2, 2 >>) } }
    \union { L(<< L(<< B(<< 2, 3 >>) >>), L(<< A(<< 1, 2 >>), A(<< 1, 1 >>) >>) >>), L(<< L(<< B(<< 2 >>) >>), B(<< 2 >>) >>) }
    \union { L(<< L(<< L(<< p >>), L(<< q >>) >>), L(<< L(<< q >>), L(<< p >>) >>) >>) : p, q \in { B(<< 2 >>), A(<< 1, 2 >>), A(<< 2, 2 >>) } }
Sample(s, Elt(_)) == Build(s, LAMBDA i : Elt(Place(s, i)))
MCSamples ==
  { Sample(<< >>, LAMBDA n : 3), Sample(<< 0 >>, LAMBDA n : 0), Sample(<< 2, 0 >>, LAMBDA n : 0),
    Sample(<< 3 >>, LAMBDA n : << 3, 0, NaN >>[n + 1]), Sample(<< 2 >>, LAMBDA n : 0), Sample(<< 3 >>, LAMBDA n : << 2, 4, 1 >>[n + 1]),
    Sample(<< 2, 3 >>, LAMBDA n : << 3, 1, 4, 1, 5, 0 >>[n + 1]), Sample(<< 2, 2 >>, LAMBDA n : << NaN, NaN, 2, NaN >>[n + 1]),
    Sample(<< 1, 3 >>, LAMBDA n : n), Sample(<< 2, 1, 2 >>, LAMBDA n : << 1, 3, 3, 2 >>[n + 1]),
    Sample(<< 2, 2, 2 >>, LAMBDA n : (5 * n + 3) % 8) }
MCMasks ==
  { Sample(<< 3 >>, LAMBDA n : n # 1), Sample(<< >>, LAMBDA n : TRUE), Sample(<< 2, 1 >>, LAMBDA n : n = 0), Sample(<< 2, 2 >>, LAMBDA n : n = 2) }
MCAxisTuples == { << 0 >>, << -1 >>, << 2 >>, << 0, 1 >>, << 2, 0 >>, << 0, -3 >>, << 2, 0, 1 >> }
MCLines == { << 3 >>, << 2, 2 >>, << 1, 4, 2 >>, << 3, 1, 3, 0 >>, << 1, 2, 2, 4, 4 >> }
Ramp(s) == Build(s, LAMBDA i : Place(s, i) + 1)
MCFactors == { Ramp(s) : s \in { << >>, << 0 >>, << 1 >>, << 2 >>, << 3 >>, << 2, 2 >>, << 2, 3 >>, << 3, 2 >>, << 1, 3 >>,
                                 << 2, 0 >>, << 2, 2, 3 >>, << 1, 3, 2 >> } }
MCOutShapes == { None, << 2, 2 >>, << 2, 3 >>, << 2, 2, 2 >> }
MCContractAxes == { << 0 >>, << 1 >>, << 2 >>, << << 0 >>, << -1 >> >>, << << 0, 1 >>, << 1, 0 >> >>, << << 0, 0 >>, << 0, 1 >> >>, << << -1 >>, << 0, 1 >> >> }
Formula(operands, out) == [operands |-> operands, result |-> out]
I == "i"
J == "j"
K == "k"
MCFormulas ==
  { Formula(<< << I, J >> >>, << J, I >>), Formula(<< << I, I >> >>, << I >>), Formula(<< << I, J, I >> >>, << J >>), Formula(<< << I, J >> >>, << >>),
    Formula(<< << I >>, << J >> >>, << I, J >>), Formula(<< << I, J >>, << J, K >> >>, << K >>), Formula(<< << I, J >>, << I, J >> >>, << I >>),
    Formula(<< << I, I >>, << I, J >> >>, << J >>), Formula(<< << >>, << I, J >> >>, << J, I >>),
    Formula(<< << I, J >>, << J, K >>, << K >> >>, << I >>), Formula(<< << I >>, << I, J >>, << J >> >>, << >>),
    Formula(<< << I, J >>, << J >>, << I, K >> >>, << K, J >>), Formula(<< << I >>, << J >>, << I, J >> >>, << I, J >>) }
MCExponents == -1..7
Chain(shapes) == [n \in DOMAIN shapes |-> Ramp(shapes[n])]
MCChains == { Chain(c) : c \in { << << 2, 2 >> >>, << << 2, 3 >>, << 3, 2 >> >>, << << 3 >>, << 3, 2 >>, << 2, 2 >> >>,
  << << 2, 3 >>, << 3, 1 >>, << 1, 2 >> >>, << << 2, 3 >>, << 2, 3 >>, << 3 >> >>, << << 2 >>, << 2, 3 >>, << 3, 2 >>, << 2 >> >>,
  << << 2, 3 >>, << 3, 1 >>, << 1, 2 >>, << 2, 3 >> >>, << << 1, 2 >>, << 2, 3 >>, << 3, 2 >>, << 2, 2 >> >>, << << 2, 2 >>, << 2 >>, << 2, 2 >> >> } }
Swing(s) == Build(s, LAMBDA i : << 2, -3, 1, 0, -5, 4, -1, 3 >>[Place(s, i) + 1])
MCSigned == { Swing(s) : s \in { << >>, << 3 >>, << 2, 3 >>, << 3, 2 >>, << 2, 2, 2 >> } }
MCNormAxes == { None, << 0 >>, << -1 >>, << 1 >>, << 0, 1 >>, << 1, 0 >>, << 0, -1 >>, << 2, 0 >>, << 1, 1 >>, << 0, 1, 2 >> }
MCOrders1 == { "None", "fro", "inf", "-inf", "0", "1", "-1", "2", "-2", "p", "nuc" }
MCStacks == { << >>, << 3 >>, << 1, 1 >>, << 2, 2 >>, << 2, 3 >>, << 3, 2 >>, << 2, 1 >>, << 0, 0 >>, << 0, 2, 2 >>, << 1, 2, 2 >>, << 3, 2, 2 >>, << 5, 1, 1 >>, << 1, 9, 2, 2 >>, << 2, 7, 1, 1 >>,
              << 3, 2, 1 >>, << 5, 2, 1 >>, << 1, 9, 2, 1 >> }
Tall(rs) == Build(<< Len(rs), Len(rs[1]) >>, LAMBDA i : rs[i[1] + 1][i[2] + 1])
MCTalls == { Tall(r) : r \in { << << 2, 0 >>, << 0, 3 >> >>, << << 0, -3 >>, << 2, 0 >>, << 0, 0 >> >>, << << 0, 0, 1 >>, << 3, 0, 0 >>, << 0, -2, 0 >> >>,
   << << 2, 0 >>, << 0, 0 >> >>, << << 0, 2 >>, << 2, 0 >> >>, << << 3 >> >>, << << 3, 0, 0 >>, << 0, 2, 0 >> >> } } \union { Ramp(<< 2 >>) }
CheckedSpec == Init /\ [][Next \/ StatNext \/ OrderNext \/ ProductNext \/ MatrixNext]_vars
=============================================================================
