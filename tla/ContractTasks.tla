--------------------------- MODULE ContractTasks ---------------------------
(***************************************************************************)
(* DeferredArray.contract: the launches that multiply two arrays and sum   *)
(* over the modes (dimension names) that the result does not have.  Modes  *)
(* are numbers, in the alphabetical order of the code's letters.           *)
(***************************************************************************)
EXTENDS ElementTasks

CONSTANT CacheSize    \* settings.matmul_cache_size, in elements

RoundingDivide(x, y) == (x + y - 1) \div y

\* The color shape of a batched product: powers of 2 move from the rows to the columns.
choose_2d_color_shape(m, n) ==
  LET f[k \in 0..Procs] ==
        \* k doublings: is another one due?
        LET r == Procs \div (2^k)
            c == 2^k
        IN IF m * c < 2 * n * r /\ r % 2 = 0 THEN f[k + 1] ELSE << r, c >>
  IN f[0]

choose_batchsize(tile, k) ==
  IF Procs = 1 THEN k
  ELSE RoundingDivide(k, RoundingDivide((tile[1] + tile[2]) * k, CacheSize))

use_legacy_matmul(m, n, k) == Procs = 1 \/ (m + n) * k < CacheSize * Procs

k_color(k, batch) == RoundingDivide(k, batch)

\* One ManualTask per batch of the inner dimension, one piece per tile of the result.
BatchedMatmul(lhs, rhs1, rhs2) ==
  LET m == lhs.shape[1]
      n == lhs.shape[2]
      k == rhs1.shape[2]
      initial == choose_2d_color_shape(m, n)
      tile == << RoundingDivide(m, initial[1]), RoundingDivide(n, initial[2]) >>
      colors == << RoundingDivide(m, tile[1]), RoundingDivide(n, tile[2]) >>
      batch == choose_batchsize(tile, k)
      TileOf(shape, ext, at) == { i \in Box(shape) : \A d \in 1..2 : i[d] \div ext[d] = at[d] }
      pieces == Product(colors)
      color(c) == IndexAt(colors, c - 1)
      Cut(b) ==
        [lhs |-> [c \in 1..pieces |-> TileOf(lhs.shape, tile, color(c))],
         rhs1 |-> [c \in 1..pieces |-> TileOf(rhs1.shape, << tile[1], batch >>, << color(c)[1], b >>)],
         rhs2 |-> [c \in 1..pieces |-> TileOf(rhs2.shape, << batch, tile[2] >>, << b, color(c)[2] >>)]]
  IN [b \in 1..k_color(k, batch) |->
        Task("MATMUL", [lhs |-> InOut(lhs), rhs1 |-> In(rhs1), rhs2 |-> In(rhs2)], {Manual(Cut(b - 1))}, [batched |-> TRUE])]

\* Any contraction: every store gets every mode, in alphabetical order.
GeneralContraction(lhs, lmodes, rhs1, modes1, rhs2, modes2, extent) ==
  LET alphabetical_transpose(s, modes) ==
        TransposeDims(s, SetToSortSeq(DOMAIN modes, LAMBDA x, y : modes[x] < modes[y]))
      order == Ascending(DOMAIN extent)
      add_mode(s, modes) ==
        FoldLeft(LAMBDA t, n : IF order[n] \in ToSet(modes) THEN t ELSE Promote(t, n, extent[order[n]]),
                 alphabetical_transpose(s, modes), [n \in DOMAIN order |-> n])
  IN << Task("CONTRACT", [lhs |-> Red(add_mode(lhs, lmodes), "ADD"), rhs1 |-> In(add_mode(rhs1, modes1)),
                          rhs2 |-> In(add_mode(rhs2, modes2))],
             {Align("lhs", "rhs1"), Align("lhs", "rhs2")}, [none |-> 0]) >>

\* half: the arrays are float16 and a BLAS task accumulates in a temporary of float32;
\* blas: the type of the arrays is one that the BLAS tasks support.
contract(self, lmodes, arg1, amodes1, arg2, amodes2, half, blas) ==
  LET copy1 == _copy_if_overlapping(arg1, self, 0)
      copy2 == _copy_if_overlapping(arg2, self, 1)
      count(x) == Cardinality({ n \in DOMAIN lmodes : lmodes[n] = x })
                  + Cardinality({ n \in DOMAIN amodes1 : amodes1[n] = x })
                  + Cardinality({ n \in DOMAIN amodes2 : amodes2[n] = x })
      modes == ToSet(amodes1) \union ToSet(amodes2)
      extent == [x \in modes |->
                   IF x \in ToSet(amodes1) THEN copy1.shape[CHOOSE n \in DOMAIN amodes1 : amodes1[n] = x]
                   ELSE copy2.shape[CHOOSE n \in DOMAIN amodes2 : amodes2[n] = x]]
      ranks == << Len(lmodes), Len(amodes1), Len(amodes2) >>
      paired == \A x \in modes : count(x) = 2
      vv == paired /\ ranks = << 0, 1, 1 >>
      mv == paired /\ blas /\ ranks \in {<< 1, 2, 1 >>, << 1, 1, 2 >>}
      mm == paired /\ blas /\ ranks = << 2, 2, 2 >>
      lhs == IF half /\ (vv \/ mv \/ mm) THEN Temp(2, self.shape) ELSE self
      \* the operand that holds the first mode of the result comes first, and the matrix before the vector
      flip == (mv /\ Len(amodes1) = 1) \/ (mm /\ lmodes[1] \notin ToSet(amodes1))
      rhs1 == IF flip THEN copy2 ELSE copy1
      rhs2 == IF flip THEN copy1 ELSE copy2
      modes1 == IF flip THEN amodes2 ELSE amodes1
      modes2 == IF flip THEN amodes1 ELSE amodes2
      T(s) == TransposeDims(s, << 2, 1 >>)
      mat == IF mv /\ modes1[1] = modes2[1] THEN T(rhs1)
             ELSE IF mm /\ lmodes[1] # modes1[1] THEN T(rhs1) ELSE rhs1
      mat2 == IF mm /\ lmodes[2] # modes2[2] THEN T(rhs2) ELSE rhs2
      aligned == {Align("lhs", "rhs1"), Align("lhs", "rhs2")}
      product ==
        IF vv THEN << Task("DOT", [lhs |-> Red(lhs, "ADD"), rhs1 |-> In(rhs1), rhs2 |-> In(rhs2)],
                           {Align("rhs1", "rhs2")}, [none |-> 0]) >>
        ELSE IF mv
        THEN << Task("MATVECMUL", [lhs |-> Red(Promote(lhs, 2, mat.shape[2]), "ADD"), rhs1 |-> In(mat),
                                   rhs2 |-> In(Promote(rhs2, 1, mat.shape[1]))], aligned, [none |-> 0]) >>
        ELSE IF mm /\ use_legacy_matmul(lhs.shape[1], lhs.shape[2], mat.shape[2])
        THEN << Task("MATMUL", [lhs |-> Red(Promote(lhs, 2, mat.shape[2]), "ADD"),
                                rhs1 |-> In(Promote(mat, 3, lhs.shape[2])),
                                rhs2 |-> In(Promote(mat2, 1, lhs.shape[1]))], aligned, [batched |-> FALSE]) >>
        ELSE IF mm THEN BatchedMatmul(lhs, mat, mat2)
        ELSE GeneralContraction(lhs, lmodes, rhs1, modes1, rhs2, modes2, extent)
  IN Copying(copy1, arg1) \o Copying(copy2, arg2) \o Fill(lhs, 0) \o product
     \o (IF lhs = self THEN << >> ELSE convert(self, lhs, "float16", "NOOP"))
=============================================================================
