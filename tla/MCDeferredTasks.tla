-------------------------- MODULE MCDeferredTasks --------------------------
EXTENDS DeferredTasks
Region(base, shape) == Build(shape, LAMBDA i : base + Place(shape, i))
A == Region(0, << 2, 3 >>)
B == Region(6, << 2, 3 >>)
M == Region(12, << 2, 3 >>)
V == Region(18, << 4 >>)
W == Region(22, << 4 >>)
C == Region(26, << 2, 2, 2 >>)
X == Region(34, << 5 >>)
\* the memory: A, B, mask, V, W, C, X, the result, temporaries
MCContents ==
  [k \in 0..119 |->
     IF k < 39 THEN << 3, 0, 2, NaN, 3, -1,  1, 2, 0, 3, 1, 2,  1, 0, 0, 1, 1, 0,  0, 1, 1, 3,  2, 0, 1, 3,
                       2, 5, 0, -3, 5, 1, 2, 7,  -1, 0, 1, 1, 4 >>[k + 1] ELSE Garbage]
Cut(a, lo, hi) == SliceDim(a, 2, lo, hi)
MCMatrices == { A, B, Cut(A, 0, 2), Cut(A, 1, 3), TransposeDims(Cut(A, 0, 2), << 2, 1 >>), SliceDim(B, 1, 1, 2),
                Promote(V, 1, 1) }
MCVectors == { V, W, SliceDim(W, 1, 0, 2), X, SliceDim(X, 1, 0, 3) }
MCCubes == { C }
MCOperands == { A, Cut(B, 1, 3), SliceDim(B, 1, 1, 2), Region(1, << 3, 4 >>), SliceDim(W, 1, 0, 2), SliceDim(X, 1, 0, 3), C }
MCResult(shape) == Region(39, shape)
=============================================================================
