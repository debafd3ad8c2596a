----------------------------- MODULE SampleSort -----------------------------
(***************************************************************************)
(* The distributed sort of src/src/cupynumeric/sort/sort_cpu.inl: point    *)
(* tasks that each hold a part of every line (segment) sort their parts,   *)
(* agree on splitters, exchange what lies between them, merge, and, when   *)
(* the result has the extents of the input, shift elements to neighbours   *)
(* until every part has its size again.  The tasks of a launch share one   *)
(* communicator; those of a sort group share lines.                        *)
(*                                                                         *)
(* A collective call is split into posting a contribution, which the task  *)
(* does at the end of the action before, and returning, once every task of *)
(* the launch has posted.  A line is a sequence of elements, each a value  *)
(* v and, for an argsort, the place i that it comes from.  A quantifier    *)
(* over a set {e} names a value e that is worked out once.                 *)
(***************************************************************************)
EXTENDS Integers, Sequences, FiniteSets, SequencesExt, TLC

CONSTANTS
  Problems,     \* what is sorted, and how it is laid out: see WellFormed
  Values        \* the values of elements

VARIABLES
  input,        \* the problem at hand
  posted,       \* posted[r]: what task r contributed to each collective so far
  num_sort_ranks, \* as task r sees it
  piece,        \* the sorted part of task r, a sequence of lines
  cut,          \* cut[r][d]: what of it goes to the sort rank d
  merged,       \* what task r holds after the exchange
  out           \* << the result of task r >>, << >> as long as it runs
vars == << input, posted, num_sort_ranks, piece, cut, merged, out >>

SumOf(s) == FoldLeft(LAMBDA x, y : x + y, 0, s)
OnlyLast(sizes) == \E n \in 1..Len(sizes) : \A r \in DOMAIN sizes : sizes[r] > 0 <=> r <= n
\* sizes: the extent of each sort rank's part of a line; lines[g][s]: the values of line s of group
\* g.  Parts without elements come last (asserted at 523).  A bound result has the tiles that Legate
\* cuts, all of one extent up to the last, and no task holds a whole line while others hold nothing.
WellFormed(p) ==
  /\ p.sizes \in Seq(Nat) /\ p.lines \in Seq(Seq(Seq(Values)))
  /\ p.argsort \in BOOLEAN /\ p.stable \in BOOLEAN /\ p.bound \in BOOLEAN
  /\ \A g \in DOMAIN p.lines : \A s \in DOMAIN p.lines[g] :
       Len(p.lines[g][s]) = SumOf(p.sizes)
  /\ SumOf(p.sizes) > 0 => OnlyLast(p.sizes)
  /\ p.bound => /\ \A r \in 1..(Len(p.sizes) - 1) :
                     p.sizes[r] = p.sizes[1] \/ \A q \in (r + 1)..Len(p.sizes) : p.sizes[q] = 0
                /\ \A r \in DOMAIN p.sizes : p.sizes[r] <= p.sizes[1]
                /\ Len(p.sizes) > 1 /\ p.sizes[1] > 0 => p.sizes[2] > 0
  /\ p.bound \/ (Len(p.lines) = 1 /\ Len(p.lines[1]) = 1)
ASSUME ValuesAssumption == Values \subseteq Int
ASSUME ProblemsWellFormed == \A p \in Problems : WellFormed(p)

SortRanks == Len(input.sizes)
Ranks == 0..(Len(input.lines) * SortRanks - 1)
sort_rank(r) == r % SortRanks
group(r) == r \div SortRanks
segment_size_l(r) == input.sizes[sort_rank(r) + 1]
segment_size_g == SumOf(input.sizes)
num_segments_l(r) == IF segment_size_l(r) > 0 THEN Len(input.lines[group(r) + 1]) ELSE 0
volume(r) == segment_size_l(r) * num_segments_l(r)
Offset(r) == SumOf(SubSeq(input.sizes, 1, sort_rank(r)))
\* The n first tasks of r's sort group.
Group(r, n) == { group(r) * SortRanks + k : k \in 0..(n - 1) }

\* Part of r of line s, with the places for an argsort.
Part(r, s) ==
  [k \in 1..segment_size_l(r) |-> [v |-> input.lines[group(r) + 1][s][Offset(r) + k],
                                   i |-> IF input.argsort THEN Offset(r) + k - 1 ELSE 0]]
\* s in the order of Before; what is not before each other stays in the order of s.  An element's
\* place is how many there are up to it.
Ordered(s, Before(_, _)) ==
  LET place(k) == Cardinality({ j \in DOMAIN s : Before(s[j], s[k]) \/ (j <= k /\ ~Before(s[k], s[j])) })
  IN CHOOSE t \in { [n \in DOMAIN s |-> s[CHOOSE k \in DOMAIN s : p[k] = n]] :
                      p \in { [k \in DOMAIN s |-> place(k)] } } : TRUE
Smaller(a, b) == a.v < b.v
StableSort(line) == Ordered(line, Smaller)
\* The outcomes of thrust::stable_sort_by_key, or of sort_by_key.
LocalSorts(line) ==
  IF input.stable THEN { StableSort(line) }
  ELSE { StableSort([k \in DOMAIN line |-> line[f[k]]]) : f \in Bijection(DOMAIN line, DOMAIN line) }
Projected(line) == [k \in DOMAIN line |-> IF input.argsort THEN line[k].i ELSE line[k].v]

-----------------------------------------------------------------------------
(* Collectives.  send[d]: what goes to task d; recv[q]: how much is        *)
(* expected of task q.                                                     *)

Post(r, op, send, recv) ==
  posted' = [posted EXCEPT ![r] = Append(@, [op |-> op, send |-> send, recv |-> recv])]
\* Task r is in its n-th collective, and every task has joined it.
Returned(r, n) == Len(posted[r]) = n /\ out[r] = << >> /\ \A q \in Ranks : Len(posted[q]) >= n
FromTask(r, n, q) == posted[q][n].send[r]
\* The same to each task of a set, and nothing to the others.
ToEach(S, message) == [d \in Ranks |-> IF d \in S THEN message ELSE << >>]
CountFrom(S, n) == [q \in Ranks |-> IF q \in S THEN n ELSE 0]

-----------------------------------------------------------------------------
(* The tasks.                                                              *)

\* FAULTY: a task without elements returns.
Faultyreturns_early(r) == volume(r) = 0
\* sort_template.inl: a task without elements still takes part when others of its group have some.
returns_early(r) == (segment_size_l(r) = segment_size_g \/ SortRanks = 1) /\ volume(r) = 0
need_distributed_sort(r) == SortRanks > 1 /\ (segment_size_l(r) # segment_size_g \/ ~input.bound)

ReturnEarly(r) ==
  /\ out[r] = << >> /\ posted[r] = << >> /\ returns_early(r)
  /\ out' = [out EXCEPT ![r] = << << >> >>]
  /\ UNCHANGED << input, posted, num_sort_ranks, piece, cut, merged >>

\* The whole line is here.
SortAlone(r) ==
  /\ out[r] = << >> /\ posted[r] = << >> /\ ~returns_early(r) /\ ~need_distributed_sort(r)
  /\ \E sorted \in [1..num_segments_l(r) -> UNION { LocalSorts(Part(r, s)) : s \in 1..num_segments_l(r) }] :
       /\ \A s \in DOMAIN sorted : sorted[s] \in LocalSorts(Part(r, s))
       /\ out' = [out EXCEPT ![r] = << [s \in DOMAIN sorted |-> Projected(sorted[s])] >>]
  /\ UNCHANGED << input, posted, num_sort_ranks, piece, cut, merged >>

\* The local sort, and the question who has elements.
LocalSort(r) ==
  /\ out[r] = << >> /\ posted[r] = << >> /\ ~returns_early(r) /\ need_distributed_sort(r)
  /\ \E sorted \in [1..num_segments_l(r) -> UNION { LocalSorts(Part(r, s)) : s \in 1..num_segments_l(r) }] :
       /\ \A s \in DOMAIN sorted : sorted[s] \in LocalSorts(Part(r, s))
       /\ piece' = [piece EXCEPT ![r] = sorted]
  /\ Post(r, "workers", ToEach(Ranks, << IF segment_size_l(r) > 0 THEN 1 ELSE 0 >>), CountFrom(Ranks, 1))
  /\ UNCHANGED << input, num_sort_ranks, cut, merged, out >>

\* FAULTY: tasks without elements stay members of the group.
Faultysort_ranks_of(r, worker_count) == worker_count \div Len(input.lines)
\* The sort ranks that exchange elements; none, for a task that has none.
sort_ranks_of(r, worker_count) ==
  IF worker_count < Cardinality(Ranks) /\ volume(r) = 0 THEN 0 ELSE worker_count \div Len(input.lines)

\* n samples of a line, fewer when it is shorter; the rest is not populated.
SamplesOf(r, s, line, n) ==
  [k \in 1..n |->
     IF n < Len(line) THEN LET at == (k * Len(line)) \div n IN [segment |-> s, rank |-> sort_rank(r), value |-> line[at].v, position |-> at]
     ELSE IF k <= Len(line) THEN [segment |-> s, rank |-> sort_rank(r), value |-> line[k].v, position |-> k]
     ELSE [segment |-> s, rank |-> -1, value |-> 0, position |-> 0]]

SelectSamples(r) ==
  /\ Returned(r, 1)
  /\ \E n \in { sort_ranks_of(r, SumOf([k \in 1..Cardinality(Ranks) |-> FromTask(r, 1, k - 1)[1]])) } :
     \E samples \in { FlattenSeq([s \in DOMAIN piece[r] |-> SamplesOf(r, s, piece[r][s], n)]) } :
       /\ num_sort_ranks' = [num_sort_ranks EXCEPT ![r] = n]
       /\ Post(r, "samples", ToEach(Group(r, n), samples), CountFrom(Group(r, n), Len(samples)))
  /\ UNCHANGED << input, piece, cut, merged, out >>

\* SegmentSampleComparator.
Precedes(a, b) ==
  IF a.segment # b.segment THEN a.segment < b.segment
  ELSE IF a.rank < 0 \/ b.rank < 0 THEN b.rank < 0 /\ a.rank >= 0
  ELSE IF a.value # b.value THEN a.value < b.value
  ELSE IF a.rank # b.rank THEN a.rank < b.rank
  ELSE a.position < b.position
\* The samples of each line, one line after the other, and how many are populated of the first.
Usable(samples, per_segment) == Cardinality({ k \in 1..per_segment : samples[k].rank # -1 })
\* FAULTY: ties go the other way.
FaultyEndAt(line, from, me, splitter) ==
  IF me = splitter.rank THEN splitter.position
  ELSE from + Cardinality({ k \in (from + 1)..Len(line) :
                              line[k].v < splitter.value \/ (me > splitter.rank /\ line[k].v = splitter.value) })
\* Where a part ends that is cut from a line behind `from`: behind the elements that come before the
\* splitter in the order of values, ranks and positions.
EndAt(line, from, me, splitter) ==
  IF me = splitter.rank THEN splitter.position
  ELSE from + Cardinality({ k \in (from + 1)..Len(line) :
                              line[k].v < splitter.value \/ (me < splitter.rank /\ line[k].v = splitter.value) })
\* The ends of the parts of the n sort ranks in line s.
Ends(r, s, line, samples, n) ==
  LET per_segment == n * n
      usable == Usable(samples, per_segment)
      splitter(d) == samples[(s - 1) * per_segment + (d * usable) \div n]
      end[d \in 1..n] ==
        IF d = n THEN Len(line) ELSE EndAt(line, IF d = 1 THEN 0 ELSE end[d - 1], sort_rank(r), splitter(d))
  IN end

Members(r) == Group(r, num_sort_ranks[r])
\* What goes to each of the n sort ranks; the sizes of a part's lines, and their sum.
Parts(r, ends, n) ==
  [d \in 1..n |-> [s \in DOMAIN ends |-> SubSeq(piece[r][s], IF d = 1 THEN 1 ELSE ends[s][d - 1] + 1, ends[s][d])]]
WithTotal(lines) == Append([s \in DOMAIN lines |-> Len(lines[s])], SumOf([s \in DOMAIN lines |-> Len(lines[s])]))

SelectSplitters(r) ==
  /\ Returned(r, 2)
  /\ \E all \in { FlattenSeq([k \in 1..num_sort_ranks[r] |-> FromTask(r, 2, group(r) * SortRanks + k - 1)]) } :
     \E samples \in { Ordered(all, Precedes) } :
     \E parts \in { Parts(r, [s \in DOMAIN piece[r] |-> Ends(r, s, piece[r][s], samples, num_sort_ranks[r])], num_sort_ranks[r]) } :
       /\ cut' = [cut EXCEPT ![r] = parts]
       /\ Post(r, "sizes", [q \in Ranks |-> IF q \in Members(r) THEN WithTotal(parts[sort_rank(q) + 1]) ELSE << >>],
               CountFrom(Members(r), num_segments_l(r) + 1))
  /\ UNCHANGED << input, num_sort_ranks, piece, merged, out >>

Sizes(r, q) == FromTask(r, 3, q)
\* What task q expects of r, and the other way round; the values, then the places.
SendParts(r, op, Of(_)) ==
  Post(r, op, [q \in Ranks |-> IF q \in Members(r) THEN LET line == FlattenSeq(cut[r][sort_rank(q) + 1]) IN [k \in DOMAIN line |-> Of(line[k])] ELSE << >>],
       [q \in Ranks |-> IF q \in Members(r) THEN Last(Sizes(r, q)) ELSE 0])
SendValues(r) ==
  /\ Returned(r, 3)
  /\ SendParts(r, "values", LAMBDA e : e.v)
  /\ UNCHANGED << input, num_sort_ranks, piece, cut, merged, out >>
SendIndices(r) ==
  /\ input.argsort /\ Returned(r, 4)
  /\ SendParts(r, "indices", LAMBDA e : e.i)
  /\ UNCHANGED << input, num_sort_ranks, piece, cut, merged, out >>

Exchanges == IF input.argsort THEN 5 ELSE 4
\* The elements of line s that task q sent, which follow those of the lines before.
Received(r, q, s) ==
  LET before == SumOf(SubSeq(Sizes(r, q), 1, s - 1))
  IN [k \in 1..Sizes(r, q)[s] |-> [v |-> FromTask(r, 4, q)[before + k], i |-> IF input.argsort THEN FromTask(r, 5, q)[before + k] ELSE 0]]
MergedLine(r, s) == StableSort(FlattenSeq([k \in 1..num_sort_ranks[r] |-> Received(r, group(r) * SortRanks + k - 1, s)]))
\* How many elements of each line are too many.
Surplus(r, lines) == [s \in DOMAIN lines |-> Len(lines[s]) - segment_size_l(r)]

Merge(r) ==
  /\ Returned(r, Exchanges)
  /\ \E lines \in { [s \in 1..num_segments_l(r) |-> MergedLine(r, s)] } :
        /\ merged' = [merged EXCEPT ![r] = lines]
        /\ IF input.bound
           THEN /\ Post(r, "surplus", ToEach(Members(r), Surplus(r, lines)), CountFrom(Members(r), num_segments_l(r)))
                /\ UNCHANGED out
           ELSE /\ out' = [out EXCEPT ![r] = << [s \in DOMAIN lines |-> Projected(lines[s])] >>]
                /\ UNCHANGED posted
  /\ UNCHANGED << input, num_sort_ranks, piece, cut >>

\* The surplus of line s of the sort ranks up to r's, and from r's on: what goes to the right and to
\* the left, or comes from there when it is negative.
surplus(r, s, first, last) ==
  SumOf([k \in 1..(last - first + 1) |-> FromTask(r, Exchanges + 1, group(r) * SortRanks + first + k - 1)[s]])
send_right(r, s) == surplus(r, s, 0, sort_rank(r))
send_left(r, s) == surplus(r, s, sort_rank(r), num_sort_ranks[r] - 1)
Positive(n) == IF n > 0 THEN n ELSE 0
\* Elements from..to of a line, whatever is there in memory.
Read(line, from, to) == [k \in 1..Positive(to - from + 1) |-> IF from + k - 1 \in DOMAIN line THEN line[from + k - 1] ELSE [v |-> 0, i |-> -1]]
Leftmost(r, s) == Read(merged[r][s], 1, send_left(r, s))
Rightmost(r, s) == Read(merged[r][s], Len(merged[r][s]) - Positive(send_right(r, s)) + 1, Len(merged[r][s]))
Middle(r, s) == Read(merged[r][s], Positive(send_left(r, s)) + 1, Len(merged[r][s]) - Positive(send_right(r, s)))
OverLines(r, Of(_)) == FlattenSeq([s \in DOMAIN merged[r] |-> Of(s)])

Balance(r) ==
  /\ input.bound /\ Returned(r, Exchanges + 1)
  /\ Post(r, "neighbours",
          [q \in Ranks |-> IF q = r - 1 THEN OverLines(r, LAMBDA s : Leftmost(r, s))
                           ELSE IF q = r + 1 THEN OverLines(r, LAMBDA s : Rightmost(r, s)) ELSE << >>],
          [q \in Ranks |-> IF q = r - 1 THEN SumOf([s \in DOMAIN merged[r] |-> Positive(-send_left(r, s))])
                           ELSE IF q = r + 1 THEN SumOf([s \in DOMAIN merged[r] |-> Positive(-send_right(r, s))]) ELSE 0])
  /\ UNCHANGED << input, num_sort_ranks, piece, cut, merged, out >>

\* The elements of line s that come from a neighbour, behind those of the lines before.
Incoming(r, q, s, Count(_, _)) ==
  LET before == SumOf([t \in 1..(s - 1) |-> Positive(-Count(r, t))])
  IN IF Count(r, s) < 0 THEN Read(FromTask(r, Exchanges + 2, q), before + 1, before - Count(r, s)) ELSE << >>
Finish(r) ==
  /\ input.bound /\ Returned(r, Exchanges + 2)
  /\ out' = [out EXCEPT ![r] = << [s \in DOMAIN merged[r] |->
       Projected(Incoming(r, r - 1, s, send_left) \o Middle(r, s) \o Incoming(r, r + 1, s, send_right))] >>]
  /\ UNCHANGED << input, posted, num_sort_ranks, piece, cut, merged >>

Init ==
  /\ input \in Problems
  /\ posted = [r \in Ranks |-> << >>]
  /\ num_sort_ranks = [r \in Ranks |-> SortRanks]
  /\ piece = [r \in Ranks |-> << >>]
  /\ cut = [r \in Ranks |-> << >>]
  /\ merged = [r \in Ranks |-> << >>]
  /\ out = [r \in Ranks |-> << >>]

Done == \A r \in Ranks : out[r] # << >>
Step(r) ==
  \/ ReturnEarly(r) \/ SortAlone(r) \/ LocalSort(r) \/ SelectSamples(r) \/ SelectSplitters(r)
  \/ SendValues(r) \/ SendIndices(r) \/ Merge(r) \/ Balance(r) \/ Finish(r)
Next == \E r \in Ranks : Step(r)
\* The tasks of a launch run concurrently (with_concurrent, sort.h:100): some of them always goes on.
Spec == Init /\ [][Next]_vars /\ WF_vars(Next)

-----------------------------------------------------------------------------
(* Properties.                                                             *)

\* The line that the tasks of group g have together.
Concatenated(g, s) ==
  FlattenSeq([k \in 1..SortRanks |-> LET o == out[(g - 1) * SortRanks + k - 1][1] IN IF s \in DOMAIN o THEN o[s] ELSE << >>])
\* The whole line s of group g, in order.
InOrder(g, s) == StableSort([k \in DOMAIN input.lines[g][s] |-> [v |-> input.lines[g][s][k], i |-> k - 1]])

\* A task shifts to its two neighbours no more than it holds of each line ("edge case --> send more
\* than whole line should not happen due to sample choice!", sort_cpu.inl:214).
ShiftsFit ==
  \A r \in Ranks : Len(posted[r]) > Exchanges + 1 => \A s \in DOMAIN merged[r] :
    Positive(send_left(r, s)) + Positive(send_right(r, s)) <= Len(merged[r][s])

\* When all tasks of a sort are done, their results, one after the other, are every line in order: its
\* values, or the places of its elements, each once, equal elements in the order of their places when
\* the sort is stable.  A bound result has the extents of the input on every task; an unbound one may
\* be cut anywhere.  Samples, splitters between equal elements, tasks without elements and the shift
\* to the neighbours leave no other element, none twice and none out of place, unless a task shifts
\* more than it holds.
SortsTheWhole ==
  Done /\ ShiftsFit =>
    /\ \A g \in DOMAIN input.lines : \A s \in DOMAIN input.lines[g] :
         LET line == InOrder(g, s) found == Concatenated(g, s)
         IN IF ~input.argsort THEN found = [k \in DOMAIN line |-> line[k].v]
            ELSE IF input.stable THEN found = [k \in DOMAIN line |-> line[k].i]
            ELSE /\ { found[k] : k \in DOMAIN found } = { line[k].i : k \in DOMAIN line }
                 /\ Len(found) = Len(line)
                 /\ \A k \in DOMAIN line : input.lines[g][s][found[k] + 1] = line[k].v
    /\ input.bound => \A r \in Ranks : Len(out[r][1]) = num_segments_l(r) /\ \A s \in DOMAIN out[r][1] : Len(out[r][1][s]) = segment_size_l(r)

\* In each collective every task calls the same operation and each expects of each what that one sends,
\* although everyone works its counts out alone, from samples, sizes and surpluses.
ExchangesFit ==
  \A r, q \in Ranks : \A n \in DOMAIN posted[r] \intersect DOMAIN posted[q] :
    /\ posted[r][n].op = posted[q][n].op
    /\ Len(posted[r][n].send[q]) = posted[q][n].recv[r]

\* Every task of the launch comes to its end: nobody waits in a collective that another one does not
\* call, those without elements included.
Terminates == <>Done
=============================================================================
