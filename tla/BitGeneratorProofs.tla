------------------------- MODULE BitGeneratorProofs -------------------------
(***************************************************************************)
(* Proofs about the generators of random bits, for any processors, any     *)
(* number of handles and calls, and any order of execution that the fences *)
(* leave to the runtime.                                                   *)
(***************************************************************************)
EXTENDS BitGenerator, TLAPS

\* The fence after a CREATE task keeps it before every draw of its handle,
\* so the handle has no generator where the task has still to run.
Created ==
  /\ \A p \in Procs, h \in Handles : gens[p][h] # None => h <= ids
  /\ \A t \in pending : t.op = "create" => /\ gens[t.proc][t.id] = None
                                           /\ t.epoch < fences
  /\ \A t, u \in pending :
       t.op = "create" /\ u.op = "draw" /\ t.id = u.id => t.epoch < u.epoch
  /\ \A t, u \in pending :
       /\ t.op = "create" /\ u.op = "create" /\ t.id = u.id /\ t.proc = u.proc
       => t = u

\* Seeds travel with the tasks.
Seeded ==
  /\ \A t \in pending : asked[t.id] # None => t.seed = asked[t.id]
  /\ \A p \in Procs, h \in Handles :
       gens[p][h] # None /\ asked[h] # None => gens[p][h].seed = asked[h]
  /\ \A d \in drawn : d.id \in 1..ids

IInv == TypeOK /\ Created /\ NeverInUse

\* What the fields of a new point task are.
LEMMA PointFields ==
  ASSUME NEW op, NEW h, NEW seed, NEW kill, NEW ps, NEW t \in Points(op, h, seed, kill, ps)
  PROVE  /\ t.n = issued /\ t.op = op /\ t.id = h /\ t.seed = seed /\ t.kill = kill
         /\ t.epoch = fences /\ t.proc \in ps
BY DEF Points

\* On one processor a handle has one point of a task.
LEMMA PointsDiffer ==
  ASSUME NEW op, NEW h, NEW seed, NEW kill, NEW ps,
         NEW t \in Points(op, h, seed, kill, ps), NEW u \in Points(op, h, seed, kill, ps),
         t.proc = u.proc
  PROVE  t = u
BY DEF Points

LEMMA ForceBuildPreserves ==
  ASSUME IInv, NEW s \in Seeds \union {None}, ForceBuild(s)
  PROVE  IInv'
<1> DEFINE new == Points("create", ids + 1, s, zombies, Procs)
<1>1. /\ ids < MaxGens /\ s \in Seeds /\ ids' = ids + 1
      /\ asked' = [asked EXCEPT ![ids + 1] = s] /\ live' = live \union {ids + 1}
      /\ pending' = pending \union new /\ issued' = issued + 1
      /\ zombies' = {} /\ fences' = fences + 1 /\ raced' = raced \union Overtaken
      /\ UNCHANGED <<gens, drawn, fatal>>
  BY DEF ForceBuild, FenceAfterCreate
<1>2. \A t \in new : /\ t.n = issued /\ t.op = "create" /\ t.id = ids + 1 /\ t.seed = s
                     /\ t.kill = zombies /\ t.epoch = fences /\ t.proc \in Procs
  BY PointFields
<1>3. \A t, u \in new : t.proc = u.proc => t = u
  BY PointsDiffer
<1> HIDE DEF new
<1>4. /\ ids \in Nat /\ MaxGens \in Nat /\ ids + 1 \in Handles /\ issued \in Nat /\ fences \in Nat
      /\ \A i : i \in 1..ids => i \in 1..(ids + 1)
      /\ \A t \in pending : t.id \in 1..ids /\ t.epoch \in 0..fences
  BY <1>1, BoundAssumption DEF IInv, TypeOK, Handles
<1>5. TypeOK'
  <2>1. \A t \in pending' :
         /\ t.n \in 0..(issued' - 1) /\ t.op \in {"create", "draw"}
         /\ t.id \in 1..ids' /\ t.seed \in Seeds \union {Clock}
         /\ t.kill \subseteq 1..ids' /\ t.epoch \in 0..fences' /\ t.proc \in Procs
    <3> SUFFICES ASSUME NEW t \in pending'
                 PROVE  /\ t.n \in 0..(issued' - 1) /\ t.op \in {"create", "draw"}
                        /\ t.id \in 1..ids' /\ t.seed \in Seeds \union {Clock}
                        /\ t.kill \subseteq 1..ids' /\ t.epoch \in 0..fences'
                        /\ t.proc \in Procs
      OBVIOUS
    <3>1. CASE t \in pending
      <4>1. /\ t.n \in 0..(issued - 1) /\ t.op \in {"create", "draw"}
            /\ t.id \in 1..ids /\ t.seed \in Seeds \union {Clock}
            /\ t.kill \subseteq 1..ids /\ t.epoch \in 0..fences /\ t.proc \in Procs
        BY <3>1 DEF IInv, TypeOK
      <4>2. t.n \in 0..(issued' - 1) /\ t.id \in 1..ids' /\ t.epoch \in 0..fences'
        BY <1>1, <1>4, <4>1
      <4>3. t.kill \subseteq 1..ids'
        BY <1>1, <1>4, <4>1
      <4> QED
        BY <4>1, <4>2, <4>3
    <3>2. CASE t \in new
      <4>1. t.n \in 0..(issued' - 1) /\ t.id \in 1..ids' /\ t.epoch \in 0..fences'
        BY <1>1, <1>2, <1>4, <3>2
      <4>2. t.kill \subseteq 1..ids'
        BY <1>1, <1>2, <1>4, <3>2 DEF IInv, TypeOK
      <4> QED
        BY <1>1, <1>2, <3>2, <4>1, <4>2
    <3> QED
      BY <1>1, <3>1, <3>2
  <2>2. asked' \in [Handles -> Seeds \union {None}]
    BY <1>1, <1>4 DEF IInv, TypeOK
  <2>3. ids' \in 0..MaxGens /\ issued' \in Nat /\ fences' \in Nat
    BY <1>1, <1>4
  <2>4. live' \subseteq 1..ids' /\ zombies' \subseteq 1..ids'
    <3>1. live \subseteq 1..ids
      BY DEF IInv, TypeOK
    <3>2. ids + 1 \in 1..ids'
      BY <1>1, <1>4
    <3> QED
      BY <1>1, <1>4, <3>1, <3>2
  <2>5. raced' \subseteq Procs \X (1..ids')
    <3>1. raced \subseteq Procs \X (1..ids) /\ Overtaken \subseteq Procs \X (1..ids)
      BY DEF IInv, TypeOK, Overtaken
    <3> QED
      BY <1>1, <1>4, <3>1
  <2> QED
    BY <1>1, <2>1, <2>2, <2>3, <2>4, <2>5 DEF IInv, TypeOK
<1>6. Created'
  <2>1. \A p \in Procs, h \in Handles : gens'[p][h] # None => h <= ids'
    BY <1>1, <1>4 DEF IInv, Created, Handles
  <2>2. \A p \in Procs : gens[p][ids + 1] = None
    BY <1>4 DEF IInv, Created
  <2>3. \A t \in pending' : t.op = "create" => gens'[t.proc][t.id] = None /\ t.epoch < fences'
    BY <1>1, <1>2, <1>4, <2>2 DEF IInv, Created
  <2>4. \A t \in pending, u \in new : t.id # u.id
    BY <1>2, <1>4
  <2>5. \A t, u \in pending' :
          t.op = "create" /\ u.op = "draw" /\ t.id = u.id => t.epoch < u.epoch
    BY <1>1, <1>2, <2>4 DEF IInv, Created
  <2>6. \A t, u \in pending' :
          t.op = "create" /\ u.op = "create" /\ t.id = u.id /\ t.proc = u.proc => t = u
    BY <1>1, <1>3, <2>4 DEF IInv, Created
  <2> QED
    BY <2>1, <2>3, <2>5, <2>6 DEF Created
<1> QED
  BY <1>1, <1>5, <1>6 DEF IInv, NeverInUse

LEMMA DrawPreserves ==
  ASSUME IInv, NEW h \in Handles, Draw(h)
  PROVE  IInv'
<1>1. PICK ps \in SUBSET Procs \ {{}} :
        pending' = pending \union Points("draw", h, SeedOf(asked[h]), {}, ps)
  BY DEF Draw
<1> DEFINE new == Points("draw", h, SeedOf(asked[h]), {}, ps)
<1>2. /\ h \in 1..ids /\ pending' = pending \union new /\ issued' = issued + 1
      /\ UNCHANGED <<ids, asked, live, zombies, fences, gens, drawn, fatal, raced>>
  BY <1>1 DEF Draw, IInv, TypeOK
<1>3. \A t \in new : /\ t.n = issued /\ t.op = "draw" /\ t.id = h
                     /\ t.seed = SeedOf(asked[h]) /\ t.kill = {}
                     /\ t.epoch = fences /\ t.proc \in Procs
  BY PointFields
<1> HIDE DEF new
<1>4. SeedOf(asked[h]) \in Seeds \union {Clock}
  BY DEF SeedOf, IInv, TypeOK
<1>5. issued \in Nat /\ fences \in Nat
  BY DEF IInv, TypeOK
<1>6. TypeOK'
  <2>1. \A t \in pending' :
         /\ t.n \in 0..(issued' - 1) /\ t.op \in {"create", "draw"}
         /\ t.id \in 1..ids' /\ t.seed \in Seeds \union {Clock}
         /\ t.kill \subseteq 1..ids' /\ t.epoch \in 0..fences' /\ t.proc \in Procs
    <3> SUFFICES ASSUME NEW t \in pending'
                 PROVE  /\ t.n \in 0..(issued' - 1) /\ t.op \in {"create", "draw"}
                        /\ t.id \in 1..ids' /\ t.seed \in Seeds \union {Clock}
                        /\ t.kill \subseteq 1..ids' /\ t.epoch \in 0..fences'
                        /\ t.proc \in Procs
      OBVIOUS
    <3>1. CASE t \in pending
      <4>1. /\ t.n \in 0..(issued - 1) /\ t.op \in {"create", "draw"}
            /\ t.id \in 1..ids /\ t.seed \in Seeds \union {Clock}
            /\ t.kill \subseteq 1..ids /\ t.epoch \in 0..fences /\ t.proc \in Procs
        BY <3>1 DEF IInv, TypeOK
      <4>2. t.n \in 0..(issued' - 1)
        BY <1>2, <1>5, <4>1
      <4> QED
        BY <1>2, <4>1, <4>2
    <3>2. CASE t \in new
      <4>1. t.n \in 0..(issued' - 1) /\ t.epoch \in 0..fences'
        BY <1>2, <1>3, <1>5, <3>2
      <4> QED
        BY <1>2, <1>3, <1>4, <3>2, <4>1
    <3> QED
      BY <1>2, <3>1, <3>2
  <2> QED
    BY <1>2, <1>5, <2>1 DEF IInv, TypeOK
<1>7. Created'
  BY <1>2, <1>3 DEF IInv, Created
<1> QED
  BY <1>2, <1>6, <1>7 DEF IInv, NeverInUse

\* Between a CREATE task and a draw that its fence holds back, nothing else
\* can have built the generator.
LEMMA RunCreatePreserves ==
  ASSUME IInv, NEW t \in pending, RunCreate(t)
  PROVE  IInv'
<1> DEFINE g == Without(gens[t.proc], t.kill)
<1>1. /\ t.op = "create" /\ fatal' = (fatal \/ g[t.id] # None)
      /\ gens' = [gens EXCEPT ![t.proc] = [g EXCEPT ![t.id] = New(t.seed)]]
      /\ pending' = pending \ {t}
      /\ UNCHANGED <<ids, asked, live, zombies, issued, fences, drawn, raced>>
  BY DEF RunCreate
<1>2. /\ t.proc \in Procs /\ t.id \in 1..ids /\ t.id \in Handles
      /\ t.seed \in Seeds \union {Clock} /\ ids \in Nat
  BY BoundAssumption DEF IInv, TypeOK, Handles
<1>3. gens[t.proc] \in [Handles -> Generator \union {None}]
  BY <1>2 DEF IInv, TypeOK
<1>4. /\ g \in [Handles -> Generator \union {None}]
      /\ \A h \in Handles : g[h] = None \/ g[h] = gens[t.proc][h]
  BY <1>3 DEF Without
<1>5. g[t.id] = None
  BY <1>1, <1>2, <1>4 DEF IInv, Created
<1> HIDE DEF g
<1>6. New(t.seed) \in Generator
  BY <1>2 DEF New, Generator
<1>7. gens' \in [Procs -> [Handles -> Generator \union {None}]]
  BY <1>1, <1>2, <1>4, <1>6 DEF IInv, TypeOK
<1>8. \A p \in Procs, h \in Handles :
        gens'[p][h] # None => gens[p][h] # None \/ (p = t.proc /\ h = t.id)
  BY <1>1, <1>2, <1>4 DEF IInv, TypeOK
<1>9. TypeOK'
  BY <1>1, <1>5, <1>7 DEF IInv, TypeOK
<1>10. Created'
  <2>1. \A p \in Procs, h \in Handles : gens'[p][h] # None => h <= ids
    BY <1>2, <1>8 DEF IInv, Created
  <2>2. \A u \in pending' : u.op = "create" => gens'[u.proc][u.id] = None
    <3> SUFFICES ASSUME NEW u \in pending', u.op = "create"
                 PROVE  gens'[u.proc][u.id] = None
      OBVIOUS
    <3>1. u \in pending /\ u # t
      BY <1>1
    <3>2. /\ gens[u.proc][u.id] = None /\ ~(u.proc = t.proc /\ u.id = t.id)
          /\ u.proc \in Procs /\ u.id \in Handles
      BY <1>1, <3>1, BoundAssumption DEF IInv, Created, TypeOK, Handles
    <3> QED
      BY <1>8, <3>2
  <2> QED
    BY <1>1, <2>1, <2>2 DEF IInv, Created
<1> QED
  BY <1>1, <1>5, <1>9, <1>10 DEF IInv, NeverInUse

LEMMA RunDrawPreserves ==
  ASSUME IInv, NEW t \in pending, RunDraw(t)
  PROVE  IInv'
<1> DEFINE g == GeneratorFor(gens[t.proc], t)
<1>1. /\ t.op = "draw" /\ Ready(t)
      /\ gens' = [gens EXCEPT ![t.proc][t.id] = [g EXCEPT !.at = @ + 1]]
      /\ drawn' = drawn \union
           {[n |-> t.n, proc |-> t.proc, id |-> t.id, seed |-> g.seed, at |-> g.at]}
      /\ pending' = pending \ {t}
      /\ UNCHANGED <<ids, asked, live, zombies, issued, fences, fatal, raced>>
  BY DEF RunDraw
<1>2. /\ t.proc \in Procs /\ t.id \in 1..ids /\ t.id \in Handles
      /\ t.seed \in Seeds \union {Clock} /\ ids \in Nat
  BY BoundAssumption DEF IInv, TypeOK, Handles
<1>3. gens[t.proc] \in [Handles -> Generator \union {None}]
  BY <1>2 DEF IInv, TypeOK
<1>4. g \in Generator
  BY <1>2, <1>3 DEF GeneratorFor, New, Generator
<1> HIDE DEF g
<1>5. [g EXCEPT !.at = @ + 1] \in Generator
  BY <1>4 DEF Generator
<1>6. gens' \in [Procs -> [Handles -> Generator \union {None}]]
  BY <1>1, <1>2, <1>3, <1>5 DEF IInv, TypeOK
<1>7. \A p \in Procs, h \in Handles :
        gens'[p][h] = gens[p][h] \/ (p = t.proc /\ h = t.id)
  BY <1>1, <1>2, <1>3 DEF IInv, TypeOK
<1>8. TypeOK'
  BY <1>1, <1>6 DEF IInv, TypeOK
<1>9. Created'
  <2>1. \A p \in Procs, h \in Handles : gens'[p][h] # None => h <= ids
    BY <1>2, <1>7 DEF IInv, Created
  <2>2. \A u \in pending' : u.op = "create" => gens'[u.proc][u.id] = None
    <3> SUFFICES ASSUME NEW u \in pending', u.op = "create"
                 PROVE  gens'[u.proc][u.id] = None
      OBVIOUS
    <3>1. u \in pending /\ u.proc \in Procs /\ u.id \in Handles /\ gens[u.proc][u.id] = None
      BY <1>1, BoundAssumption DEF IInv, Created, TypeOK, Handles
    <3>2. u.epoch >= t.epoch /\ u.epoch \in Nat /\ t.epoch \in Nat
      BY <1>1, <3>1 DEF Ready, IInv, TypeOK
    <3>3. u.id # t.id
      BY <1>1, <3>1, <3>2 DEF IInv, Created
    <3> QED
      BY <1>7, <3>1, <3>3
  <2> QED
    BY <1>1, <2>1, <2>2 DEF IInv, Created
<1> QED
  BY <1>1, <1>8, <1>9 DEF IInv, NeverInUse

LEMMA Invariant == Spec => []IInv
<1>1. Init => IInv
  <2> SUFFICES ASSUME Init
               PROVE  IInv
    OBVIOUS
  <2>1. gens \in [Procs -> [Handles -> Generator \union {None}]]
    BY DEF Init
  <2>2. \A p \in Procs, h \in Handles : gens[p][h] = None
    BY DEF Init
  <2>3. /\ ids = 0 /\ live = {} /\ zombies = {} /\ issued = 0 /\ fences = 0
        /\ pending = {} /\ drawn = {} /\ fatal = FALSE /\ raced = {}
    BY DEF Init
  <2>4. asked \in [Handles -> Seeds \union {None}]
    BY DEF Init
  <2>5. ids \in 0..MaxGens /\ issued \in Nat /\ fences \in Nat
    BY <2>3, BoundAssumption
  <2>6. TypeOK
    BY <2>1, <2>3, <2>4, <2>5 DEF TypeOK
  <2>7. Created
    BY <2>2, <2>3 DEF Created
  <2> QED
    BY <2>3, <2>6, <2>7 DEF IInv, NeverInUse
<1>2. IInv /\ [Next]_vars => IInv'
  <2> SUFFICES ASSUME IInv, [Next]_vars
               PROVE  IInv'
    OBVIOUS
  <2>1. ASSUME NEW s \in Seeds \union {None}, Construct(s)
        PROVE  IInv'
    <3>1. /\ ids < MaxGens /\ ids \in Nat /\ ids' = ids + 1 /\ ids + 1 \in Handles
          /\ MaxGens \in Nat
          /\ asked' = [asked EXCEPT ![ids + 1] = s] /\ live' = live \union {ids + 1}
          /\ UNCHANGED <<zombies, issued, fences, pending, gens, drawn, fatal, raced>>
      BY <2>1, BoundAssumption DEF Construct, IInv, TypeOK, Handles
    <3>2. \A i : i \in 1..ids => i \in 1..ids'
      BY <3>1
    <3>3. asked' \in [Handles -> Seeds \union {None}]
      BY <3>1 DEF IInv, TypeOK
    <3>4. \A t \in pending : t.id \in 1..ids' /\ t.kill \subseteq 1..ids'
      BY <3>2 DEF IInv, TypeOK
    <3>5. ids' \in 0..MaxGens /\ live' \subseteq 1..ids' /\ zombies' \subseteq 1..ids'
      <4>1. live \subseteq 1..ids /\ zombies \subseteq 1..ids
        BY DEF IInv, TypeOK
      <4>2. ids' \in 0..MaxGens /\ ids + 1 \in 1..ids'
        BY <3>1
      <4> QED
        BY <3>1, <3>2, <4>1, <4>2
    <3>6. TypeOK'
      <4>1. raced' \subseteq Procs \X (1..ids')
        BY <3>1, <3>2 DEF IInv, TypeOK
      <4> QED
        BY <3>1, <3>3, <3>4, <3>5, <4>1 DEF IInv, TypeOK
    <3>7. Created'
      BY <3>1 DEF IInv, Created, Handles
    <3> QED
      BY <3>1, <3>6, <3>7 DEF IInv, NeverInUse
  <2>2. ASSUME NEW h \in Handles, Delete(h)
        PROVE  IInv'
    BY <2>2 DEF Delete, IInv, TypeOK, Created, NeverInUse
  <2>3. CASE UNCHANGED vars
    BY <2>3 DEF vars, IInv, TypeOK, Created, NeverInUse
  <2> QED
    BY <2>1, <2>2, <2>3, ForceBuildPreserves, DrawPreserves, RunCreatePreserves,
       RunDrawPreserves DEF Next, Run
<1> QED
  BY <1>1, <1>2, PTL DEF Spec

\* Handles, tasks and generators keep their types.
THEOREM TypeCorrect == Spec => []TypeOK
<1>1. IInv => TypeOK
  BY DEF IInv
<1> QED
  BY <1>1, Invariant, PTL

\* The fatal error of generator_map::create is out of reach in every order
\* of execution that the fences allow.
THEOREM CreateNeverFails == Spec => []NeverInUse
<1>1. IInv => NeverInUse
  BY DEF IInv
<1> QED
  BY <1>1, Invariant, PTL

---------------------------------------------------------------------------
(* Seeds *)

SInv == IInv /\ Seeded /\ SeedHonoured

\* Without the seed 0, which the constructor takes for no seed, all numbers
\* a seeded BitGenerator returns come from streams with its seed, whether
\* their generators were built by force, lazily, or built again.
LEMMA SeedInvariant ==
  ASSUME 0 \notin Seeds
  PROVE  Spec => []SInv
<1>1. Init => Seeded /\ SeedHonoured
  BY DEF Init, Seeded, SeedHonoured
<1>2. IInv /\ IInv' /\ Seeded /\ SeedHonoured /\ [Next]_vars => Seeded' /\ SeedHonoured'
  <2> SUFFICES ASSUME IInv, IInv', Seeded, SeedHonoured, [Next]_vars
               PROVE  Seeded' /\ SeedHonoured'
    OBVIOUS
  <2>0. /\ ids \in Nat /\ MaxGens \in Nat
        /\ \A t \in pending : t.id \in 1..ids /\ t.id \in Handles /\ t.proc \in Procs
        /\ \A i \in 1..ids : i \in Handles /\ i # ids + 1 /\ i \in 1..(ids + 1)
        /\ asked \in [Handles -> Seeds \union {None}]
        /\ \A h \in Handles : ids + 1 = h => \A p \in Procs : gens[p][h] = None
    BY BoundAssumption DEF IInv, TypeOK, Created, Handles
  <2>1. ASSUME NEW s \in Seeds \union {None}, Construct(s) \/ ForceBuild(s)
        PROVE  Seeded' /\ SeedHonoured'
    <3>1. /\ ids + 1 \in Handles /\ ids' = ids + 1 /\ asked' = [asked EXCEPT ![ids + 1] = s]
          /\ UNCHANGED <<gens, drawn>>
      BY <2>0, <2>1 DEF Construct, ForceBuild, Handles
    <3>2. \A t \in pending' : t \in pending \/ (t.id = ids + 1 /\ t.seed = s)
      BY <2>1, PointFields DEF Construct, ForceBuild
    <3>3. asked'[ids + 1] = s /\ \A h \in Handles : h # ids + 1 => asked'[h] = asked[h]
      BY <2>0, <3>1
    <3>4. Seeded'
      BY <2>0, <3>1, <3>2, <3>3 DEF Seeded
    <3>5. SeedHonoured'
      BY <2>0, <3>1, <3>3 DEF Seeded, SeedHonoured
    <3> QED
      BY <3>4, <3>5
  <2>2. ASSUME NEW h \in Handles, Draw(h)
        PROVE  Seeded' /\ SeedHonoured'
    <3>1. UNCHANGED <<ids, asked, gens, drawn>>
      BY <2>2 DEF Draw
    <3>2. \A t \in pending' : t \in pending \/ (t.id = h /\ t.seed = SeedOf(asked[h]))
      BY <2>2, PointFields DEF Draw
    <3>3. asked[h] # None => SeedOf(asked[h]) = asked[h]
      BY <2>0 DEF SeedOf
    <3> QED
      BY <3>1, <3>2, <3>3 DEF Seeded, SeedHonoured
  <2>3. ASSUME NEW t \in pending, RunCreate(t)
        PROVE  Seeded' /\ SeedHonoured'
    <3> DEFINE g == Without(gens[t.proc], t.kill)
    <3>1. /\ gens' = [gens EXCEPT ![t.proc] = [g EXCEPT ![t.id] = New(t.seed)]]
          /\ pending' = pending \ {t} /\ UNCHANGED <<ids, asked, drawn>>
      BY <2>3 DEF RunCreate
    <3>2. /\ gens \in [Procs -> [Handles -> Generator \union {None}]]
          /\ \A h \in Handles : g[h] = None \/ g[h] = gens[t.proc][h]
          /\ g = [h \in Handles |-> g[h]]
      BY DEF Without, IInv, TypeOK
    <3> HIDE DEF g
    <3>3. New(t.seed).seed = t.seed
      BY DEF New
    <3>4. \A p \in Procs, h \in Handles :
            \/ gens'[p][h] = gens[p][h]
            \/ gens'[p][h] = None
            \/ p = t.proc /\ h = t.id /\ gens'[p][h].seed = t.seed
      BY <2>0, <3>1, <3>2, <3>3
    <3> QED
      BY <2>0, <3>1, <3>4 DEF Seeded, SeedHonoured
  <2>4. ASSUME NEW t \in pending, RunDraw(t)
        PROVE  Seeded' /\ SeedHonoured'
    <3> DEFINE g == GeneratorFor(gens[t.proc], t)
               d == [n |-> t.n, proc |-> t.proc, id |-> t.id, seed |-> g.seed, at |-> g.at]
    <3>1. /\ gens' = [gens EXCEPT ![t.proc][t.id] = [g EXCEPT !.at = @ + 1]]
          /\ drawn' = drawn \union {d}
          /\ pending' = pending \ {t} /\ UNCHANGED <<ids, asked>>
      BY <2>4 DEF RunDraw
    <3>2. asked[t.id] # None => g.seed = asked[t.id]
      BY <2>0 DEF GeneratorFor, New, Seeded
    <3>3. d.id = t.id /\ d.seed = g.seed
      OBVIOUS
    <3>4. gens \in [Procs -> [Handles -> Generator \union {None}]] /\ g \in Generator
      BY <2>0 DEF IInv, TypeOK, GeneratorFor, New, Generator
    <3>5. [g EXCEPT !.at = @ + 1].seed = g.seed
      BY <3>4 DEF Generator
    <3> HIDE DEF g, d
    <3>6. \A p \in Procs, h \in Handles :
            \/ gens'[p][h] = gens[p][h]
            \/ p = t.proc /\ h = t.id /\ gens'[p][h].seed = g.seed
      BY <2>0, <3>1, <3>4, <3>5
    <3>7. Seeded'
      BY <2>0, <3>1, <3>2, <3>3, <3>6 DEF Seeded
    <3>8. SeedHonoured'
      BY <3>1, <3>2, <3>3 DEF SeedHonoured
    <3> QED
      BY <3>7, <3>8
  <2>5. ASSUME NEW h \in Handles, Delete(h)
        PROVE  Seeded' /\ SeedHonoured'
    BY <2>5 DEF Delete, Seeded, SeedHonoured
  <2>6. CASE UNCHANGED vars
    BY <2>6 DEF vars, Seeded, SeedHonoured
  <2> QED
    BY <2>1, <2>2, <2>3, <2>4, <2>5, <2>6 DEF Next, Run
<1> QED
  BY <1>1, <1>2, Invariant, PTL DEF Spec, SInv

\* Every number drawn from a BitGenerator that was given a seed comes from a
\* generator with that seed, provided no caller passes 0.
THEOREM SeedsHonoured ==
  ASSUME 0 \notin Seeds
  PROVE  Spec => []SeedHonoured
<1>1. SInv => SeedHonoured
  BY DEF SInv
<1> QED
  BY <1>1, SeedInvariant, PTL

---------------------------------------------------------------------------
(* Zombies and replays *)

\* Only handles that nobody uses any more are on a todestroy list, and a fence
\* keeps the tasks of a handle before the one that destroys it, unless they
\* race.
Killing ==
  /\ live \intersect zombies = {}
  /\ \A t \in pending : t.kill \intersect live = {}
  /\ \A t \in pending : t.op = "draw" => t.kill = {}
  /\ \A t, u \in pending :
       u.proc = t.proc /\ u.id \in t.kill /\ <<u.proc, u.id>> \notin raced
       => u.epoch < t.epoch

\* NoLeak, for the generators that CREATE tasks are going to build, too.
Fated ==
  /\ \A p \in Procs, h \in Handles :
       <<p, h>> \notin raced /\ gens[p][h] # None => Remembered(p, h, 0)
  /\ \A t \in pending :
       <<t.proc, t.id>> \notin raced => Remembered(t.proc, t.id, t.epoch + 1)

\* A generator is ahead of everything that was drawn from its handle, or
\* nothing will be drawn from the handle again.
Spent(p, h) == h \notin live /\ \A t \in pending : ~(t.id = h /\ t.proc = p)
Streams ==
  \A d \in drawn :
    /\ d.id \in 1..ids /\ d.proc \in Procs /\ d.at \in Nat
    /\ \/ <<d.proc, d.id>> \in raced
       \/ gens[d.proc][d.id] # None /\ d.at < gens[d.proc][d.id].at
       \/ Spent(d.proc, d.id)

\* A pending task of a zombie is in an earlier epoch than a CREATE task
\* submitted now, or it races.
LEMMA TasksOfZombies ==
  ASSUME IInv, NEW t \in pending, t.id \in zombies,
         <<t.proc, t.id>> \notin raced \union Overtaken
  PROVE  t.epoch < fences
<1>1. t.epoch \in Nat /\ fences \in Nat /\ t.epoch <= fences /\ t.op \in {"create", "draw"}
  BY DEF IInv, TypeOK
<1>2. CASE t.op = "create"
  BY <1>2 DEF IInv, Created
<1>3. CASE t.op = "draw"
  <2>1. t.epoch # fences
    BY <1>3 DEF Overtaken
  <2> QED
    BY <1>1, <2>1
<1> QED
  BY <1>1, <1>2, <1>3

LEMMA KillingPreserved ==
  ASSUME IInv, Killing, [Next]_vars
  PROVE  Killing'
<1>0. /\ ids \in Nat /\ live \subseteq 1..ids /\ zombies \subseteq 1..ids
      /\ \A t \in pending : t.id \in 1..ids /\ t.kill \subseteq 1..ids
      /\ ids + 1 \notin 1..ids
  BY DEF IInv, TypeOK
<1>1. ASSUME NEW s \in Seeds \union {None}, Construct(s)
      PROVE  Killing'
  <2>1. live' = live \union {ids + 1} /\ UNCHANGED <<zombies, pending, raced>>
    BY <1>1 DEF Construct
  <2>2. \A t \in pending : ids + 1 \notin t.kill
    BY <1>0
  <2> QED
    BY <1>0, <2>1, <2>2 DEF Killing
<1>2. ASSUME NEW s \in Seeds \union {None}, ForceBuild(s)
      PROVE  Killing'
  <2> DEFINE new == Points("create", ids + 1, s, zombies, Procs)
  <2>1. /\ live' = live \union {ids + 1} /\ zombies' = {} /\ pending' = pending \union new
        /\ raced' = raced \union Overtaken
    BY <1>2 DEF ForceBuild
  <2>2. \A t \in new : /\ t.op = "create" /\ t.id = ids + 1 /\ t.kill = zombies
                       /\ t.epoch = fences
    BY PointFields
  <2> HIDE DEF new
  <2>4. \A t \in pending' : t.kill \intersect live' = {}
    <3>1. \A t \in pending : t.kill \intersect live = {} /\ ids + 1 \notin t.kill
      BY <1>0 DEF Killing
    <3>2. zombies \intersect live = {} /\ ids + 1 \notin zombies
      BY <1>0 DEF Killing
    <3> QED
      BY <2>1, <2>2, <3>1, <3>2
  <2>5. ASSUME NEW t \in pending', NEW u \in pending', u.proc = t.proc, u.id \in t.kill,
               <<u.proc, u.id>> \notin raced'
        PROVE  u.epoch < t.epoch
    <3>1. t.kill \subseteq 1..ids
      BY <1>0, <2>1, <2>2
    <3>2. u \in pending
      BY <1>0, <2>1, <2>2, <2>5, <3>1
    <3>3. CASE t \in pending
      BY <2>1, <2>5, <3>2, <3>3 DEF Killing
    <3>4. CASE t \in new
      BY <2>1, <2>2, <2>5, <3>2, <3>4, TasksOfZombies
    <3> QED
      BY <2>1, <3>3, <3>4
  <2>6. \A t \in pending' : t.op = "draw" => t.kill = {}
    BY <2>1, <2>2 DEF Killing
  <2> QED
    BY <2>1, <2>4, <2>5, <2>6 DEF Killing
<1>3. ASSUME NEW h \in Handles, Draw(h)
      PROVE  Killing'
  <2>1. PICK ps \in SUBSET Procs \ {{}} :
          pending' = pending \union Points("draw", h, SeedOf(asked[h]), {}, ps)
    BY <1>3 DEF Draw
  <2> DEFINE new == Points("draw", h, SeedOf(asked[h]), {}, ps)
  <2>2. h \in live /\ pending' = pending \union new /\ UNCHANGED <<live, zombies, raced>>
    BY <1>3, <2>1 DEF Draw
  <2>3. \A t \in new : t.id = h /\ t.kill = {}
    BY PointFields
  <2> HIDE DEF new
  <2>4. ASSUME NEW t \in pending', NEW u \in pending', u.proc = t.proc, u.id \in t.kill,
               <<u.proc, u.id>> \notin raced'
        PROVE  u.epoch < t.epoch
    <3>1. t \in pending
      BY <2>2, <2>3, <2>4
    <3>2. u \in pending
      BY <2>2, <2>3, <2>4, <3>1 DEF Killing
    <3> QED
      BY <2>2, <2>4, <3>1, <3>2 DEF Killing
  <2> QED
    BY <2>2, <2>3, <2>4 DEF Killing
<1>4. ASSUME NEW h \in Handles, Delete(h)
      PROVE  Killing'
  BY <1>4 DEF Delete, Killing
<1>5. ASSUME NEW t \in pending, RunCreate(t) \/ RunDraw(t)
      PROVE  Killing'
  <2>1. pending' = pending \ {t} /\ UNCHANGED <<live, zombies, raced>>
    BY <1>5 DEF RunCreate, RunDraw
  <2> QED
    BY <2>1 DEF Killing
<1>6. CASE UNCHANGED vars
  BY <1>6 DEF vars, Killing
<1> QED
  BY <1>1, <1>2, <1>3, <1>4, <1>5, <1>6 DEF Next, Run

\* A task that runs destroys no generator that a pending task is going to use.
LEMMA NothingOvertaken ==
  ASSUME IInv, Killing, NEW t \in pending, Ready(t),
         NEW u \in pending, u.proc = t.proc, <<u.proc, u.id>> \notin raced
  PROVE  u.id \notin t.kill
<1>1. t.epoch \in Nat /\ u.epoch \in Nat /\ u.epoch >= t.epoch
  BY DEF IInv, TypeOK, Ready
<1> QED
  BY <1>1 DEF Killing

\* Nothing is forgotten with a task that has run, but what it destroyed.
LEMMA StaysRemembered ==
  ASSUME NEW t \in pending, pending' = pending \ {t}, UNCHANGED <<live, zombies>>,
         NEW p, NEW h, NEW e, Remembered(p, h, e),
         ~(p = t.proc /\ h \in t.kill)
  PROVE  Remembered(p, h, e)'
<1>1. CASE h \in live \union zombies
  BY <1>1 DEF Remembered
<1>2. CASE \E u \in pending : u.proc = p /\ h \in u.kill /\ u.epoch >= e
  <2>1. PICK u \in pending : u.proc = p /\ h \in u.kill /\ u.epoch >= e
    BY <1>2
  <2>2. u # t
    BY <2>1
  <2> QED
    BY <2>1, <2>2 DEF Remembered
<1> QED
  BY <1>1, <1>2 DEF Remembered

LEMMA FatedPreserved ==
  ASSUME IInv, Killing, Fated, [Next]_vars
  PROVE  Fated'
<1>0. /\ ids \in Nat /\ fences \in Nat
      /\ \A t \in pending : /\ t.epoch \in Nat /\ t.epoch + 1 \in Nat
                            /\ t.id \in Handles /\ t.proc \in Procs
  BY BoundAssumption DEF IInv, TypeOK, Handles
<1>1. ASSUME NEW s \in Seeds \union {None}, Construct(s)
      PROVE  Fated'
  <2>1. live' = live \union {ids + 1} /\ UNCHANGED <<zombies, pending, gens, raced>>
    BY <1>1 DEF Construct
  <2> QED
    BY <2>1 DEF Fated, Remembered
<1>2. ASSUME NEW s \in Seeds \union {None}, ForceBuild(s)
      PROVE  Fated'
  <2> DEFINE new == Points("create", ids + 1, s, zombies, Procs)
  <2>1. /\ live' = live \union {ids + 1} /\ zombies' = {} /\ pending' = pending \union new
        /\ raced' = raced \union Overtaken /\ UNCHANGED gens
    BY <1>2 DEF ForceBuild
  <2>2. \A t \in new : t.id = ids + 1
    BY PointFields
  <2>3. \A p \in Procs : \E t \in new : t.proc = p /\ t.kill = zombies /\ t.epoch = fences
    <3> TAKE p \in Procs
    <3> DEFINE t == [n |-> issued, op |-> "create", id |-> ids + 1, seed |-> s, kill |-> zombies,
                     epoch |-> fences, proc |-> p]
    <3>1. t \in new
      BY DEF Points
    <3> QED
      BY <3>1
  <2> HIDE DEF new
  <2>4. ASSUME NEW p \in Procs, NEW h \in Handles, NEW e \in Nat, Remembered(p, h, e),
               h \in zombies => e <= fences
        PROVE  Remembered(p, h, e)'
    <3>1. CASE h \in zombies
      <4>1. PICK t \in new : t.proc = p /\ t.kill = zombies /\ t.epoch = fences
        BY <2>3
      <4> QED
        BY <1>0, <2>1, <2>4, <3>1, <4>1 DEF Remembered
    <3>2. CASE h \notin zombies
      BY <2>1, <2>4, <3>2 DEF Remembered
    <3> QED
      BY <3>1, <3>2
  <2>5. \A t \in new : Remembered(t.proc, t.id, t.epoch + 1)'
    BY <2>1, <2>2 DEF Remembered
  <2>6. ASSUME NEW t \in pending, <<t.proc, t.id>> \notin raced'
        PROVE  Remembered(t.proc, t.id, t.epoch + 1)'
    <3>1. Remembered(t.proc, t.id, t.epoch + 1)
      BY <2>1, <2>6 DEF Fated
    <3>2. t.id \in zombies => t.epoch + 1 <= fences
      BY <1>0, <2>1, <2>6, TasksOfZombies
    <3> QED
      BY <1>0, <2>4, <3>1, <3>2
  <2>7. ASSUME NEW p \in Procs, NEW h \in Handles, <<p, h>> \notin raced', gens'[p][h] # None
        PROVE  Remembered(p, h, 0)'
    BY <1>0, <2>1, <2>4, <2>7 DEF Fated
  <2> QED
    BY <2>1, <2>5, <2>6, <2>7 DEF Fated
<1>3. ASSUME NEW h \in Handles, Draw(h)
      PROVE  Fated'
  <2>1. PICK ps \in SUBSET Procs \ {{}} :
          pending' = pending \union Points("draw", h, SeedOf(asked[h]), {}, ps)
    BY <1>3 DEF Draw
  <2> DEFINE new == Points("draw", h, SeedOf(asked[h]), {}, ps)
  <2>2. h \in live /\ pending' = pending \union new /\ UNCHANGED <<live, zombies, gens, raced>>
    BY <1>3, <2>1 DEF Draw
  <2>3. \A t \in new : t.id = h
    BY PointFields
  <2> HIDE DEF new
  <2> QED
    BY <2>2, <2>3 DEF Fated, Remembered
<1>4. ASSUME NEW h \in Handles, Delete(h)
      PROVE  Fated'
  BY <1>4 DEF Delete, Fated, Remembered
<1>5. ASSUME NEW t \in pending, RunCreate(t) \/ RunDraw(t)
      PROVE  Fated'
  <2>1. Ready(t) /\ pending' = pending \ {t} /\ UNCHANGED <<live, zombies, raced>>
    BY <1>5 DEF RunCreate, RunDraw
  <2>2. ASSUME NEW u \in pending, <<u.proc, u.id>> \notin raced
        PROVE  Remembered(u.proc, u.id, u.epoch + 1)'
    <3>1. ~(u.proc = t.proc /\ u.id \in t.kill)
      BY <2>1, <2>2, NothingOvertaken
    <3>2. Remembered(u.proc, u.id, u.epoch + 1)
      BY <2>2 DEF Fated
    <3> QED
      BY <2>1, <3>1, <3>2, StaysRemembered
  <2>3. <<t.proc, t.id>> \notin raced => Remembered(t.proc, t.id, 0)'
    BY <1>0, <2>1, <2>2 DEF Remembered
  <2>4. \A p \in Procs, h \in Handles :
          gens'[p][h] # None => \/ p = t.proc /\ h = t.id
                                \/ gens[p][h] # None /\ ~(p = t.proc /\ h \in t.kill)
    <3>1. CASE RunCreate(t)
      <4> DEFINE g == Without(gens[t.proc], t.kill)
      <4>1. gens' = [gens EXCEPT ![t.proc] = [g EXCEPT ![t.id] = New(t.seed)]]
        BY <3>1 DEF RunCreate
      <4>2. g = [h \in Handles |-> IF h \in t.kill THEN None ELSE gens[t.proc][h]]
        BY DEF Without
      <4> HIDE DEF g
      <4> QED
        BY <1>0, <4>1, <4>2 DEF IInv, TypeOK
    <3>2. CASE RunDraw(t)
      <4> DEFINE g == GeneratorFor(gens[t.proc], t)
      <4>1. gens' = [gens EXCEPT ![t.proc][t.id] = [g EXCEPT !.at = @ + 1]] /\ t.op = "draw"
        BY <3>2 DEF RunDraw
      <4> HIDE DEF g
      <4>2. t.kill = {}
        BY <4>1 DEF Killing
      <4> QED
        BY <1>0, <4>1, <4>2 DEF IInv, TypeOK
    <3> QED
      BY <1>5, <3>1, <3>2
  <2>5. ASSUME NEW p \in Procs, NEW h \in Handles, <<p, h>> \notin raced, gens'[p][h] # None
        PROVE  Remembered(p, h, 0)'
    <3>1. CASE p = t.proc /\ h = t.id
      BY <2>3, <2>5, <3>1
    <3>2. CASE ~(p = t.proc /\ h = t.id)
      <4>1. Remembered(p, h, 0) /\ ~(p = t.proc /\ h \in t.kill)
        BY <2>4, <2>5, <3>2 DEF Fated
      <4> QED
        BY <2>1, <4>1, StaysRemembered
    <3> QED
      BY <3>1, <3>2
  <2> QED
    BY <2>1, <2>2, <2>5 DEF Fated
<1>6. CASE UNCHANGED vars
  BY <1>6 DEF vars, Fated, Remembered
<1> QED
  BY <1>1, <1>2, <1>3, <1>4, <1>5, <1>6 DEF Next, Run

LEMMA StreamsPreserved ==
  ASSUME IInv, Killing, Streams, [Next]_vars
  PROVE  Streams'
<1>0. /\ ids \in Nat /\ issued \in Nat /\ live \subseteq 1..ids /\ ids + 1 \notin 1..ids
      /\ \A t \in pending : /\ t.id \in 1..ids /\ t.id \in Handles /\ t.proc \in Procs
                            /\ t.kill \subseteq 1..ids
      /\ 1..ids \subseteq Handles /\ 1..ids \subseteq 1..(ids + 1)
      /\ gens \in [Procs -> [Handles -> Generator \union {None}]]
  BY BoundAssumption DEF IInv, TypeOK, Handles
<1>1. ASSUME NEW s \in Seeds \union {None}, Construct(s) \/ ForceBuild(s)
      PROVE  Streams'
  <2>1. /\ ids' = ids + 1 /\ live' = live \union {ids + 1} /\ UNCHANGED <<gens, drawn>>
        /\ raced \subseteq raced'
    BY <1>1 DEF Construct, ForceBuild
  <2>2. \A t \in pending' : t \in pending \/ t.id = ids + 1
    BY <1>1, PointFields DEF Construct, ForceBuild
  <2> QED
    BY <1>0, <2>1, <2>2 DEF Streams, Spent
<1>2. ASSUME NEW h \in Handles, Draw(h)
      PROVE  Streams'
  <2>1. h \in live /\ UNCHANGED <<ids, live, gens, drawn, raced>>
    BY <1>2 DEF Draw
  <2>2. \A t \in pending' : t \in pending \/ t.id = h
    BY <1>2, PointFields DEF Draw
  <2> QED
    BY <2>1, <2>2 DEF Streams, Spent
<1>3. ASSUME NEW h \in Handles, Delete(h)
      PROVE  Streams'
  BY <1>3 DEF Delete, Streams, Spent
<1>4. ASSUME NEW t \in pending, RunCreate(t)
      PROVE  Streams'
  <2> DEFINE g == Without(gens[t.proc], t.kill)
  <2>1. /\ t.op = "create" /\ Ready(t) /\ pending' = pending \ {t} /\ UNCHANGED <<ids, live, drawn, raced>>
        /\ gens' = [gens EXCEPT ![t.proc] = [g EXCEPT ![t.id] = New(t.seed)]]
    BY <1>4 DEF RunCreate
  <2>2. g = [h \in Handles |-> IF h \in t.kill THEN None ELSE gens[t.proc][h]]
    BY DEF Without
  <2> HIDE DEF g
  <2>3. ASSUME NEW d \in drawn
        PROVE  \/ <<d.proc, d.id>> \in raced'
               \/ gens'[d.proc][d.id] # None /\ d.at < gens'[d.proc][d.id].at
               \/ Spent(d.proc, d.id)'
    <3>1. d.id \in Handles /\ d.proc \in Procs
      BY <1>0 DEF Streams
    <3>2. CASE Spent(d.proc, d.id) \/ <<d.proc, d.id>> \in raced
      BY <2>1, <3>2 DEF Spent
    <3>3. CASE ~Spent(d.proc, d.id) /\ <<d.proc, d.id>> \notin raced
      <4>1. gens[d.proc][d.id] # None /\ d.at < gens[d.proc][d.id].at
        BY <3>3 DEF Streams
      <4>2. ~(d.proc = t.proc /\ d.id = t.id)
        BY <2>1, <4>1 DEF IInv, Created
      <4>3. CASE d.proc = t.proc /\ d.id \in t.kill
        <5>1. d.id \notin live
          BY <4>3 DEF Killing
        <5>2. \A u \in pending' : ~(u.id = d.id /\ u.proc = d.proc)
          <6> TAKE u \in pending'
          <6>1. u \in pending /\ u # t
            BY <2>1
          <6> QED
            BY <2>1, <3>3, <4>3, <6>1, NothingOvertaken
        <5> QED
          BY <2>1, <5>1, <5>2 DEF Spent
      <4>4. CASE ~(d.proc = t.proc /\ d.id \in t.kill)
        <5>1. gens'[d.proc][d.id] = gens[d.proc][d.id]
          BY <1>0, <2>1, <2>2, <3>1, <4>2, <4>4
        <5> QED
          BY <4>1, <5>1
      <4> QED
        BY <4>3, <4>4
    <3> QED
      BY <3>2, <3>3
  <2> QED
    BY <2>1, <2>3 DEF Streams
<1>5. ASSUME NEW t \in pending, RunDraw(t)
      PROVE  Streams'
  <2> DEFINE g == GeneratorFor(gens[t.proc], t)
             e == [n |-> t.n, proc |-> t.proc, id |-> t.id, seed |-> g.seed, at |-> g.at]
  <2>1. /\ pending' = pending \ {t} /\ UNCHANGED <<ids, live, raced>>
        /\ gens' = [gens EXCEPT ![t.proc][t.id] = [g EXCEPT !.at = @ + 1]]
        /\ drawn' = drawn \union {e}
    BY <1>5 DEF RunDraw
  <2>2. g \in Generator /\ (gens[t.proc][t.id] # None => g = gens[t.proc][t.id])
    BY <1>0 DEF GeneratorFor, New, Generator, IInv, TypeOK
  <2>3. e.proc = t.proc /\ e.id = t.id /\ e.at = g.at
    OBVIOUS
  <2>4. g.at \in Nat /\ [g EXCEPT !.at = @ + 1].at = g.at + 1 /\ [g EXCEPT !.at = @ + 1] \in Generator
    BY <2>2 DEF Generator
  <2> HIDE DEF g, e
  <2>5. [g EXCEPT !.at = @ + 1] # None
    BY <2>4, NoneAssumption DEF Generator
  <2>6. gens'[t.proc][t.id] = [g EXCEPT !.at = @ + 1]
    BY <1>0, <2>1
  <2>7. ASSUME NEW d \in drawn
        PROVE  \/ <<d.proc, d.id>> \in raced'
               \/ gens'[d.proc][d.id] # None /\ d.at < gens'[d.proc][d.id].at
               \/ Spent(d.proc, d.id)'
    <3>1. d.id \in Handles /\ d.proc \in Procs /\ d.at \in Nat
      BY <1>0 DEF Streams
    <3>2. CASE Spent(d.proc, d.id) \/ <<d.proc, d.id>> \in raced
      BY <2>1, <3>2 DEF Spent
    <3>3. CASE /\ ~Spent(d.proc, d.id) /\ <<d.proc, d.id>> \notin raced
               /\ d.proc = t.proc /\ d.id = t.id
      <4>1. d.at < g.at
        BY <2>2, <3>3 DEF Streams
      <4>2. d.at < g.at + 1
        BY <2>4, <3>1, <4>1
      <4> QED
        BY <2>4, <2>5, <2>6, <3>3, <4>2
    <3>4. CASE /\ ~Spent(d.proc, d.id) /\ <<d.proc, d.id>> \notin raced
               /\ ~(d.proc = t.proc /\ d.id = t.id)
      <4>1. gens'[d.proc][d.id] = gens[d.proc][d.id]
        BY <1>0, <2>1, <3>1, <3>4
      <4> QED
        BY <3>4, <4>1 DEF Streams
    <3> QED
      BY <3>2, <3>3, <3>4
  <2>8. gens'[e.proc][e.id] # None /\ e.at < gens'[e.proc][e.id].at
    BY <2>3, <2>4, <2>5, <2>6
  <2> QED
    BY <1>0, <2>1, <2>3, <2>4, <2>7, <2>8 DEF Streams
<1>6. CASE UNCHANGED vars
  BY <1>6 DEF vars, Streams, Spent
<1> QED
  BY <1>1, <1>2, <1>3, <1>4, <1>5, <1>6 DEF Next, Run

\* A draw takes numbers that nobody has drawn: its stream is ahead of all.
LEMMA NoReplayPreserved ==
  ASSUME IInv, Streams, NoReplay, [Next]_vars
  PROVE  NoReplay'
<1>1. ASSUME NEW t \in pending, RunDraw(t)
      PROVE  NoReplay'
  <2> DEFINE g == GeneratorFor(gens[t.proc], t)
             e == [n |-> t.n, proc |-> t.proc, id |-> t.id, seed |-> g.seed, at |-> g.at]
  <2>1. drawn' = drawn \union {e} /\ raced' = raced
    BY <1>1 DEF RunDraw
  <2>2. gens[t.proc][t.id] # None => g = gens[t.proc][t.id]
    BY DEF GeneratorFor
  <2>3. e.proc = t.proc /\ e.id = t.id /\ e.at = g.at
    OBVIOUS
  <2>4. t.proc \in Procs /\ t.id \in Handles /\ gens[t.proc][t.id] \in Generator \union {None}
    BY BoundAssumption DEF IInv, TypeOK, Handles
  <2> HIDE DEF g, e
  <2>5. \A d \in drawn :
          d.id = e.id /\ d.proc = e.proc /\ <<e.proc, e.id>> \notin raced => d.at # e.at
    <3> SUFFICES ASSUME NEW d \in drawn, d.id = e.id, d.proc = e.proc,
                        <<e.proc, e.id>> \notin raced
                 PROVE  d.at # e.at
      OBVIOUS
    <3>1. ~Spent(d.proc, d.id)
      BY <2>3 DEF Spent
    <3>2. d.at \in Nat /\ g = gens[t.proc][t.id] /\ d.at < g.at /\ g \in Generator
      BY <2>2, <2>3, <2>4, <3>1 DEF Streams
    <3> QED
      BY <2>3, <3>2 DEF Generator
  <2> QED
    BY <2>1, <2>5 DEF NoReplay
<1>2. CASE drawn' = drawn /\ raced \subseteq raced'
  BY <1>2 DEF NoReplay
<1>3. (drawn' = drawn /\ raced \subseteq raced') \/ \E t \in pending : RunDraw(t)
  BY DEF Next, Run, Construct, ForceBuild, Draw, Delete, RunCreate, vars
<1> QED
  BY <1>1, <1>2, <1>3

StreamInv == IInv /\ Killing /\ Fated /\ Streams /\ NoReplay

LEMMA StreamInvariant == Spec => []StreamInv
<1>1. Init => Killing /\ Fated /\ Streams /\ NoReplay
  BY DEF Init, Killing, Fated, Streams, NoReplay
<1>2. IInv /\ Killing /\ Fated /\ Streams /\ NoReplay /\ [Next]_vars
        => Killing' /\ Fated' /\ Streams' /\ NoReplay'
  BY KillingPreserved, FatedPreserved, StreamsPreserved, NoReplayPreserved
<1> QED
  BY <1>1, <1>2, Invariant, PTL DEF Spec, StreamInv

\* "A stream of random bits": in every order that the fences allow, no
\* generator gives a number twice, even one that was destroyed, where no
\* CREATE task has raced with its draws.
THEOREM NumbersDiffer == Spec => []NoReplay
<1>1. StreamInv => NoReplay
  BY DEF StreamInv
<1> QED
  BY <1>1, StreamInvariant, PTL

\* In every order that the fences allow, the tasks that destroy generators
\* find all of them: where nothing has raced, a generator that is there or
\* may still be built is one that Python knows of or that a later task is
\* going to destroy.
THEOREM NothingLeaks == Spec => []NoLeak
<1>1. StreamInv => NoLeak
  BY DEF StreamInv, Fated, NoLeak
<1> QED
  BY <1>1, StreamInvariant, PTL
=============================================================================
