---------------------------- MODULE BitGenerator ----------------------------
(***************************************************************************)
(* The random bit generators of cuPyNumeric.  Python hands out handles and *)
(* submits tasks (random/_bitgenerator.py, runtime.py, deferred.py); every *)
(* processor keeps a map from handles to generators (generator_map in      *)
(* bitgenerator_curand.inl), which its tasks fill lazily.  A handle that   *)
(* Python has collected is a zombie until the next CREATE task, which      *)
(* destroys the generators of the zombies it carries.                      *)
(*                                                                         *)
(* The tasks share no store, so the runtime orders them by fences alone,   *)
(* and there is none before a CREATE task: it may overtake draws from the  *)
(* zombies that it destroys.                                               *)
(***************************************************************************)
EXTENDS Naturals, FiniteSets

CONSTANTS
  Procs,    \* processors
  MaxGens,  \* bound: BitGenerator objects constructed
  MaxTasks, \* bound: calls that draw numbers or build by force
  Seeds,    \* seeds the application passes
  None,     \* no seed, no generator
  Clock     \* time.perf_counter_ns(): fresh entropy

\* A generator: its seed and how many draws it has served.
Generator == [seed : Seeds \union {Clock}, at : Nat]

ASSUME BoundAssumption == MaxGens \in Nat /\ MaxTasks \in Nat
ASSUME SeedAssumption == None \notin Seeds \union {Clock} /\ Clock \notin Seeds
ASSUME NoneAssumption == None \notin Generator

VARIABLES
  ids,      \* current_random_bitgenid: handles 1 .. ids have been given out
  asked,    \* handle -> the seed passed to the constructor
  live,     \* handles whose BitGenerator exists
  zombies,  \* current_random_bitgen_zombies
  issued,   \* number of tasks submitted
  fences,   \* number of execution fences issued
  pending,  \* point tasks that have not run
  gens,     \* processor -> handle -> its generator: seed and position
  drawn,    \* history: what each point task of a draw got
  fatal,    \* "generator ID <n> already in use" has been raised
  raced     \* history: where CREATE was submitted beside draws from a zombie

vars == <<ids, asked, live, zombies, issued, fences, pending, gens, drawn, fatal, raced>>

Handles == 1..MaxGens

\* Faulty variant: the seed is passed on as it is.
SeedAsGiven(s) == s

\* self.seed = seed or time.perf_counter_ns()
SeedOf(s) == IF s \in {None, 0} THEN Clock ELSE s

\* Faulty variant: the zombies are dropped, not sent.
PointsNoKill(op, h, seed, kill, ps) ==
  {[n |-> issued, op |-> op, id |-> h, seed |-> seed, kill |-> {},
    epoch |-> fences, proc |-> p] : p \in ps}

\* The points on processors ps of a task; kill is its todestroy list.
Points(op, h, seed, kill, ps) ==
  {[n |-> issued, op |-> op, id |-> h, seed |-> seed, kill |-> kill,
    epoch |-> fences, proc |-> p] : p \in ps}

\* Faulty variant: no execution fence after the CREATE task.
NoFenceAfterCreate == fences

\* issue_execution_fence, after the CREATE task
FenceAfterCreate == fences + 1

Init ==
  /\ ids = 0
  /\ asked = [h \in Handles |-> None]
  /\ live = {} /\ zombies = {}
  /\ issued = 0 /\ fences = 0 /\ pending = {}
  /\ gens = [p \in Procs |-> [h \in Handles |-> None]]
  /\ drawn = {}
  /\ fatal = FALSE
  /\ raced = {}

\* BitGenerator.__init__ with forceBuild = False: only a handle.
Construct(s) ==
  /\ ids < MaxGens
  /\ ids' = ids + 1
  /\ asked' = [asked EXCEPT ![ids + 1] = s]
  /\ live' = live \union {ids + 1}
  /\ UNCHANGED <<zombies, issued, fences, pending, gens, drawn, fatal, raced>>

\* The processors and zombies with a draw that no fence keeps before a CREATE
\* task submitted now: the two run in either order.
Overtaken ==
  {<<t.proc, t.id>> : t \in {u \in pending : /\ u.op = "draw" /\ u.id \in zombies
                                             /\ u.epoch = fences}}

\* BitGenerator.__init__ with forceBuild = True: a CREATE task on every
\* processor, which is passed the zombies and the seed as the caller gave it.
ForceBuild(s) ==
  /\ ids < MaxGens /\ issued < MaxTasks /\ s # None
  /\ ids' = ids + 1
  /\ asked' = [asked EXCEPT ![ids + 1] = s]
  /\ live' = live \union {ids + 1}
  /\ pending' = pending \union Points("create", ids + 1, s, zombies, Procs)
  /\ issued' = issued + 1
  /\ zombies' = {}
  /\ fences' = FenceAfterCreate
  /\ raced' = raced \union Overtaken
  /\ UNCHANGED <<gens, drawn, fatal>>

\* A method that draws numbers into a deferred array: a task, whose points
\* run on the processors that the output is partitioned over.  (An eager
\* array is filled by NumPy's global generator, which is nobody's handle.)
Draw(h) ==
  /\ h \in live
  /\ issued < MaxTasks
  /\ \E ps \in SUBSET Procs \ {{}} :
       pending' = pending \union Points("draw", h, SeedOf(asked[h]), {}, ps)
  /\ issued' = issued + 1
  /\ UNCHANGED <<ids, asked, live, zombies, fences, gens, drawn, fatal, raced>>

\* BitGenerator.__del__ -> bitgenerator_destroy(disposing=True)
Delete(h) ==
  /\ h \in live
  /\ live' = live \ {h}
  /\ zombies' = zombies \union {h}
  /\ UNCHANGED <<ids, asked, issued, fences, pending, gens, drawn, fatal, raced>>

\* A point task may run once all tasks before the last fence have.
Ready(t) == \A u \in pending : u.epoch >= t.epoch

\* generator_map::destroy for each handle in kill
Without(g, kill) == [h \in Handles |-> IF h \in kill THEN None ELSE g[h]]
New(seed) == [seed |-> seed, at |-> 0]

\* bitgenerator_template, CREATE: the todestroy list, then generator_map::create
RunCreate(t) ==
  /\ t \in pending /\ t.op = "create" /\ Ready(t)
  /\ LET g == Without(gens[t.proc], t.kill)
     IN /\ fatal' = (fatal \/ g[t.id] # None)
        /\ gens' = [gens EXCEPT ![t.proc] = [g EXCEPT ![t.id] = New(t.seed)]]
  /\ pending' = pending \ {t}
  /\ UNCHANGED <<ids, asked, live, zombies, issued, fences, drawn, raced>>

\* Faulty variant: a generator built lazily is not seeded by its object.
UnseededFor(g, t) == IF g[t.id] = None THEN New(0) ELSE g[t.id]

\* Faulty variant: every task builds its generator anew.
RebuiltFor(g, t) == New(t.seed)

\* "allow for lazy initialization": the generator a draw uses.
GeneratorFor(g, t) == IF g[t.id] = None THEN New(t.seed) ELSE g[t.id]

\* RAND_RAW and DISTRIBUTION: the point takes the next numbers of the stream.
RunDraw(t) ==
  /\ t \in pending /\ t.op = "draw" /\ Ready(t)
  /\ LET g == GeneratorFor(gens[t.proc], t)
     IN /\ gens' = [gens EXCEPT ![t.proc][t.id] = [g EXCEPT !.at = @ + 1]]
        /\ drawn' = drawn \union
             {[n |-> t.n, proc |-> t.proc, id |-> t.id, seed |-> g.seed, at |-> g.at]}
  /\ pending' = pending \ {t}
  /\ UNCHANGED <<ids, asked, live, zombies, issued, fences, fatal, raced>>

Run == \E t \in pending : RunCreate(t) \/ RunDraw(t)

Next ==
  \/ \E s \in Seeds \union {None} : Construct(s) \/ ForceBuild(s)
  \/ \E h \in Handles : Draw(h) \/ Delete(h)
  \/ Run

\* The runtime runs every task it is given.
Spec == Init /\ [][Next]_vars /\ WF_vars(Run)

---------------------------------------------------------------------------
(* Properties *)

TypeOK ==
  /\ ids \in 0..MaxGens
  /\ asked \in [Handles -> Seeds \union {None}]
  /\ live \subseteq 1..ids /\ zombies \subseteq 1..ids
  /\ issued \in Nat /\ fences \in Nat
  /\ \A t \in pending :
       /\ t.n \in 0..(issued - 1) /\ t.op \in {"create", "draw"}
       /\ t.id \in 1..ids /\ t.seed \in Seeds \union {Clock}
       /\ t.kill \subseteq 1..ids /\ t.epoch \in 0..fences /\ t.proc \in Procs
  /\ gens \in [Procs -> [Handles -> Generator \union {None}]]
  /\ fatal \in BOOLEAN
  /\ raced \subseteq Procs \X (1..ids)

\* generator_map::create: "generator ID already in use" is never raised,
\* although draws build generators lazily and CREATE tasks run late.
NeverInUse == ~fatal

\* A generator never gives the same numbers twice ("a stream of random bits"),
\* in any order that the fences leave open: it is built once, lazily or by
\* force, and not again after it was destroyed.  Except where a CREATE task
\* and a draw from a zombie of its race: a draw that comes late builds the
\* generator again.
NoReplay ==
  \A a, b \in drawn :
    /\ <<a.proc, a.id>> \notin raced
    /\ a.id = b.id /\ a.proc = b.proc /\ a.at = b.at
    => a.n = b.n

\* With a seed, all numbers come from generators with that seed.
SeedHonoured ==
  \A d \in drawn : asked[d.id] # None => d.seed = asked[d.id]

\* Handle h is with Python, in use or a zombie, or a task of epoch e or later
\* is going to destroy its generator on p.
Remembered(p, h, e) ==
  \/ h \in live \union zombies
  \/ \E t \in pending : t.proc = p /\ h \in t.kill /\ t.epoch >= e

\* The list of zombies is emptied when a task takes it, before that has run.
\* No generator is forgotten by then: a task that destroys it is pending, held
\* back by a fence until the draws that may still build it have run.  (A zombie
\* stays in the list until a CREATE task is submitted, which no one has to.)
\* Except where the two race.
NoLeak ==
  \A p \in Procs, h \in Handles : <<p, h>> \notin raced =>
    /\ gens[p][h] # None => Remembered(p, h, 0)
    /\ \A t \in pending :
         t.op = "draw" /\ t.proc = p /\ t.id = h => Remembered(p, h, t.epoch + 1)

\* Once the zombies are handed over, their generators go, for good, though
\* draws build generators lazily.  Except where the two race.
Reclaimed ==
  \A p \in Procs, h \in Handles :
    <>[](/\ h \in 1..ids /\ h \notin live \union zombies
         /\ <<p, h>> \notin raced
         => gens[p][h] = None)
=============================================================================
