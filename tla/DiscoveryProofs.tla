-------------------------- MODULE DiscoveryProofs ---------------------------
(***************************************************************************)
(* Proofs about Discovery, for every fabric, window and bound: the         *)
(* coroutines of a scan, whatever the replies say; what the SA's load does *)
(* to the database; and the invariant of the database while a scan fills   *)
(* it, with the properties of Discovery that follow from it.               *)
(***************************************************************************)
EXTENDS Discovery, SubnetProofs

-----------------------------------------------------------------------------
(* The coroutines of the scan, whatever the replies say.                   *)

Ready == {"check", "top", "ports", "iter"}  \* where a do_todo can be stepped
IsReady(c) == ctx[c].pc \in Ready
Used(c) == ctx[c].pc # "none"
Alive(c) == IsReady(c) \/ ctx[c].pc = "wait"

Shapes ==
  /\ DOMAIN todo = Depth
  /\ \A d \in Depth : DOMAIN todo[d] = {"nodes", "ports", "running", "ctx"}
  /\ DOMAIN ctx = Ctx
  /\ \A c \in Ctx : DOMAIN ctx[c] = {"pc", "on", "old", "node", "path", "rem"}
  /\ \A c \in Ctx : ctx[c].pc \in Ready \cup {"none", "wait", "done"}

(* A generator replaced an exhausted one, and waits for one two depths up. *)
Contexts ==
  \A c \in Ctx :
    /\ ctx[c].old # None => ctx[c].old \in Ctx /\ Exhausted(ctx[c].old)
    /\ ctx[c].pc = "wait" => ctx[c].on \in Ctx /\ ctx[c].on[1] = c[1] - 2 /\ Used(ctx[c].on)

(* The generators of a depth are numbered as they are made.                *)
InOrder == \A c, e \in Ctx : c[1] = e[1] /\ e[2] <= c[2] /\ Used(c) => Used(e)

(* A bucket with work has one generator, alive, and no other is.           *)
OneGenerator ==
  /\ \A d \in Depth :
       /\ todo[d].ctx # None => todo[d].ctx \in Ctx /\ todo[d].ctx[1] = d /\ Used(todo[d].ctx)
       /\ todo[d].running \in BOOLEAN
       /\ todo[d].running => todo[d].ctx \in Ctx /\ Alive(todo[d].ctx)
       /\ ~todo[d].running => todo[d].nodes = <<>> /\ todo[d].ports = <<>>
  /\ \A c \in Ctx : Alive(c) => todo[c[1]].running /\ todo[c[1]].ctx = c

(* A generator that can be stepped is being stepped or has one turn.       *)
Turns ==
  /\ mqueue \in Seq(Ctx) /\ IsInjective(mqueue)
  /\ \A c \in ToSet(mqueue) : IsReady(c)
  /\ active # None => active \in Ctx /\ IsReady(active) /\ active \notin ToSet(mqueue)
  /\ \A c \in Ctx : IsReady(c) => c = active \/ c \in ToSet(mqueue)

(* What is stepped may spawn a coroutine: there is room for it.            *)
Windowed ==
  /\ IsFiniteSet(jobs) /\ Cardinality(jobs) <= Window
  /\ active # None => HasRoom

(* Outside a scan there is nothing of it.                                  *)
Quiet ==
  /\ ~Scanning => /\ active = None /\ mqueue = <<>>
                  /\ \A c \in Ctx : ctx[c] = NoCtx
                  /\ \A d \in Depth : todo[d] = EmptyBucket
  /\ ~Scanning /\ ~Asking => jobs = {}

(* Records are stored while load() talks to the SA.                        *)
Storing == table # None => pc \in {"sa", "sa2"}

Depths == Scanning => \A j \in jobs : j.depth \in Depth

ScanInv ==
  /\ Shapes /\ Contexts /\ InOrder /\ OneGenerator /\ Turns /\ Windowed /\ Quiet
  /\ Depths /\ Storing

LEMMA NoneIsNoCtx == None \notin Ctx
  BY DiscoveryAssumption DEF DiscoveryAssumption

(* The elements of a sequence over a set are in it.                        *)
LEMMA SeqElements == ASSUME NEW S, NEW s \in Seq(S) PROVE ToSet(s) \subseteq S
  BY DEF ToSet

(* The context of a new generator was not used before, and is the next.    *)
LEMMA NewTodoFacts ==
  ASSUME DiscoveryAssumption, InOrder, NEW d \in Depth, NewTodo(d) \in Ctx
  PROVE  /\ ~Used(NewTodo(d)) /\ NewTodo(d)[1] = d
         /\ \A e \in Ctx : e[1] = d /\ e[2] < NewTodo(d)[2] => Used(e)
<1> DEFINE U == {c \in Ctx : c[1] = d /\ ctx[c].pc # "none"}
           n == Cardinality(U)
           N == NewTodo(d)
<1>1. IsFiniteSet(Ctx)
  <2>1. IsFiniteSet(Depth) /\ IsFiniteSet(1..MaxTodo)
    BY FS_Interval DEF DiscoveryAssumption, Depth
  <2> QED
    BY <2>1, FS_Product DEF Ctx
<1>2. IsFiniteSet(U) /\ n \in Nat
  BY <1>1, FS_Subset, FS_CardinalityType
<1>3. N = <<d, 1 + n>> /\ N[1] = d /\ N[2] = 1 + n
  BY DEF NewTodo
<1>4. \A i \in Nat : IsFiniteSet({d} \X (1..i)) /\ Cardinality({d} \X (1..i)) = i
  <2> SUFFICES ASSUME NEW i \in Nat
               PROVE  IsFiniteSet({d} \X (1..i)) /\ Cardinality({d} \X (1..i)) = i
    OBVIOUS
  <2>1. IsFiniteSet(1..i) /\ Cardinality(1..i) = i
    <3>1. i >= 1 \/ i = 0
      OBVIOUS
    <3>2. CASE i = 0
      <4>1. 1..i = {}
        BY <3>2
      <4> QED
        BY <4>1, <3>2, FS_EmptySet
    <3>3. CASE i >= 1
      BY <3>3, FS_Interval
    <3> QED
      BY <3>1, <3>2, <3>3
  <2>2. IsFiniteSet({d}) /\ Cardinality({d}) = 1
    BY FS_Singleton
  <2>3. IsFiniteSet({d} \X (1..i)) /\ Cardinality({d} \X (1..i)) = 1 * i
    <3> PICK S : S = {d}
      OBVIOUS
    <3> PICK T : T = 1..i
      OBVIOUS
    <3>1. IsFiniteSet(S) /\ IsFiniteSet(T) /\ Cardinality(S) = 1 /\ Cardinality(T) = i
      BY <2>1, <2>2
    <3>2. IsFiniteSet(S \X T) /\ Cardinality(S \X T) = Cardinality(S) * Cardinality(T)
      BY <3>1, FS_Product
    <3> QED
      BY <3>1, <3>2
  <2> QED
    BY <2>3
<1> HIDE DEF n, N
<1>5. N \in Ctx /\ MaxTodo \in Nat /\ 1 + n \in 1..MaxTodo
  BY <1>3 DEF N, Ctx, DiscoveryAssumption
<1>6. ASSUME Used(N) PROVE FALSE
  <2>1. \A i \in 1..(1 + n) : <<d, i>> \in Ctx
    BY <1>2, <1>5 DEF Ctx
  <2>2. \A i \in 1..(1 + n) : <<d, i>> \in U
    <3> SUFFICES ASSUME NEW i \in 1..(1 + n) PROVE <<d, i>> \in U
      OBVIOUS
    <3>1. <<d, i>>[1] = N[1] /\ <<d, i>>[2] <= N[2]
      BY <1>2, <1>3
    <3>2. Used(<<d, i>>)
      BY <3>1, <2>1, <1>5, <1>6 DEF InOrder
    <3> QED
      BY <3>2, <2>1 DEF Used
  <2>3. {d} \X (1..(1 + n)) \subseteq U
    BY <2>2
  <2>4. Cardinality({d} \X (1..(1 + n))) = 1 + n
    <3>1. 1 + n \in Nat
      BY <1>2
    <3> QED
      BY <3>1, <1>4
  <2>5. 1 + n <= Cardinality(U)
    BY <2>3, <2>4, <1>2, FS_Subset
  <2> QED
    BY <2>5, <1>2 DEF n
<1>7. ASSUME NEW e \in Ctx, e[1] = d, e[2] < N[2], ~Used(e) PROVE FALSE
  <2>1. e[2] \in Nat /\ e[2] >= 1 /\ e[2] <= n /\ e[2] - 1 \in Nat
    BY <1>7, <1>2, <1>3, <1>5 DEF Ctx
  <2>2. \A c \in U : c \in {d} \X (1..(e[2] - 1))
    <3> SUFFICES ASSUME NEW c \in U PROVE c \in {d} \X (1..(e[2] - 1))
      OBVIOUS
    <3>1. c \in Ctx /\ c[1] = d /\ Used(c)
      BY DEF Used
    <3>2. ~(e[2] <= c[2])
      BY <3>1, <1>7 DEF InOrder
    <3>3. c[2] \in 1..(e[2] - 1) /\ c = <<c[1], c[2]>>
      BY <3>1, <3>2, <2>1, <1>5 DEF Ctx
    <3> QED
      BY <3>1, <3>3
  <2>3. n <= e[2] - 1
    <3>1. U \subseteq {d} \X (1..(e[2] - 1))
      BY <2>2
    <3>2. Cardinality(U) <= Cardinality({d} \X (1..(e[2] - 1)))
      BY <3>1, <2>1, <1>4, FS_Subset
    <3> QED
      BY <3>2, <2>1, <1>4 DEF n
  <2> QED
    BY <2>1, <2>3, <1>2
<1> QED
  BY <1>3, <1>6, <1>7 DEF N

(* A step of the generator c, alive, that leaves it at another place.      *)
Moves(c, at) ==
  /\ DOMAIN ctx' = Ctx
  /\ \A e \in Ctx : DOMAIN ctx'[e] = {"pc", "on", "old", "node", "path", "rem"}
  /\ \A e \in Ctx : e # c => ctx'[e] = ctx[e]
  /\ ctx'[c].pc = at /\ ctx'[c].old = ctx[c].old

(* It leaves the buckets with the generators they had, but may drop the    *)
(* context of one that has ended.                                          *)
BucketsKept ==
  /\ DOMAIN todo' = Depth
  /\ \A d \in Depth : DOMAIN todo'[d] = {"nodes", "ports", "running", "ctx"}
  /\ \A d \in Depth : \/ todo'[d].ctx = todo[d].ctx
                      \/ ~todo[d].running /\ todo'[d].ctx = None

(* What is taken from the queue of turns.                                  *)
LEMMA LeftFacts ==
  ASSUME Turns, NEW c \in Ctx, HasTurn(c)
  PROVE  /\ Left(c) \in Seq(Ctx) /\ IsInjective(Left(c))
         /\ ToSet(Left(c)) = ToSet(mqueue) \ {c}
         /\ \A e \in Ctx : IsReady(e) => e = c \/ e \in ToSet(Left(c))
         /\ IsReady(c) \/ mqueue = <<>>
<1>1. CASE c = active
  <2>1. Left(c) = mqueue
    BY <1>1 DEF Left
  <2>2. active # None
    BY <1>1, NoneIsNoCtx
  <2> QED
    BY <1>1, <2>1, <2>2 DEF Turns
<1>2. CASE c # active /\ mqueue = <<>>
  <2>1. Left(c) = <<>> /\ ToSet(<<>>) = {} /\ IsInjective(<<>>) /\ active = None
    BY <1>2, EmptyFacts DEF Left, HasTurn
  <2> QED
    BY <1>2, <2>1, NoneIsNoCtx DEF Turns
<1>3. CASE c # active /\ mqueue # <<>>
  <2>1. active = None /\ c = Last(mqueue) /\ Left(c) = Front(mqueue)
    BY <1>3 DEF HasTurn, Left
  <2>2. /\ Front(mqueue) \in Seq(Ctx) /\ IsInjective(Front(mqueue))
        /\ ToSet(mqueue) = ToSet(Front(mqueue)) \cup {c} /\ c \notin ToSet(Front(mqueue))
    BY <1>3, <2>1, FrontFacts DEF Turns
  <2> QED
    BY <2>1, <2>2, NoneIsNoCtx DEF Turns
<1> QED
  BY <1>1, <1>2, <1>3

(* The turns after a step of c.                                            *)
LEMMA TurnsKept ==
  ASSUME Turns, NEW c \in Ctx, HasTurn(c), NEW at, Moves(c, at),
         \/ at \in Ready /\ (GoesOn(c) \/ Yields(c))
         \/ at \notin Ready /\ Leaves(c)
  PROVE  Turns'
<1> DEFINE l == Left(c)
<1>1. /\ l \in Seq(Ctx) /\ IsInjective(l) /\ ToSet(l) = ToSet(mqueue) \ {c}
      /\ \A e \in Ctx : IsReady(e) => e = c \/ e \in ToSet(l)
  BY LeftFacts
<1>2. /\ \A e \in Ctx : e # c => (IsReady(e)' <=> IsReady(e))
      /\ IsReady(c)' <=> at \in Ready
  BY DEF Moves, IsReady
<1>3. \A e \in ToSet(l) : e \in Ctx /\ e # c /\ IsReady(e)'
  BY <1>1, <1>2, SeqElements DEF Turns
<1>4. CASE at \in Ready /\ GoesOn(c)
  BY <1>1, <1>2, <1>3, <1>4 DEF GoesOn, Turns
<1>5. CASE at \in Ready /\ Yields(c)
  <2>1. mqueue' = Append(l, c) /\ active' = None
    BY <1>5 DEF Yields
  <2>2. /\ mqueue' \in Seq(Ctx) /\ IsInjective(mqueue')
        /\ ToSet(mqueue') = ToSet(l) \cup {c}
    BY <1>1, <2>1, AppendFacts
  <2> QED
    BY <1>1, <1>2, <1>3, <1>5, <2>1, <2>2 DEF Turns
<1>6. CASE at \notin Ready /\ Leaves(c)
  BY <1>1, <1>2, <1>3, <1>6 DEF Leaves, Turns
<1> QED
  BY <1>4, <1>5, <1>6

(* The generators after a step of c.                                       *)
LEMMA GeneratorsKept ==
  ASSUME DiscoveryAssumption, Shapes, Contexts, InOrder, OneGenerator,
         NEW c \in Ctx, Alive(c), NEW at \in Ready \cup {"wait", "done"}, Moves(c, at), BucketsKept,
         at = "wait" => ctx'[c].on \in Ctx /\ ctx'[c].on[1] = c[1] - 2 /\ Used(ctx'[c].on),
         \A d \in Depth :
           /\ todo'[d].running = IF at = "done" /\ d = c[1] THEN FALSE ELSE todo[d].running
           /\ ~todo'[d].running => todo'[d].nodes = <<>> /\ todo'[d].ports = <<>>
  PROVE  Shapes' /\ Contexts' /\ InOrder' /\ OneGenerator'
<1>1. /\ \A e \in Ctx : Used(e)' <=> Used(e)
      /\ \A e \in Ctx : Alive(e)' <=> Alive(e) /\ ~(e = c /\ at = "done")
      /\ \A e \in Ctx : Exhausted(e) => Exhausted(e)'
  BY DEF Moves, Used, Alive, IsReady, Exhausted, Ready
<1>2. Shapes'
  BY DEF Shapes, Moves, BucketsKept
<1>3. Contexts'
  <2> SUFFICES ASSUME NEW e \in Ctx
               PROVE  (/\ ctx[e].old # None => ctx[e].old \in Ctx /\ Exhausted(ctx[e].old)
                       /\ ctx[e].pc = "wait" =>
                            ctx[e].on \in Ctx /\ ctx[e].on[1] = e[1] - 2 /\ Used(ctx[e].on))'
    BY DEF Contexts
  <2>1. ctx'[e].old = ctx[e].old
    BY DEF Moves
  <2>2. CASE e = c
    BY <2>1, <2>2, <1>1 DEF Contexts, Moves
  <2>3. CASE e # c
    <3>1. ctx'[e] = ctx[e]
      BY <2>3 DEF Moves
    <3> QED
      BY <3>1, <1>1 DEF Contexts
  <2> QED
    BY <2>2, <2>3
<1>4. InOrder'
  BY <1>1 DEF InOrder
<1>5. OneGenerator'
  <2>1. ASSUME NEW d \in Depth
        PROVE  (/\ todo[d].ctx # None =>
                     todo[d].ctx \in Ctx /\ todo[d].ctx[1] = d /\ Used(todo[d].ctx)
                /\ todo[d].running \in BOOLEAN
                /\ todo[d].running => todo[d].ctx \in Ctx /\ Alive(todo[d].ctx)
                /\ ~todo[d].running => todo[d].nodes = <<>> /\ todo[d].ports = <<>>)'
    <3>1. /\ todo[d].ctx # None => todo[d].ctx \in Ctx /\ todo[d].ctx[1] = d /\ Used(todo[d].ctx)
          /\ todo[d].running \in BOOLEAN
          /\ todo[d].running => todo[d].ctx \in Ctx /\ Alive(todo[d].ctx)
      BY DEF OneGenerator
    <3>2. \/ todo'[d].ctx = todo[d].ctx
          \/ ~todo[d].running /\ todo'[d].ctx = None
      BY DEF BucketsKept
    <3>3. todo'[d].running => todo[d].running /\ ~(at = "done" /\ d = c[1])
      OBVIOUS
    <3>4. todo'[d].running => todo'[d].ctx = todo[d].ctx /\ todo[d].ctx # None
      BY <3>1, <3>2, <3>3, NoneIsNoCtx
    <3>5. todo'[d].running => todo[d].ctx[1] = d
      BY <3>1, <3>4
    <3> QED
      BY <3>1, <3>2, <3>3, <3>4, <3>5, <1>1
  <2>2. ASSUME NEW e \in Ctx, Alive(e)'
        PROVE  todo'[e[1]].running /\ todo'[e[1]].ctx = e
    <3>1. Alive(e) /\ ~(e = c /\ at = "done") /\ e[1] \in Depth
      BY <2>2, <1>1 DEF Ctx
    <3>2. todo[e[1]].running /\ todo[e[1]].ctx = e
      BY <3>1 DEF OneGenerator
    <3>3. todo[c[1]].ctx = c
      BY DEF OneGenerator
    <3>4. ~(at = "done" /\ e[1] = c[1])
      BY <3>1, <3>2, <3>3
    <3> QED
      BY <3>1, <3>2, <3>4 DEF BucketsKept
  <2> QED
    BY <2>1, <2>2 DEF OneGenerator
<1> QED
  BY <1>2, <1>3, <1>4, <1>5

(* The generators after an item was added to the bucket of depth d.        *)
LEMMA GeneratorsFilled ==
  ASSUME DiscoveryAssumption, Shapes, Contexts, InOrder, OneGenerator, Turns, active = None,
         NEW d \in Depth, InBounds(d), NEW nodes, NEW ports, todo' = Filled(d, nodes, ports),
         Started(d, TRUE), UNCHANGED mqueue
  PROVE  Shapes' /\ Contexts' /\ InOrder' /\ OneGenerator' /\ Turns'
<1> DEFINE n == NewTodo(d)
<1>1. /\ DOMAIN todo' = Depth
      /\ \A e \in Depth : DOMAIN todo'[e] = {"nodes", "ports", "running", "ctx"}
      /\ \A e \in Depth : e # d => todo'[e] = todo[e]
      /\ todo'[d].running = TRUE
      /\ todo'[d].ctx = IF StartsTodo(d) THEN n ELSE todo[d].ctx
  BY DEF Filled, Shapes
<1>2. CASE ~StartsTodo(d)
  <2>1. ctx' = ctx /\ active' = None
    BY <1>2 DEF Started
  <2>2. todo[d].running
    BY <1>2 DEF StartsTodo, OneGenerator
  <2>3. Shapes'
    BY <1>1, <2>1 DEF Shapes
  <2>4. Contexts' /\ InOrder'
    BY <2>1 DEF Contexts, InOrder, Used, Exhausted
  <2>5. OneGenerator'
    <3>1. \A e \in Ctx : e[1] \in Depth
      BY DEF Ctx
    <3>2. \A e \in Depth : todo'[e].running = todo[e].running /\ todo'[e].ctx = todo[e].ctx
      BY <1>1, <1>2, <2>2
    <3>3. \A e \in Depth : ~todo'[e].running => todo'[e].nodes = <<>> /\ todo'[e].ports = <<>>
      BY <1>1 DEF OneGenerator
    <3>4. \A e \in Ctx : (Used(e)' <=> Used(e)) /\ (Alive(e)' <=> Alive(e))
      BY <2>1 DEF Used, Alive, IsReady
    <3> QED
      BY <3>1, <3>2, <3>3, <3>4 DEF OneGenerator
  <2>6. Turns'
    BY <2>1 DEF Turns, IsReady
  <2> QED
    BY <2>3, <2>4, <2>5, <2>6
<1>3. CASE StartsTodo(d)
  <2>1. n \in Ctx /\ n # None /\ ~Used(n) /\ n[1] = d /\ n[1] \in Depth
    BY <1>3, NewTodoFacts, NoneIsNoCtx DEF InBounds
  <2>2. \A e \in Ctx : e[1] = d /\ e[2] < n[2] => Used(e)
    BY <2>1, NewTodoFacts
  <2> HIDE DEF n
  <2>3. active' = n /\ ctx' = [ctx EXCEPT ![n] = [NoCtx EXCEPT !.pc = "check", !.old = todo[d].ctx]]
    BY <1>3 DEF Started, n
  <2>4. /\ DOMAIN ctx' = Ctx
        /\ \A e \in Ctx : DOMAIN ctx'[e] = {"pc", "on", "old", "node", "path", "rem"}
        /\ \A e \in Ctx : e # n => ctx'[e] = ctx[e]
        /\ ctx'[n].pc = "check" /\ ctx'[n].old = todo[d].ctx
    BY <2>1, <2>3 DEF Shapes, NoCtx
  <2>5. Shapes'
    BY <1>1, <2>4 DEF Shapes, Ready
  <2>6. /\ \A e \in Ctx : Used(e)' <=> Used(e) \/ e = n
        /\ \A e \in Ctx : Alive(e)' <=> Alive(e) \/ e = n
        /\ \A e \in Ctx : IsReady(e)' <=> IsReady(e) \/ e = n
        /\ \A e \in Ctx : Exhausted(e) => Exhausted(e)' /\ e # n
        /\ ~Alive(n) /\ ~IsReady(n)
    BY <2>1, <2>4 DEF Used, Alive, IsReady, Exhausted, Ready
  <2>7. ~todo[d].running
    BY <1>3 DEF StartsTodo
  <2>8. todo[d].ctx # None => todo[d].ctx \in Ctx /\ Exhausted(todo[d].ctx)
    <3> SUFFICES ASSUME todo[d].ctx # None PROVE todo[d].ctx \in Ctx /\ Exhausted(todo[d].ctx)
      OBVIOUS
    <3>1. todo[d].ctx \in Ctx /\ todo[d].ctx[1] = d /\ Used(todo[d].ctx)
      BY DEF OneGenerator
    <3>2. ~Alive(todo[d].ctx)
      BY <3>1, <2>7 DEF OneGenerator
    <3> QED
      BY <3>1, <3>2 DEF Shapes, Alive, IsReady, Used, Exhausted
  <2>9. Contexts'
    <3> SUFFICES ASSUME NEW e \in Ctx
                 PROVE  (/\ ctx[e].old # None => ctx[e].old \in Ctx /\ Exhausted(ctx[e].old)
                         /\ ctx[e].pc = "wait" =>
                              ctx[e].on \in Ctx /\ ctx[e].on[1] = e[1] - 2 /\ Used(ctx[e].on))'
      BY DEF Contexts
    <3>1. CASE e = n
      BY <3>1, <2>4, <2>6, <2>8
    <3>2. CASE e # n
      <4>1. ctx'[e] = ctx[e]
        BY <3>2, <2>4
      <4> QED
        BY <4>1, <2>6 DEF Contexts
    <3> QED
      BY <3>1, <3>2
  <2>10. InOrder'
    <3> SUFFICES ASSUME NEW c \in Ctx, NEW e \in Ctx, c[1] = e[1], e[2] <= c[2], Used(c)'
                 PROVE  Used(e)'
      BY DEF InOrder
    <3>1. CASE c = n
      <4>1. c[2] \in Int /\ e[2] \in Int /\ e = <<e[1], e[2]>> /\ c = <<c[1], c[2]>>
        BY DEF Ctx, DiscoveryAssumption
      <4>2. e[2] < n[2] \/ e = n
        BY <3>1, <4>1
      <4>3. e[1] = d
        BY <3>1, <2>1
      <4> QED
        BY <4>2, <4>3, <2>2, <2>6
    <3>2. CASE c # n
      BY <3>2, <2>6 DEF InOrder
    <3> QED
      BY <3>1, <3>2
  <2>11. OneGenerator'
    <3>1. ASSUME NEW e \in Depth
          PROVE  (/\ todo[e].ctx # None =>
                       todo[e].ctx \in Ctx /\ todo[e].ctx[1] = e /\ Used(todo[e].ctx)
                  /\ todo[e].running \in BOOLEAN
                  /\ todo[e].running => todo[e].ctx \in Ctx /\ Alive(todo[e].ctx)
                  /\ ~todo[e].running => todo[e].nodes = <<>> /\ todo[e].ports = <<>>)'
      <4>1. CASE e = d
        BY <4>1, <1>1, <1>3, <2>1, <2>6 DEF n
      <4>2. CASE e # d
        <5>1. todo'[e] = todo[e]
          BY <4>2, <1>1
        <5> QED
          BY <5>1, <2>6 DEF OneGenerator
      <4> QED
        BY <4>1, <4>2
    <3>2. ASSUME NEW e \in Ctx, Alive(e)' PROVE todo'[e[1]].running /\ todo'[e[1]].ctx = e
      <4>1. CASE e = n
        BY <4>1, <1>1, <1>3, <2>1 DEF n
      <4>2. CASE e # n
        <5>1. Alive(e) /\ e[1] \in Depth
          BY <4>2, <3>2, <2>6 DEF Ctx
        <5>2. todo[e[1]].running /\ todo[e[1]].ctx = e
          BY <5>1 DEF OneGenerator
        <5>3. e[1] # d
          BY <5>2, <2>7
        <5> QED
          BY <5>1, <5>2, <5>3, <1>1
      <4> QED
        BY <4>1, <4>2
    <3> QED
      BY <3>1, <3>2 DEF OneGenerator
  <2>12. Turns'
    <3>1. /\ mqueue \in Seq(Ctx) /\ IsInjective(mqueue)
          /\ \A c \in ToSet(mqueue) : c \in Ctx /\ IsReady(c)
          /\ \A c \in Ctx : IsReady(c) => c \in ToSet(mqueue)
      BY SeqElements, NoneIsNoCtx DEF Turns
    <3> QED
      BY <3>1, <2>1, <2>3, <2>6 DEF Turns
  <2> QED
    BY <2>5, <2>9, <2>10, <2>11, <2>12
<1> QED
  BY <1>2, <1>3

(* Of the generators a step of one moves only that.                        *)
LEMMA AtMoves ==
  ASSUME Shapes, NEW c \in Ctx, NEW at, ctx' = At(c, at)
  PROVE  Moves(c, at)
  BY DEF Shapes, At, Moves

(* Buckets that are left alone, but for a context dropped.                 *)
LEMMA DroppedKept ==
  ASSUME Shapes, OneGenerator, NEW d \in Depth,
         \/ todo' = todo
         \/ todo' = [todo EXCEPT ![d].ctx = None] /\ ~todo[d].running
  PROVE  /\ BucketsKept
         /\ \A e \in Depth : /\ todo'[e].running = todo[e].running
                             /\ ~todo'[e].running => todo'[e].nodes = <<>> /\ todo'[e].ports = <<>>
<1>1. CASE todo' = todo
  BY <1>1 DEF BucketsKept, Shapes, OneGenerator
<1>2. CASE todo' = [todo EXCEPT ![d].ctx = None] /\ ~todo[d].running
  <2>1. /\ DOMAIN todo' = Depth
        /\ \A e \in Depth : DOMAIN todo'[e] = {"nodes", "ports", "running", "ctx"}
        /\ \A e \in Depth : e # d => todo'[e] = todo[e]
        /\ todo'[d].ctx = None /\ todo'[d].running = todo[d].running
        /\ todo'[d].nodes = todo[d].nodes /\ todo'[d].ports = todo[d].ports
    BY <1>2 DEF Shapes
  <2> QED
    BY <1>2, <2>1 DEF BucketsKept, OneGenerator
<1> QED
  BY <1>1, <1>2

(* An item was taken from a bucket.                                        *)
LEMMA TakenKept ==
  ASSUME Shapes, OneGenerator, NEW d \in Depth, todo[d].running, NEW s,
         todo' = [todo EXCEPT ![d].nodes = s] \/ todo' = [todo EXCEPT ![d].ports = s]
  PROVE  /\ BucketsKept
         /\ \A e \in Depth : /\ todo'[e].running = todo[e].running
                             /\ ~todo'[e].running => todo'[e].nodes = <<>> /\ todo'[e].ports = <<>>
<1>1. /\ DOMAIN todo' = Depth
      /\ DOMAIN todo'[d] = {"nodes", "ports", "running", "ctx"}
      /\ \A e \in Depth : e # d => todo'[e] = todo[e]
      /\ todo'[d].ctx = todo[d].ctx /\ todo'[d].running = todo[d].running
  BY DEF Shapes
<1>2. \A e \in Depth : e # d =>
        /\ DOMAIN todo'[e] = {"nodes", "ports", "running", "ctx"}
        /\ todo'[e].ctx = todo[e].ctx /\ todo'[e].running = todo[e].running
        /\ ~todo'[e].running => todo'[e].nodes = <<>> /\ todo'[e].ports = <<>>
  BY <1>1 DEF Shapes, OneGenerator
<1>3. BucketsKept
  BY <1>1, <1>2 DEF BucketsKept
<1> QED
  BY <1>1, <1>2, <1>3

(* The window after a step of c.                                           *)
LEMMA WindowedStep ==
  ASSUME DiscoveryAssumption, Windowed, NEW c \in Ctx, HasTurn(c),
         \/ UNCHANGED jobs
         \/ (\E j : jobs' = jobs \cup {j}) /\ active' = None
  PROVE  Windowed'
<1>1. c # None
  BY NoneIsNoCtx
<1>2. Cardinality(jobs) \in Nat /\ Cardinality(jobs) < Window /\ Window \in Nat
  BY <1>1, FS_CardinalityType DEF Windowed, HasTurn, HasRoom, DiscoveryAssumption
<1>3. CASE UNCHANGED jobs
  BY <1>2, <1>3 DEF Windowed, HasRoom
<1>4. CASE (\E j : jobs' = jobs \cup {j}) /\ active' = None
  <2>1. PICK j : jobs' = jobs \cup {j}
    BY <1>4
  <2>2. /\ IsFiniteSet(jobs')
        /\ Cardinality(jobs') = Cardinality(jobs) \/ Cardinality(jobs') = Cardinality(jobs) + 1
    BY <2>1, FS_AddElement DEF Windowed
  <2> QED
    BY <1>2, <1>4, <2>2 DEF Windowed
<1> QED
  BY <1>3, <1>4

(* A context that has a turn is alive.                                     *)
LEMMA TurnIsAlive ==
  ASSUME Turns, Shapes, NEW c \in Ctx, HasTurn(c)
  PROVE  /\ Alive(c)
         /\ ~IsReady(c) => ctx[c].pc = "wait" /\ Exhausted(ctx[c].on)
<1>1. CASE c = active
  BY <1>1, NoneIsNoCtx DEF Turns, Alive
<1>2. CASE c # active /\ mqueue # <<>>
  <2>1. c = Last(mqueue)
    BY <1>2 DEF HasTurn
  <2>2. c \in ToSet(mqueue)
    BY <1>2, <2>1, FrontFacts DEF Turns
  <2> QED
    BY <2>2 DEF Turns, Alive
<1>3. CASE c # active /\ mqueue = <<>>
  BY <1>3 DEF HasTurn, Woken, Complete, Alive
<1> QED
  BY <1>1, <1>2, <1>3

(* A step of do_todo keeps the invariant.                                  *)
LEMMA TodoStep ==
  ASSUME DiscoveryAssumption, ScanInv, NEW c \in Ctx, Todo(c)
  PROVE  ScanInv'
<1> DEFINE d == c[1]
<1>1. /\ Scanning /\ Scanning' /\ HasTurn(c)
      /\ ctx[c].pc \in {"check", "wait", "top", "ports", "iter"} /\ UNCHANGED pc
  BY ZenonT(30) DEF Todo, TodoCheck, TodoWoken, TodoNode, TodoPorts, TodoPort, TodoEmpty, May, AtTop,
         loadVars, Scanning
<1>20. Storing'
  BY <1>1, ZenonT(30) DEF Todo, TodoCheck, TodoWoken, TodoNode, TodoPorts, TodoPort, TodoEmpty, saVars,
              ScanInv, Storing
<1>2. Alive(c) /\ c # None /\ d \in Depth /\ d \in Nat /\ todo[d].running /\ todo[d].ctx = c
  BY <1>1, TurnIsAlive, NoneIsNoCtx DEF ScanInv, OneGenerator, Ctx, Depth, DiscoveryAssumption
<1>3. Quiet'
  BY <1>1 DEF Quiet
<1>4. ASSUME NEW at \in Ready \cup {"wait", "done"}, Moves(c, at), BucketsKept,
             at = "wait" => ctx'[c].on \in Ctx /\ ctx'[c].on[1] = d - 2 /\ Used(ctx'[c].on),
             \A e \in Depth :
               /\ todo'[e].running = IF at = "done" /\ e = d THEN FALSE ELSE todo[e].running
               /\ ~todo'[e].running => todo'[e].nodes = <<>> /\ todo'[e].ports = <<>>,
             \/ at \in Ready /\ (GoesOn(c) \/ Yields(c))
             \/ at \notin Ready /\ Leaves(c),
             \/ UNCHANGED jobs
             \/ Yields(c) /\ \E j : jobs' = jobs \cup {j} /\ j.depth = d
      PROVE  ScanInv'
  <2>1. Shapes' /\ Contexts' /\ InOrder' /\ OneGenerator'
    BY <1>2, <1>4, GeneratorsKept DEF ScanInv
  <2>2. Turns'
    BY <1>1, <1>4, TurnsKept DEF ScanInv
  <2>3. Windowed'
    BY <1>1, <1>4, WindowedStep DEF ScanInv, Yields
  <2>4. Depths'
    BY <1>1, <1>2, <1>4 DEF ScanInv, Depths
  <2> QED
    BY <2>1, <2>2, <2>3, <2>4, <1>3, <1>20 DEF ScanInv
<1>5. CASE TodoCheck(c)
  <2> DEFINE above == Above(d)
  <2>1. above # None => /\ d >= 2 /\ d - 2 \in Depth /\ above = todo[d - 2].ctx
                        /\ above \in Ctx /\ above[1] = d - 2 /\ Used(above)
    BY <1>2 DEF Above, ScanInv, OneGenerator, Depth, DiscoveryAssumption
  <2> HIDE DEF above
  <2>2. CASE above = None \/ Exhausted(above)
    <3>1. /\ todo' = IF above = None THEN todo ELSE [todo EXCEPT ![d - 2].ctx = None]
          /\ ctx' = At(c, "top") /\ GoesOn(c) /\ UNCHANGED jobs
      BY <1>5, <2>2 DEF TodoCheck, above
    <3>2. Moves(c, "top")
      BY <3>1, AtMoves DEF ScanInv
    <3>3. above # None => ~todo[d - 2].running
      BY <2>1, <2>2 DEF ScanInv, OneGenerator, Exhausted, Alive, IsReady, Ready
    <3>4. /\ BucketsKept
          /\ \A e \in Depth : /\ todo'[e].running = todo[e].running
                              /\ ~todo'[e].running => todo'[e].nodes = <<>> /\ todo'[e].ports = <<>>
      <4>1. CASE above = None
        BY <4>1, <3>1, <1>2, DroppedKept DEF ScanInv
      <4>2. CASE above # None
        BY <4>2, <3>1, <2>1, <3>3, DroppedKept DEF ScanInv
      <4> QED
        BY <4>1, <4>2
    <3> QED
      BY <1>4, <3>1, <3>2, <3>4 DEF Ready
  <2>3. CASE ~(above = None \/ Exhausted(above))
    <3>1. /\ ctx' = [ctx EXCEPT ![c].pc = "wait", ![c].on = above] /\ Leaves(c)
          /\ UNCHANGED <<todo, jobs>>
      BY <1>5, <2>3 DEF TodoCheck, above
    <3>2. Moves(c, "wait") /\ ctx'[c].on = above
      BY <3>1 DEF ScanInv, Shapes, Moves
    <3>3. /\ BucketsKept
          /\ \A e \in Depth : /\ todo'[e].running = todo[e].running
                              /\ ~todo'[e].running => todo'[e].nodes = <<>> /\ todo'[e].ports = <<>>
      BY <3>1, <1>2, DroppedKept DEF ScanInv
    <3> QED
      BY <1>4, <2>1, <2>3, <3>1, <3>2, <3>3 DEF Ready
  <2> QED
    BY <2>2, <2>3
<1>6. CASE TodoWoken(c)
  <2> DEFINE above == Above(d)
  <2>1. above # None => /\ d >= 2 /\ d - 2 \in Depth /\ above = todo[d - 2].ctx
    BY <1>2 DEF Above, ScanInv, OneGenerator, Depth, DiscoveryAssumption
  <2>2. ctx[c].pc = "wait" /\ ~IsReady(c)
    BY <1>6 DEF TodoWoken, May, IsReady, Ready
  <2>3. ctx[c].on \in Ctx /\ Exhausted(ctx[c].on) /\ ctx[c].on # None
    BY <2>2, <1>1, TurnIsAlive, NoneIsNoCtx DEF ScanInv, Contexts
  <2>4. /\ todo' = IF above = ctx[c].on THEN [todo EXCEPT ![d - 2].ctx = None] ELSE todo
        /\ ctx' = At(c, "check") /\ GoesOn(c) /\ UNCHANGED jobs
    BY <1>6 DEF TodoWoken
  <2>5. Moves(c, "check")
    BY <2>4, AtMoves DEF ScanInv
  <2> HIDE DEF above
  <2>6. /\ BucketsKept
        /\ \A e \in Depth : /\ todo'[e].running = todo[e].running
                            /\ ~todo'[e].running => todo'[e].nodes = <<>> /\ todo'[e].ports = <<>>
    <3>1. CASE above = ctx[c].on
      <4>1. ~todo[d - 2].running
        BY <3>1, <2>1, <2>3 DEF ScanInv, OneGenerator, Exhausted, Alive, IsReady, Ready
      <4> QED
        BY <3>1, <4>1, <2>1, <2>3, <2>4, DroppedKept DEF ScanInv
    <3>2. CASE above # ctx[c].on
      BY <3>2, <2>4, <1>2, DroppedKept DEF ScanInv
    <3> QED
      BY <3>1, <3>2
  <2> QED
    BY <1>4, <2>4, <2>5, <2>6 DEF Ready
<1>7. CASE TodoNode(c)
  <2>1. todo' = [todo EXCEPT ![d].nodes = Front(@)]
    BY <1>7 DEF TodoNode
  <2>2. /\ BucketsKept
        /\ \A e \in Depth : /\ todo'[e].running = todo[e].running
                            /\ ~todo'[e].running => todo'[e].nodes = <<>> /\ todo'[e].ports = <<>>
    BY <2>1, <1>2, TakenKept DEF ScanInv
  <2>3. \/ ctx' = At(c, "top") /\ GoesOn(c) /\ UNCHANGED jobs
        \/ /\ ctx' = At(c, "ports") /\ Yields(c)
           /\ jobs' = jobs \cup {[what |-> "node", path |-> Last(todo[d].nodes).aport, depth |-> d,
                                  peer |-> Last(todo[d].nodes).aport, by |-> c]}
    BY <1>7 DEF TodoNode, Spawn
  <2>4. CASE ctx' = At(c, "top") /\ GoesOn(c) /\ UNCHANGED jobs
    <3>1. Moves(c, "top")
      BY <2>4, AtMoves DEF ScanInv
    <3> QED
      BY <1>4, <2>2, <2>4, <3>1 DEF Ready
  <2>5. CASE /\ ctx' = At(c, "ports") /\ Yields(c)
             /\ jobs' = jobs \cup {[what |-> "node", path |-> Last(todo[d].nodes).aport, depth |-> d,
                                    peer |-> Last(todo[d].nodes).aport, by |-> c]}
    <3>1. Moves(c, "ports")
      BY <2>5, AtMoves DEF ScanInv
    <3>2. \E j : jobs' = jobs \cup {j} /\ j.depth = d
      <4> DEFINE j == [what |-> "node", path |-> Last(todo[d].nodes).aport, depth |-> d,
                       peer |-> Last(todo[d].nodes).aport, by |-> c]
      <4>1. j.depth = d
        OBVIOUS
      <4> QED
        BY <4>1, <2>5
    <3> QED
      BY <1>4, <2>2, <2>5, <3>1, <3>2 DEF Ready
  <2> QED
    BY <2>3, <2>4, <2>5
<1>8. CASE TodoPorts(c)
  <2>1. /\ todo' = [todo EXCEPT ![d].ports = Front(@)] /\ GoesOn(c) /\ UNCHANGED jobs
        /\ \E n, p, r : ctx' = [ctx EXCEPT ![c].pc = "iter", ![c].node = n, ![c].path = p, ![c].rem = r]
    BY <1>8, ZenonT(30) DEF TodoPorts
  <2>2. /\ BucketsKept
        /\ \A e \in Depth : /\ todo'[e].running = todo[e].running
                            /\ ~todo'[e].running => todo'[e].nodes = <<>> /\ todo'[e].ports = <<>>
    BY <2>1, <1>2, TakenKept DEF ScanInv
  <2>3. Moves(c, "iter")
    BY <2>1 DEF ScanInv, Shapes, Moves
  <2> QED
    BY <1>4, <2>1, <2>2, <2>3 DEF Ready
<1>9. CASE TodoPort(c)
  <2>1. PICK r, at : ctx' = [ctx EXCEPT ![c].rem = r, ![c].pc = at] /\ at \in {"top", "iter"}
    BY <1>9 DEF TodoPort
  <2>2. Moves(c, at)
    BY <2>1 DEF ScanInv, Shapes, Moves
  <2>3. todo' = todo
    BY <1>9 DEF TodoPort
  <2>4. /\ BucketsKept
        /\ \A e \in Depth : /\ todo'[e].running = todo[e].running
                            /\ ~todo'[e].running => todo'[e].nodes = <<>> /\ todo'[e].ports = <<>>
    BY <2>3, <1>2, DroppedKept DEF ScanInv
  <2>5. \/ GoesOn(c) /\ UNCHANGED jobs
        \/ Yields(c) /\ \E j : jobs' = jobs \cup {j} /\ j.depth = d
    <3> DEFINE j == [what |-> "port", path |-> ctx[c].path, depth |-> d,
                     idx |-> Head(ctx[c].rem), by |-> c]
    <3>1. j.depth = d
      OBVIOUS
    <3>2. \/ GoesOn(c) /\ UNCHANGED jobs
          \/ Yields(c) /\ jobs' = jobs \cup {j}
      BY <1>9 DEF TodoPort, Spawn
    <3> QED
      BY <3>1, <3>2
  <2> QED
    BY <1>4, <2>1, <2>2, <2>4, <2>5 DEF Ready
<1>10. CASE TodoEmpty(c)
  <2>1. /\ todo' = [todo EXCEPT ![d].running = FALSE] /\ ctx' = At(c, "done") /\ Leaves(c)
        /\ UNCHANGED jobs /\ todo[d].nodes = <<>> /\ todo[d].ports = <<>>
    BY <1>10 DEF TodoEmpty
  <2>2. /\ DOMAIN todo' = Depth
        /\ \A e \in Depth : DOMAIN todo'[e] = {"nodes", "ports", "running", "ctx"}
        /\ \A e \in Depth : e # d => todo'[e] = todo[e]
        /\ todo'[d].ctx = todo[d].ctx /\ todo'[d].running = FALSE
        /\ todo'[d].nodes = todo[d].nodes /\ todo'[d].ports = todo[d].ports
    BY <2>1, <1>2 DEF ScanInv, Shapes
  <2>3. Moves(c, "done")
    BY <2>1, AtMoves DEF ScanInv
  <2>4. /\ BucketsKept
        /\ \A e \in Depth : /\ todo'[e].running = IF e = d THEN FALSE ELSE todo[e].running
                            /\ ~todo'[e].running => todo'[e].nodes = <<>> /\ todo'[e].ports = <<>>
    BY <2>1, <2>2 DEF BucketsKept, ScanInv, OneGenerator
  <2> QED
    BY <1>4, <2>1, <2>3, <2>4, ZenonT(120) DEF Ready
<1> QED
  BY <1>5, <1>6, <1>7, <1>8, <1>9, <1>10, SMTT(30) DEF Todo

(* A reply keeps it: its coroutine ends, having filled a bucket or not.    *)
LEMMA ReplyStep ==
  ASSUME DiscoveryAssumption, ScanInv, NEW j \in jobs, Reply(j)
  PROVE  ScanInv'
<1>1. /\ Scanning /\ Scanning' /\ NobodyHasTurn /\ jobs' = jobs \ {j} /\ UNCHANGED <<pc, mqueue>>
  BY DEF Reply, Scanning, loadVars
<1>2. active = None
  BY <1>1 DEF NobodyHasTurn, HasTurn, ScanInv, Turns
<1>3. \/ todo' = todo /\ ctx' = ctx /\ active' = None
      \/ \E d \in Depth : /\ InBounds(d) /\ Started(d, TRUE)
                          /\ \E nodes, ports : todo' = Filled(d, nodes, ports)
  <2>1. j.depth \in Depth
    BY <1>1 DEF ScanInv, Depths
  <2>2. ASSUME NEW w, NEW np, NodeFound(j, w, np)
        PROVE  \/ todo' = todo /\ ctx' = ctx /\ active' = None
               \/ /\ InBounds(j.depth) /\ Started(j.depth, TRUE)
                  /\ \E nodes, ports : todo' = Filled(j.depth, nodes, ports)
    <3> DEFINE scan == ScansPorts(np.db, np.node)
               ports == <<[node |-> np.node, path |-> j.path,
                           idx |-> IF IsSwitchNode(np.db, np.node) THEN None ELSE w[2]]>>
    <3>1. /\ scan => InBounds(j.depth)
          /\ todo' = IF scan THEN Filled(j.depth, <<>>, ports) ELSE todo
          /\ Started(j.depth, scan)
      BY <2>2 DEF NodeFound
    <3> HIDE DEF scan, ports
    <3>2. CASE scan
      <4>1. Started(j.depth, TRUE)
        BY <3>1, <3>2 DEF Started
      <4> QED
        BY <3>1, <3>2, <4>1
    <3>3. CASE ~scan
      BY <3>1, <3>3 DEF Started
    <3> QED
      BY <3>2, <3>3
  <2>3. ASSUME NEW w, NEW db, NEW p, PortFound(j, w, db, p)
        PROVE  \/ todo' = todo /\ ctx' = ctx /\ active' = None
               \/ /\ InBounds(j.depth + 1) /\ Started(j.depth + 1, TRUE)
                  /\ \E nodes, ports : todo' = Filled(j.depth + 1, nodes, ports)
    <3> DEFINE on == Unexplored(db, w, p)
               nodes == <<[aport |-> p, path |-> j.path, idx |-> j.idx]>>
    <3>1. /\ on => InBounds(j.depth + 1)
          /\ todo' = IF on THEN Filled(j.depth + 1, nodes, <<>>) ELSE todo
          /\ Started(j.depth + 1, on)
      BY <2>3 DEF PortFound
    <3> HIDE DEF on, nodes
    <3>2. CASE on
      <4>1. Started(j.depth + 1, TRUE)
        BY <3>1, <3>2 DEF Started
      <4> QED
        BY <3>1, <3>2, <4>1
    <3>3. CASE ~on
      BY <3>1, <3>3 DEF Started
    <3> QED
      BY <3>2, <3>3
  <2>4. InBounds(j.depth + 1) => j.depth + 1 \in Depth
    BY <2>1 DEF InBounds, Depth, DiscoveryAssumption
  <2>5. CASE j.what = "node"
    <3>1. \E w, np : NodeFound(j, w, np)
      BY <2>5 DEF Reply, DoNode, NodeReply
    <3> QED
      BY <3>1, <2>1, <2>2
  <2>6. CASE j.what # "node"
    <3>1. \E w, db, p : PortFound(j, w, db, p)
      BY <2>6 DEF Reply, DoPort, PortReply, PortStored
    <3> QED
      BY <3>1, <2>3, <2>4
  <2> QED
    BY <2>5, <2>6
<1>4. Shapes' /\ Contexts' /\ InOrder' /\ OneGenerator' /\ Turns'
  <2>1. CASE todo' = todo /\ ctx' = ctx /\ active' = None
    <3>1. Shapes' /\ Contexts' /\ InOrder'
      BY <2>1 DEF ScanInv, Shapes, Contexts, InOrder, Used, Exhausted
    <3>2. OneGenerator'
      BY <2>1 DEF ScanInv, OneGenerator, Alive, IsReady, Used
    <3>3. Turns'
      BY <1>1, <1>2, <2>1 DEF ScanInv, Turns, IsReady
    <3> QED
      BY <3>1, <3>2, <3>3
  <2>2. CASE \E d \in Depth : /\ InBounds(d) /\ Started(d, TRUE)
                              /\ \E nodes, ports : todo' = Filled(d, nodes, ports)
    BY <2>2, <1>1, <1>2, GeneratorsFilled DEF ScanInv
  <2> QED
    BY <1>3, <2>1, <2>2
<1>5. Windowed'
  <2>1. /\ IsFiniteSet(jobs') /\ Cardinality(jobs') = Cardinality(jobs) - 1
        /\ Cardinality(jobs) \in Nat
    BY <1>1, FS_RemoveElement, FS_CardinalityType DEF ScanInv, Windowed
  <2> QED
    BY <2>1 DEF ScanInv, Windowed, HasRoom, DiscoveryAssumption
<1>6. Quiet' /\ Depths'
  BY <1>1 DEF ScanInv, Quiet, Depths
<1>7. Storing'
  BY <1>1 DEF Reply, saVars, ScanInv, Storing
<1> QED
  BY <1>4, <1>5, <1>6, <1>7 DEF ScanInv

(* Outside a scan.                                                         *)
LEMMA QuietStep ==
  ASSUME DiscoveryAssumption, Shapes, \A c \in Ctx : ctx[c] = NoCtx,
         \A d \in Depth : todo[d] = EmptyBucket,
         active = None, mqueue = <<>>, Windowed, ~Scanning,
         ~Scanning /\ ~Asking => jobs = {}, Storing
  PROVE  ScanInv
<1>1. \A c \in Ctx : ~Used(c) /\ ~Alive(c) /\ ~IsReady(c) /\ ctx[c].old = None /\ ctx[c].pc = "none"
  BY DEF NoCtx, Used, Alive, IsReady, Ready
<1>2. Contexts
  BY <1>1 DEF Contexts
<1>3. InOrder
  BY <1>1 DEF InOrder
<1>4. OneGenerator
  <2>1. \A d \in Depth : /\ todo[d].ctx = None /\ todo[d].running = FALSE
                        /\ todo[d].nodes = <<>> /\ todo[d].ports = <<>>
    BY DEF EmptyBucket
  <2> QED
    BY <1>1, <2>1 DEF OneGenerator
<1>5. Turns
  BY <1>1, EmptyFacts DEF Turns
<1> QED
  BY <1>2, <1>3, <1>4, <1>5 DEF ScanInv, Quiet, Depths

(* Before the first scan there is no generator and no bucket.              *)
LEMMA NothingThere ==
  ASSUME DiscoveryAssumption, todo = [d \in Depth |-> EmptyBucket], ctx = [c \in Ctx |-> NoCtx]
  PROVE  /\ Shapes /\ \A c \in Ctx : ctx[c] = NoCtx
         /\ \A d \in Depth : todo[d] = EmptyBucket
<1>1. \A c \in Ctx : ctx[c] = NoCtx
  OBVIOUS
<1>2. \A d \in Depth : todo[d] = EmptyBucket
  OBVIOUS
<1>3. Shapes
  BY DEF Shapes, NoCtx, EmptyBucket, Ready
<1> QED
  BY <1>1, <1>2, <1>3

(* With nothing in flight the window is kept.                              *)
LEMMA NoJobs ==
  ASSUME DiscoveryAssumption, jobs = {}, active = None
  PROVE  Windowed
  BY FS_EmptySet DEF Windowed, DiscoveryAssumption

(* The coroutines are in order before the first load.                      *)
LEMMA ScanInit == DiscoveryAssumption /\ Init => ScanInv
<1> SUFFICES ASSUME DiscoveryAssumption, Init PROVE ScanInv
  OBVIOUS
<1>1. /\ todo = [d \in Depth |-> EmptyBucket] /\ ctx = [c \in Ctx |-> NoCtx]
      /\ active = None /\ mqueue = <<>> /\ jobs = {} /\ ~Scanning /\ Storing
  BY DEF Init, Scanning, Storing
<1> QED
  BY <1>1, NothingThere, NoJobs, QuietStep

(* The steps of load() that are not of the scan.                           *)
LEMMA OtherStep ==
  ASSUME DiscoveryAssumption, ScanInv, ~Scanning, ~Scanning',
         UNCHANGED <<todo, ctx, active, mqueue>>, Windowed',
         ~Scanning' /\ ~Asking' => jobs' = {}, Storing'
  PROVE  ScanInv'
<1>1. /\ Shapes' /\ active' = None /\ mqueue' = <<>>
      /\ (\A c \in Ctx : ctx[c] = NoCtx)'
      /\ (\A d \in Depth : todo[d] = EmptyBucket)'
  BY DEF ScanInv, Shapes, Quiet
<1>2. \A c \in Ctx : ~Used(c)' /\ ~Alive(c)' /\ ~IsReady(c)' /\ ctx'[c].old = None /\ ctx'[c].pc = "none"
  BY <1>1 DEF NoCtx, Used, Alive, IsReady, Ready
<1>3. Contexts'
  BY <1>2 DEF Contexts
<1>4. InOrder'
  BY <1>2 DEF InOrder
<1>5. OneGenerator'
  <2>1. \A d \in Depth : /\ todo'[d].ctx = None /\ todo'[d].running = FALSE
                        /\ todo'[d].nodes = <<>> /\ todo'[d].ports = <<>>
    BY <1>1 DEF EmptyBucket
  <2> QED
    BY <1>2, <2>1 DEF OneGenerator
<1>6. Turns'
  BY <1>1, <1>2, EmptyFacts DEF Turns
<1> QED
  BY <1>1, <1>3, <1>4, <1>5, <1>6 DEF ScanInv, Quiet, Depths

(* A scan starts with one coroutine, or nothing is left of one.            *)
LEMMA EdgeStep ==
  ASSUME DiscoveryAssumption, ScanInv,
         todo' = [d \in Depth |-> EmptyBucket], ctx' = [c \in Ctx |-> NoCtx],
         active' = None, mqueue' = <<>>, Storing',
         \/ ~Scanning' /\ jobs' = {}
         \/ Scanning' /\ \E j : jobs' = {j} /\ j.depth = 0
  PROVE  ScanInv'
<1>1. /\ \A c \in Ctx : ctx'[c] = NoCtx
      /\ \A d \in Depth : todo'[d] = EmptyBucket
  OBVIOUS
<1>2. Shapes'
  BY DEF Shapes, NoCtx, EmptyBucket, Ready
<1>3. \A c \in Ctx : ~Used(c)' /\ ~Alive(c)' /\ ~IsReady(c)' /\ ctx'[c].old = None /\ ctx'[c].pc = "none"
  BY <1>1 DEF NoCtx, Used, Alive, IsReady, Ready
<1>4. Contexts' /\ InOrder'
  BY <1>3 DEF Contexts, InOrder
<1>5. OneGenerator'
  <2>1. \A d \in Depth : /\ todo'[d].ctx = None /\ todo'[d].running = FALSE
                        /\ todo'[d].nodes = <<>> /\ todo'[d].ports = <<>>
    BY <1>1 DEF EmptyBucket
  <2> QED
    BY <1>3, <2>1 DEF OneGenerator
<1>6. Turns'
  BY <1>3, EmptyFacts DEF Turns
<1>7. Windowed'
  <2>1. CASE jobs' = {}
    BY <2>1, FS_EmptySet DEF Windowed, DiscoveryAssumption
  <2>2. CASE \E j : jobs' = {j}
    <3>1. PICK j : jobs' = {j}
      BY <2>2
    <3>2. IsFiniteSet(jobs') /\ Cardinality(jobs') = 1
      BY <3>1, FS_Singleton
    <3> QED
      BY <3>2 DEF Windowed, DiscoveryAssumption
  <2> QED
    BY <2>1, <2>2
<1>8. Depths'
  <2>1. 0 \in Depth
    BY DEF Depth, DiscoveryAssumption
  <2> QED
    BY <2>1 DEF Depths
<1>9. Quiet'
  BY <1>1 DEF Quiet
<1> QED
  BY <1>2, <1>4, <1>5, <1>6, <1>7, <1>8, <1>9 DEF ScanInv

(* After a scan come SwitchInfos, PortInfos, or the end.                   *)
LEMMA StageFacts ==
  ASSUME NEW S, NEW done
  PROVE  Stage(S, done) \in {"swinf", "pinf", "idle"}
  BY DEF Stage

(* The steps that leave the scan's state alone.                            *)
LEMMA StaysStep ==
  ASSUME DiscoveryAssumption, ScanInv, UNCHANGED scanVars, Storing',
         \/ UNCHANGED pc
         \/ ~Scanning /\ ~Scanning' /\ (Asking' \/ jobs = {})
  PROVE  ScanInv'
<1>1. UNCHANGED <<todo, ctx, active, mqueue, jobs>>
  BY DEF scanVars, turnVars
<1>2. Windowed'
  BY <1>1 DEF ScanInv, Windowed, HasRoom
<1>3. CASE UNCHANGED pc
  <2>1. Shapes' /\ Contexts' /\ InOrder'
    BY <1>1 DEF ScanInv, Shapes, Contexts, InOrder, Used, Exhausted
  <2>2. OneGenerator'
    BY <1>1 DEF ScanInv, OneGenerator, Alive, IsReady, Used
  <2>3. Turns'
    BY <1>1 DEF ScanInv, Turns, IsReady
  <2>4. Quiet' /\ Depths'
    BY <1>1, <1>3 DEF ScanInv, Quiet, Depths, Scanning, Asking
  <2> QED
    BY <1>2, <2>1, <2>2, <2>3, <2>4 DEF ScanInv
<1>4. CASE ~Scanning /\ ~Scanning' /\ (Asking' \/ jobs = {})
  BY <1>1, <1>2, <1>4, OtherStep
<1> QED
  BY <1>3, <1>4

(* Every step keeps the coroutines in order.                               *)
LEMMA ScanNext ==
  ASSUME DiscoveryAssumption, ScanInv, [Next]_vars
  PROVE  ScanInv'
<1>0. /\ Storing /\ (~Scanning /\ ~Asking => jobs = {})
      /\ active # None => Scanning
  BY DEF ScanInv, Quiet
<1>1. ASSUME NEW S, LoadSA(S) PROVE ScanInv'
  BY <1>0, <1>1, StaysStep DEF LoadSA, Scanning, Asking, Storing
<1>2. ASSUME NEW S, StartScan(S) PROVE ScanInv'
  <2> DEFINE j == [what |-> "node", path |-> Start, depth |-> 0, peer |-> None, by |-> None]
  <2>1. /\ Scanning' /\ todo' = [d \in Depth |-> EmptyBucket] /\ ctx' = [c \in Ctx |-> NoCtx]
        /\ jobs' = {j} /\ UNCHANGED <<active, mqueue>> /\ ~Scanning /\ Storing'
    BY <1>0, <1>2 DEF StartScan, Scanning, turnVars, saVars, Storing
  <2>2. j.depth = 0
    OBVIOUS
  <2>3. active' = None /\ mqueue' = <<>>
    BY <2>1 DEF ScanInv, Quiet
  <2> QED
    BY <2>1, <2>2, <2>3, EdgeStep
<1>3. ASSUME NEW S, LoadMore(S) PROVE ScanInv'
  <2>1. /\ pc = "idle" /\ pc' \in {"swinf", "pinf", "idle"} /\ UNCHANGED <<table, scanVars>>
    BY <1>3, StageFacts DEF LoadMore, GoesOnTo
  <2> QED
    BY <1>0, <2>1, StaysStep DEF Scanning, Asking, Storing
<1>4. ASSUME NEW S, LoadNothing(S) PROVE ScanInv'
  BY <1>0, <1>4, StaysStep DEF LoadNothing, Storing, saVars
<1>5. ASSUME NEW t, SAReply(t) PROVE ScanInv'
  BY <1>0, <1>5, StaysStep DEF SAReply, Storing, loadVars
<1>6. ASSUME NEW w, SAStore(w) PROVE ScanInv'
  BY <1>0, <1>6, StaysStep DEF SAStore, Storing, loadVars
<1>7. ASSUME NEW w, SAStoreFails(w) PROVE ScanInv'
  BY <1>0, <1>7, StaysStep DEF SAStoreFails, SARaises, Ends, Scanning, Asking, Storing
<1>8. ASSUME SAStored PROVE ScanInv'
  BY <1>0, <1>8, StaysStep DEF SAStored, Storing, loadVars
<1>9. ASSUME SANext PROVE ScanInv'
  BY <1>0, <1>9, StaysStep DEF SANext, Ends, Scanning, Asking, Storing
<1>10. ASSUME SAQueryFails PROVE ScanInv'
  BY <1>0, <1>10, StaysStep DEF SAQueryFails, SARaises, Ends, Scanning, Asking, Storing
<1>11. ASSUME NEW j \in jobs, Reply(j) PROVE ScanInv'
  BY <1>11, ReplyStep
<1>12. ASSUME NEW c \in Ctx, Todo(c) PROVE ScanInv'
  BY <1>12, TodoStep
<1>13. ASSUME NEW x, Ask(x) PROVE ScanInv'
  <2>1. /\ ~Scanning /\ UNCHANGED <<pc, table, todo, ctx, active, mqueue>> /\ HasRoom /\ Asking
    BY <1>13 DEF Ask, Scanning, Asking, loadVars, turnVars
  <2>2. jobs' = jobs \/ \E j : jobs' = jobs \cup {j}
    BY <1>13 DEF Ask
  <2>3. Windowed'
    <3>1. Cardinality(jobs) \in Nat /\ IsFiniteSet(jobs) /\ active' = None
      BY <2>1, FS_CardinalityType DEF ScanInv, Windowed, Quiet
    <3>2. Cardinality(jobs') <= Cardinality(jobs) + 1 /\ IsFiniteSet(jobs')
      <4>1. CASE jobs' = jobs
        BY <3>1, <4>1
      <4>2. ASSUME NEW j, jobs' = jobs \cup {j}
            PROVE  Cardinality(jobs') <= Cardinality(jobs) + 1 /\ IsFiniteSet(jobs')
        <5> PICK S : S = jobs
          OBVIOUS
        <5>1. IsFiniteSet(S \cup {j}) /\ Cardinality(S \cup {j}) = IF j \in S THEN Cardinality(S) ELSE Cardinality(S) + 1
          BY <3>1, FS_AddElement
        <5> QED
          BY <3>1, <4>2, <5>1
      <4> QED
        BY <2>2, <4>1, <4>2
    <3>3. Cardinality(jobs') \in Nat
      BY <3>2, FS_CardinalityType
    <3> QED
      BY <2>1, <3>1, <3>2, <3>3 DEF Windowed, HasRoom, DiscoveryAssumption
  <2> QED
    BY <1>0, <2>1, <2>3, OtherStep DEF Scanning, Asking, Storing
<1>14. ASSUME NEW j \in jobs, Answer(j) PROVE ScanInv'
  <2>1. /\ ~Scanning /\ UNCHANGED <<pc, table, todo, ctx, active, mqueue>> /\ Asking
        /\ jobs' = jobs \ {j}
    BY <1>14 DEF Answer, Scanning, Asking, loadVars, turnVars, saVars
  <2>2. Windowed'
    <3>1. IsFiniteSet(jobs') /\ Cardinality(jobs') = Cardinality(jobs) - 1 /\ Cardinality(jobs) \in Nat
      BY <2>1, FS_RemoveElement, FS_CardinalityType DEF ScanInv, Windowed
    <3> QED
      BY <2>1, <3>1 DEF ScanInv, Windowed, Quiet, DiscoveryAssumption
  <2> QED
    BY <1>0, <2>1, <2>2, OtherStep DEF Scanning, Asking, Storing
<1>15. ASSUME ScanEnds PROVE ScanInv'
  <2>1. /\ pc' \in {"swinf", "pinf", "idle"} /\ UNCHANGED table /\ NoScan /\ Scanning
    BY <1>15, StageFacts DEF ScanEnds, GoesOnTo
  <2> QED
    BY <1>0, <2>1, EdgeStep DEF NoScan, Scanning, Storing
<1>16. ASSUME AskEnds PROVE ScanInv'
  <2>1. /\ pc' \in {"swinf", "pinf", "idle"} /\ UNCHANGED <<table, scanVars>> /\ Asking /\ jobs = {}
    BY <1>16, StageFacts DEF AskEnds, GoesOnTo
  <2> QED
    BY <1>0, <2>1, StaysStep DEF Scanning, Asking, Storing
<1>17. ASSUME ScanRaises PROVE ScanInv'
  <2>1. pc' = "idle" /\ UNCHANGED table /\ NoScan /\ (Scanning \/ Asking)
    BY <1>17 DEF ScanRaises, Ends
  <2> QED
    BY <1>0, <2>1, EdgeStep DEF NoScan, Scanning, Asking, Storing
<1>18. CASE UNCHANGED vars
  BY <1>0, <1>18, StaysStep DEF vars, loadVars, saVars, Storing
<1> QED
  BY <1>1, <1>2, <1>3, <1>4, <1>5, <1>6, <1>7, <1>8, <1>9, <1>10, <1>11, <1>12, <1>13, <1>14,
     <1>15, <1>16, <1>17, <1>18 DEF Next

(* Of the scan's structure, for every run.                                 *)
THEOREM ScanIsOrderly == Spec => []ScanInv
<1>1. Init => ScanInv
  BY DiscoveryAssumption, ScanInit
<1>2. ScanInv /\ [Next]_vars => ScanInv'
  BY DiscoveryAssumption, ScanNext
<1> QED
  BY <1>1, <1>2, PTL DEF Spec

(* When nobody has a turn and no MAD is in flight, every generator has     *)
(* ended: one that waits does so for one two depths up that is alive.      *)
LEMMA AllEnded ==
  ASSUME DiscoveryAssumption, ScanInv, jobs = {}, NobodyHasTurn, NEW c \in Ctx
  PROVE  ~Alive(c)
<1>1. HasRoom
  BY FS_EmptySet DEF HasRoom, DiscoveryAssumption
<1>2. active = None
  BY DEF NobodyHasTurn, HasTurn, ScanInv, Turns
<1>3. mqueue = <<>>
  <2> SUFFICES ASSUME mqueue # <<>> PROVE FALSE
    OBVIOUS
  <2>1. Last(mqueue) \in Ctx
    BY FrontFacts DEF ScanInv, Turns
  <2> QED
    BY <2>1, <1>1, <1>2 DEF NobodyHasTurn, HasTurn
<1>4. \A e \in Ctx : ~IsReady(e)
  BY <1>2, <1>3, EmptyFacts, NoneIsNoCtx DEF ScanInv, Turns
<1>5. \A e \in Ctx : Alive(e) => ctx[e].on \in Ctx /\ ctx[e].on[1] = e[1] - 2 /\ Alive(ctx[e].on)
  <2> SUFFICES ASSUME NEW e \in Ctx, Alive(e)
               PROVE  ctx[e].on \in Ctx /\ ctx[e].on[1] = e[1] - 2 /\ Alive(ctx[e].on)
    OBVIOUS
  <2>1. ctx[e].pc = "wait"
    BY <1>4 DEF Alive
  <2>2. ctx[e].on \in Ctx /\ ctx[e].on[1] = e[1] - 2 /\ Used(ctx[e].on)
    BY <2>1 DEF ScanInv, Contexts
  <2>3. ~Woken(e)
    BY <1>1, <1>2, <1>3 DEF NobodyHasTurn, HasTurn
  <2>4. ~Exhausted(ctx[e].on)
    BY <2>1, <2>3 DEF Woken, Complete
  <2> QED
    BY <2>2, <2>4 DEF ScanInv, Shapes, Used, Alive, IsReady, Exhausted
<1> DEFINE S == {n \in Nat : \A e \in Ctx : e[1] <= n => ~Alive(e)}
<1>6. \A e \in Ctx : e[1] \in Nat
  BY DEF Ctx, Depth, DiscoveryAssumption
<1>7. 0 \in S
  BY <1>5, <1>6
<1>8. \A n \in Nat : n \in S => n + 1 \in S
  BY <1>5, <1>6
<1> HIDE DEF S
<1>9. Nat \subseteq S
  BY <1>7, <1>8, SetInduction
<1>10. c[1] \in S
  BY <1>6, <1>9
<1> QED
  BY <1>6, <1>10 DEF S

(* When the scan returns no do_todo is left asleep on another one's        *)
(* context, with work in its bucket: discovery.py:257-262, 289.            *)
THEOREM NobodySleepsOn == Spec => NoneLeftAsleep
<1>1. ASSUME ScanInv, ScanEnds
      PROVE  /\ \A c \in Ctx : ctx[c].pc \in {"none", "done"}
             /\ \A d \in Depth : todo[d].nodes = <<>> /\ todo[d].ports = <<>>
  <2>1. \A c \in Ctx : ~Alive(c)
    BY <1>1, DiscoveryAssumption, AllEnded DEF ScanEnds
  <2>2. \A c \in Ctx : ctx[c].pc \in {"none", "done"}
    BY <1>1, <2>1 DEF ScanInv, Shapes, Alive, IsReady
  <2>3. \A d \in Depth : ~todo[d].running
    BY <1>1, <2>1 DEF ScanInv, OneGenerator
  <2> QED
    BY <1>1, <2>2, <2>3 DEF ScanInv, OneGenerator
<1>2. ScanInv /\ [Next]_vars =>
        [ScanEnds => /\ \A c \in Ctx : ctx[c].pc \in {"none", "done"}
                     /\ \A d \in Depth : todo[d].nodes = <<>> /\ todo[d].ports = <<>>]_vars
  BY <1>1
<1> QED
  BY <1>2, ScanIsOrderly, PTL DEF Spec, NoneLeftAsleep

(* The topology is what the cables are, between devices that are not late. *)
TopoTrue(db, L) ==
  \A p \in PortObj : LET q == db.topology[p] IN q # None =>
    /\ Exists(db, p) /\ Exists(db, q)
    /\ Parent(p)[1] \notin L /\ Parent(q)[1] \notin L =>
         db.topology[q] = p /\ PlaceOf(p) \in DOMAIN Link /\ q = Place1(Link[PlaceOf(p)])

(* A device that the SA is late with has one end port in its tables.       *)
SingleLate ==
  \A e, f \in EndPlace : e[1] = f[1] /\ e[1] \in Late /\ InTable(e) /\ InTable(f) => e = f

(* The database while it is filled from the SA.                            *)
SaDb(db) ==
  /\ DbInv(db, Late)
  /\ \A e \in EndPlace : InTable(e) /\ (IsSwitch(e[1]) \/ e[1] \in Late) /\ db.class[<<e[1], 1>>] # None =>
       db.lids[Lid[e]] # None
  /\ \A d \in Device : d \notin Late /\ ~IsSwitch(d) /\ db.class[<<d, 1>>] # None => db.nodes[d] # None
  /\ TopoTrue(db, Late)
  /\ \A h \in PathObj : db.path[h] = None

(* What a record leaves of what the others before it have brought.         *)
SaMore(db, r) ==
  /\ \A d \in Device : db.nodes[d] # None => r.nodes[d] # None
  /\ db.pinf \subseteq r.pinf
  /\ \A p \in PortObj : db.topology[p] # None => r.topology[p] # None

SaKept(db, e, r) ==
  /\ SaDb(r) /\ r.loaded = db.loaded /\ SaMore(db, r)
  /\ \A l \in LIDs : db.lids[l] # None => r.lids[l] # None
  /\ r.lids[Lid[e]] # None
  /\ \A q : Exists(db, q) => Exists(r, q)

LEMMA ByLidIs ==
  ASSUME NEW db, NEW w \in Place, NEW e \in EndPlace, e = ToEndPlace(w), Lid[e] # 0, NEW a, a = ByLid(w)
  PROVE  /\ Told(db, a, e) /\ Plain(a) /\ a.path = None /\ a.lid = Lid[e] /\ LidIn(db, a) = Lid[e]
         /\ Lid[e] \in LIDs /\ Lid[e] # None /\ Lid[e] \in Nat
<1>1. w[1] \in Device /\ e[1] = w[1]
  BY PlaceFacts
<1>2. Lid[e] \in Nat /\ Lid[e] \in LIDs /\ Lid[e] # None
  BY RangeFacts, FixedNone
<1>3. /\ a \in Args /\ a.about = w[1] /\ a.idx = None /\ a.node = None /\ a.guid = None
      /\ a.path = None /\ a.lid = Lid[e] /\ a.lmc = 0
  BY <1>1, <1>2 DEF ByLid, Known, Args
<1>4. LidIn(db, a) = Lid[e]
  BY <1>2, <1>3 DEF LidIn
<1> QED
  BY <1>1, <1>2, <1>3, <1>4 DEF Told, Plain

(* By its LID alone an end port is found if it is known.                   *)
LEMMA FindsByLid ==
  ASSUME NEW db, NEW e, NEW a, Told(db, a, e), a.guid = None, a.node = None, a.path = None,
         LidIn(db, a) # None
  PROVE  search_end_port(db, a) = db.lids[Lid[e]] /\ Lid[e] \in LIDs
<1>1. LidIn(db, a) = Lid[e] /\ Lid[e] # 0 /\ e \in EndPlace
  BY DEF Told
<1>2. Lid[e] \in LIDs
  BY <1>1, RangeFacts
<1> QED
  BY <1>1, <1>2 DEF search_end_port

(* A table's record is found, or its device is new.                        *)
LEMMA FindableByLid ==
  ASSUME NEW db, NEW L, NEW e, NEW a, Told(db, a, e), a.guid = None, a.node = None, a.path = None,
         LidIn(db, a) # None, NEW type,
         db.lids[Lid[e]] = None =>
           db.class[<<e[1], 1>>] = None /\ (e[1] \notin L => IsSwitch(e[1]) /\ type = "Switch"),
         e[1] \notin L /\ ~IsSwitch(e[1]) => a.idx \in {e[2], None}
  PROVE  Findable(db, L, e, type, a)
BY FindsByLid DEF Findable, IsSwitch

(* What a search that finds nothing, for a caller that knows the index,    *)
(* says of the indexes.                                                    *)
LEMMA SearchMisses ==
  ASSUME NEW db, NEW L, DbInv(db, L), NEW e, NEW a, Told(db, a, e), a.idx # None,
         search_end_port(db, a) = None
  PROVE  /\ a.node # None => db.nodes[a.node] = None
         /\ LidIn(db, a) # None => db.lids[LidIn(db, a)] = None
<1> PICK cached : cached = IF a.path = None THEN None ELSE db.path[a.path].ep
  OBVIOUS
<1> PICK named : named = IF a.guid = None THEN None ELSE db.ports[a.guid]
  OBVIOUS
<1> PICK node : node = IF a.node = None THEN None ELSE db.nodes[a.node]
  OBVIOUS
<1> PICK lid : lid = LidIn(db, a)
  OBVIOUS
<1> PICK found : found = search_end_port(db, a)
  OBVIOUS
<1>1. cached = None
  <2>1. cached # None => found = cached
    BY DEF search_end_port
  <2> QED
    BY <2>1
<1>2. named = None
  <2>1. named # None => found = named
    BY <1>1 DEF search_end_port
  <2> QED
    BY <2>1
<1>3. node = None
  <2> SUFFICES ASSUME node # None PROVE FALSE
    OBVIOUS
  <2>1. found = PortAt(db, node, EndIndex(db, node, a.idx))
    BY <1>1, <1>2 DEF search_end_port
  <2>2. a.node \in Device /\ node = db.nodes[a.node] /\ a.idx \in 0..MaxPort
    BY DEF Told, Args
  <2>3. node \in NodeObj
    BY <2>2 DEF DbInv, DbTypes
  <2>4. EndIndex(db, node, a.idx) \in 0..MaxPort
    BY <2>2, Ports DEF EndIndex
  <2>5. PortAt(db, node, EndIndex(db, node, a.idx)) \in PortObj
    BY <2>3, <2>4, SlotFacts
  <2> QED
    BY <2>1, <2>5, FixedNone
<1>4. lid # None => db.lids[lid] = None
  <2> SUFFICES ASSUME lid # None PROVE db.lids[lid] = None
    OBVIOUS
  <2>1. lid = Lid[e] /\ Lid[e] # 0 /\ e \in EndPlace
    BY DEF Told
  <2>2. lid \in LIDs
    BY <2>1, RangeFacts
  <2>3. found = IF lid # None /\ lid \in LIDs THEN db.lids[lid] ELSE None
    BY <1>1, <1>2, <1>3 DEF search_end_port
  <2> QED
    BY <2>2, <2>3
<1> QED
  BY <1>3, <1>4

(* What an operation has to grant to keep the SA's database.               *)
LEMMA SaGoesOn ==
  ASSUME SingleLate, NEW db, SaDb(db), NEW e \in EndPlace, InTable(e), NEW r, DbInv(r, Late),
         r.topology = db.topology, r.loaded = db.loaded, r.path = db.path, db.pinf \subseteq r.pinf,
         \A m \in NodeObj : db.class[m] # None => r.class[m] # None,
         \A m \in NodeObj : m # <<e[1], 1>> => r.class[m] = db.class[m],
         \A l \in LIDs : db.lids[l] # None => r.lids[l] # None,
         r.lids[Lid[e]] # None,
         \A d \in Device : db.nodes[d] # None => r.nodes[d] # None,
         e[1] \notin Late /\ ~IsSwitch(e[1]) => r.nodes[e[1]] # None \/ db.class[<<e[1], 1>>] # None
  PROVE  SaKept(db, e, r)
<1>1. \A q : Exists(db, q) => Exists(r, q)
  BY DEF Exists, PortObj, Parent
<1>2. ASSUME NEW f \in EndPlace, InTable(f), IsSwitch(f[1]) \/ f[1] \in Late, r.class[<<f[1], 1>>] # None
      PROVE  r.lids[Lid[f]] # None
  <2>1. CASE f[1] = e[1]
    <3>1. f = e
      <4>1. CASE f[1] \in Late
        BY <1>2, <2>1, <4>1 DEF SingleLate
      <4>2. CASE IsSwitch(f[1])
        BY <2>1, <4>2, EndPorts, EndPlaceFacts
      <4> QED
        BY <1>2, <4>1, <4>2
    <3> QED
      BY <3>1
  <2>2. CASE f[1] # e[1]
    <3>1. <<f[1], 1>> \in NodeObj /\ <<f[1], 1>> # <<e[1], 1>>
      BY <2>2, EndPlaceFacts, FirstNode
    <3>2. db.class[<<f[1], 1>>] # None
      BY <1>2, <3>1
    <3>3. db.lids[Lid[f]] # None
      BY <1>2, <3>2 DEF SaDb
    <3>4. Lid[f] \in LIDs
      BY <1>2, RangeFacts DEF InTable
    <3> QED
      BY <3>3, <3>4
  <2> QED
    BY <2>1, <2>2
<1>3. ASSUME NEW d \in Device, d \notin Late, ~IsSwitch(d), r.class[<<d, 1>>] # None
      PROVE  r.nodes[d] # None
  <2>1. CASE d = e[1]
    BY <1>3, <2>1 DEF SaDb
  <2>2. CASE d # e[1]
    <3>1. <<d, 1>> \in NodeObj /\ <<d, 1>> # <<e[1], 1>>
      BY <2>2, FirstNode
    <3> QED
      BY <1>3, <3>1 DEF SaDb
  <2> QED
    BY <2>1, <2>2
<1>4. TopoTrue(r, Late)
  BY <1>1 DEF SaDb, TopoTrue
<1>5. \A h \in PathObj : r.path[h] = None
  BY DEF SaDb
<1>6. SaDb(r)
  BY <1>2, <1>3, <1>4, <1>5 DEF SaDb
<1> QED
  BY <1>1, <1>6 DEF SaKept, SaMore

NinfsThere(db) == \A f \in Records("ninf") : db.lids[Lid[f]] # None

(* The NodeInfo table is of end ports of devices in time.                  *)
LEMMA NinfRecords == \A w \in Records("ninf") :
    w \in EndPlace /\ InTable(w) /\ w[1] \notin Late /\ ToEndPlace(w) = w /\ w \in Place
  BY DEF Records, EndPlace

(* A device that is not late is in the NodeInfo table.                     *)
LEMMA NoMoreLate ==
  ASSUME NEW e \in EndPlace, InTable(e), e[1] \notin Late
  PROVE  e \in Records("ninf")
  BY DEF Records

(* A NodeInfo record.                                                      *)
LEMMA SaNinf ==
  ASSUME SingleLate, NEW db, SaDb(db), NEW w \in Records("ninf"),
         NEW r, r = get_node_ninf(db, w, ByLid(w)).db
  PROVE  SaKept(db, w, r) /\ r.nodes[w[1]] # None
<1> PICK a : a = ByLid(w)
  OBVIOUS
<1> PICK b : b = AboutNode(w, a)
  OBVIOUS
<1> PICK np : np = get_node_ninf(db, w, a)
  OBVIOUS
<1>1. w \in EndPlace /\ InTable(w) /\ w[1] \notin Late /\ ToEndPlace(w) = w /\ w \in Place
  BY NinfRecords
<1>2. /\ Told(db, a, w) /\ Plain(a) /\ a.path = None /\ LidIn(db, a) = Lid[w]
      /\ Lid[w] \in LIDs /\ Lid[w] # None
  <2>1. Lid[w] # 0
    BY <1>1 DEF InTable
  <2> QED
    BY <1>1, <2>1, ByLidIs
<1>3. /\ Told(db, b, w) /\ LidIn(db, b) = Lid[w] /\ b.idx = w[2] /\ b.node = w[1] /\ b.guid = w
      /\ b.path = None
  <2>1. ToEndPlace(w) \in EndPlace /\ Told(db, a, ToEndPlace(w))
    BY <1>1, <1>2
  <2> QED
    BY <1>1, <1>2, <2>1, AboutNodeIs
<1>4. DbInv(db, Late) /\ w[1] \in Device /\ <<w[1], 1>> \in NodeObj /\ w[2] \in 0..MaxPort
  BY <1>1, PlaceFacts, FirstNode DEF SaDb
<1>5. ASSUME search_end_port(db, b) = None PROVE db.class[<<w[1], 1>>] = None
  <2>3. /\ b.node # None => db.nodes[b.node] = None
        /\ LidIn(db, b) # None => db.lids[LidIn(db, b)] = None
    <3>1. b.idx # None
      BY <1>3, <1>4, FixedNone
    <3> QED
      BY <1>3, <1>4, <1>5, <3>1, SearchMisses
  <2>1. CASE IsSwitch(w[1])
    <3>1. db.lids[Lid[w]] = None
      BY <2>3, <1>2, <1>3
    <3> QED
      BY <1>1, <2>1, <3>1 DEF SaDb
  <2>2. CASE ~IsSwitch(w[1])
    <3>1. db.nodes[w[1]] = None
      BY <2>3, <1>3, <1>4, FixedNone
    <3> QED
      BY <1>1, <1>4, <2>2, <3>1 DEF SaDb
  <2> QED
    BY <2>1, <2>2
<1>6. Findable(db, Late, w, Kind[w[1]], b)
  BY <1>1, <1>3, <1>5 DEF Findable
<1>7. NinfGot(db, Late, w, a, np)
  <2>1. w = ToEndPlace(w) /\ Findable(db, Late, w, Kind[w[1]], AboutNode(w, a))
    BY <1>1, <1>6
  <2>2. np = get_node_ninf(db, w, a)
    OBVIOUS
  <2> QED
    BY <1>1, <1>2, <1>4, <2>1, <2>2, NinfKeeps
<1>8. r = np.db
  OBVIOUS
<1>9. /\ DbInv(r, Late) /\ r.topology = db.topology /\ r.loaded = db.loaded /\ r.pinf = db.pinf
      /\ np.node = <<w[1], 1>>
      /\ r.path = IF a.path # None THEN WithEp(db.path, a.path, np.port) ELSE db.path
  BY <1>7, <1>8 DEF NinfGot
<1>10. /\ \A m \in NodeObj : db.class[m] # None => r.class[m] # None
       /\ \A m \in NodeObj : m # <<w[1], 1>> => r.class[m] = db.class[m]
       /\ \A l \in LIDs : db.lids[l] # None => r.lids[l] # None
  BY <1>7, <1>8 DEF NinfGot
<1>11. /\ LidIn(db, a) # None => r.lids[Lid[w]] # None
       /\ \A d \in Device : r.nodes[d] = IF d = w[1] THEN np.node ELSE db.nodes[d]
  BY <1>7, <1>8 DEF NinfGot
<1>12. /\ \A d \in Device : db.nodes[d] # None => r.nodes[d] # None
       /\ r.nodes[w[1]] # None
  BY <1>4, <1>9, <1>11, FixedNone
<1> QED
  BY <1>1, <1>2, <1>9, <1>10, <1>11, <1>12, SaGoesOn

SwinfStored(db, n) == [db EXCEPT !.swinf = @ \cup {n}]
(* Storing a SwitchInfo changes no index.                                  *)
LEMMA SwinfStoredKeeps ==
  ASSUME NEW db, NEW L, DbInv(db, L), NEW n \in NodeObj, NEW r, r = SwinfStored(db, n)
  PROVE  /\ DbInv(r, L) /\ SameIndexes(db, r) /\ r.pinf = db.pinf /\ r.topology = db.topology
         /\ r.loaded = db.loaded /\ r.path = db.path /\ r.paths = db.paths
<1>1. DbTypes(db)
  BY DEF DbInv
<1>2. /\ DOMAIN r = DOMAIN EmptyDb
      /\ SameIndexes(db, r) /\ r.pinf = db.pinf /\ r.topology = db.topology
      /\ r.loaded = db.loaded /\ r.path = db.path /\ r.paths = db.paths
      /\ r.swinf = db.swinf \cup {n}
  BY <1>1 DEF DbTypes, EmptyDb, SwinfStored, SameIndexes
<1>3. DbInv(r, L)
  BY <1>1, <1>2, OthersKeep DEF DbTypes
<1> QED
  BY <1>2, <1>3

(* An end port in the tables is known by its LID, or its device is new.    *)
LEMMA KnownOrNew ==
  ASSUME NEW db, SaDb(db), NEW e \in EndPlace, InTable(e), NEW a, Told(db, a, e),
         a.guid = None, a.node = None, a.path = None, LidIn(db, a) # None, NEW type,
         e[1] \notin Late => NinfsThere(db) \/ (IsSwitch(e[1]) /\ type = "Switch"),
         e[1] \notin Late /\ ~IsSwitch(e[1]) => a.idx \in {e[2], None}
  PROVE  Findable(db, Late, e, type, a)
<1>1. ASSUME db.lids[Lid[e]] = None
      PROVE  db.class[<<e[1], 1>>] = None /\ (e[1] \notin Late => IsSwitch(e[1]) /\ type = "Switch")
  <2>1. CASE e[1] \in Late
    BY <1>1, <2>1 DEF SaDb
  <2>2. CASE e[1] \notin Late
    <3>1. e \in Records("ninf")
      BY <2>2, NoMoreLate
    <3>2. ~NinfsThere(db)
      BY <1>1, <3>1 DEF NinfsThere
    <3> QED
      BY <1>1, <2>2, <3>2 DEF SaDb
  <2> QED
    BY <2>1, <2>2
<1> QED
  BY <1>1, FindableByLid

(* What get_node leaves, seen from the tables.                             *)
LEMMA SaGot ==
  ASSUME SingleLate, NEW db, SaDb(db), NEW e \in EndPlace, InTable(e), NEW a, Told(db, a, e),
         a.guid = None, a.path = None, LidIn(db, a) # None, NEW np, Got(db, Late, e, a, np),
         e[1] \notin Late /\ ~IsSwitch(e[1]) => db.class[<<e[1], 1>>] # None
  PROVE  SaKept(db, e, np.db) /\ np.node = <<e[1], 1>> /\ np.node \in NodeObj
<1> PICK r : r = np.db
  OBVIOUS
<1>1. /\ DbInv(r, Late) /\ r.nodes = db.nodes /\ r.topology = db.topology /\ r.loaded = db.loaded
      /\ r.path = db.path /\ r.pinf = db.pinf /\ np.node = <<e[1], 1>>
  BY DEF Got, SameRest
<1>2. /\ \A m \in NodeObj : db.class[m] # None => r.class[m] # None
      /\ \A m \in NodeObj : m # <<e[1], 1>> => r.class[m] = db.class[m]
      /\ \A l \in LIDs : db.lids[l] # None => r.lids[l] # None
      /\ r.lids[Lid[e]] # None
  BY DEF Got
<1>3. SaKept(db, e, r)
  BY <1>1, <1>2, SaGoesOn
<1> QED
  BY <1>1, <1>3, EndPlaceFacts, FirstNode

(* What was kept stays so when only the SwitchInfos change.                *)
LEMMA SaKeptOthers ==
  ASSUME NEW db, NEW e, NEW t, SaKept(db, e, t), NEW r, DbInv(r, Late), SameIndexes(t, r),
         r.topology = t.topology, r.loaded = t.loaded, r.path = t.path, r.pinf = t.pinf
  PROVE  SaKept(db, e, r)
<1>1. \A q : Exists(t, q) => Exists(r, q)
  BY DEF Exists, SameIndexes
<1>2. SaDb(r)
  BY <1>1 DEF SaKept, SaDb, SameIndexes, TopoTrue
<1>3. SaMore(db, r)
  BY DEF SaKept, SaMore, SameIndexes
<1> QED
  BY <1>1, <1>2, <1>3 DEF SaKept, SameIndexes

(* A SwitchInfo record.                                                    *)
LEMMA SaSwinf ==
  ASSUME SingleLate, NEW db, SaDb(db), NEW w \in Records("swinf"),
         NEW np, np = get_node(db, "Switch", At2(ByLid(w), 0))
  PROVE  SaKept(db, w, SwinfStored(np.db, np.node))
<1> PICK a : a = ByLid(w)
  OBVIOUS
<1> PICK b : b = At2(a, 0)
  OBVIOUS
<1>1. w \in EndPlace /\ InTable(w) /\ IsSwitch(w[1]) /\ ToEndPlace(w) = w /\ w \in Place
  BY DEF Records, EndPlace
<1>2. w[2] = 0 /\ 0 \in 0..MaxPort /\ Lid[w] # 0
  BY <1>1, EndPorts, Ports DEF InTable
<1>3. /\ Told(db, a, w) /\ Plain(a) /\ a.path = None /\ LidIn(db, a) = Lid[w] /\ Lid[w] # None
  BY <1>1, <1>2, ByLidIs
<1>4. /\ Told(db, b, w) /\ LidIn(db, b) = Lid[w] /\ b.guid = None /\ b.node = None /\ b.path = None
  BY <1>2, <1>3, ToldIndex DEF Plain
<1>5. Findable(db, Late, w, "Switch", b)
  BY <1>1, <1>3, <1>4, KnownOrNew
<1>6. Got(db, Late, w, b, np)
  <2>1. DbInv(db, Late) /\ "Switch" \in Types
    BY DEF SaDb, Types
  <2>2. np = get_node(db, "Switch", b)
    OBVIOUS
  <2> QED
    BY <1>4, <1>5, <2>1, <2>2, GetNodeKeeps
<1>7. SaKept(db, w, np.db) /\ np.node \in NodeObj
  BY <1>1, <1>3, <1>4, <1>6, SaGot
<1> PICK r : r = SwinfStored(np.db, np.node)
  OBVIOUS
<1>8. DbInv(np.db, Late)
  BY <1>7 DEF SaKept, SaDb
<1>9. /\ DbInv(r, Late) /\ SameIndexes(np.db, r) /\ r.topology = np.db.topology
      /\ r.loaded = np.db.loaded /\ r.path = np.db.path /\ r.pinf = np.db.pinf
  BY <1>7, <1>8, SwinfStoredKeeps
<1>10. SaKept(db, w, r)
  BY <1>7, <1>9, SaKeptOthers
<1> QED
  BY <1>10

(* What get_port leaves, seen from the tables.                             *)
SaPort(db, w, e, np) ==
  /\ SaKept(db, e, np.db) /\ Exists(np.db, np.port)
  /\ Parent(np.port) = <<e[1], 1>> /\ (e[1] \notin Late => np.port = Place1(w))
LEMMA SaPortGot ==
  ASSUME SingleLate, NEW db, SaDb(db), NEW w, NEW e \in EndPlace, InTable(e), NEW a,
         a.path = None, LidIn(db, a) # None, NEW pinf, NEW np, PortGot(db, Late, w, e, a, pinf, np), db.pinf \subseteq pinf,
         e[1] \notin Late /\ ~IsSwitch(e[1]) => db.class[<<e[1], 1>>] # None
  PROVE  SaPort(db, w, e, np)
<1> PICK r : r = np.db
  OBVIOUS
<1>1. /\ DbInv(r, Late) /\ r.nodes = db.nodes /\ r.topology = db.topology /\ r.loaded = db.loaded
      /\ r.path = db.path /\ r.pinf = pinf
      /\ np.node = <<e[1], 1>> /\ np.port \in PortObj /\ Parent(np.port) = np.node
      /\ r.class[np.node] # None /\ (e[1] \notin Late => np.port = Place1(w))
  BY DEF PortGot
<1>2. /\ \A m \in NodeObj : db.class[m] # None => r.class[m] # None
      /\ \A m \in NodeObj : m # <<e[1], 1>> => r.class[m] = db.class[m]
      /\ \A l \in LIDs : db.lids[l] # None => r.lids[l] # None
      /\ r.lids[Lid[e]] # None
  BY DEF PortGot
<1>3. SaKept(db, e, r)
  BY <1>1, <1>2, SaGoesOn
<1> QED
  BY <1>1, <1>3 DEF Exists, SaPort

(* Once the NodeInfos are stored, a device is known or late.               *)
LEMMA FoundOrLate ==
  ASSUME NEW db, SaDb(db), NinfsThere(db), NEW e \in EndPlace, InTable(e), e[1] \notin Late
  PROVE  db.class[<<e[1], 1>>] # None /\ db.lids[Lid[e]] # None
<1>1. e \in Records("ninf") /\ Lid[e] # 0
  BY NoMoreLate DEF InTable
<1>2. db.lids[Lid[e]] # None /\ Lid[e] \in LIDs /\ PlaceAtLid(Lid[e]) = e
  BY <1>1, RangeFacts DEF NinfsThere
<1>3. /\ Exists(db, db.lids[Lid[e]]) /\ Parent(db.lids[Lid[e]])[1] = e[1]
      /\ db.lids[Lid[e]] = Place1(e)
  BY <1>2 DEF SaDb, DbInv, LidIndexRight
<1> QED
  BY <1>2, <1>3 DEF Exists, Place1, Parent

(* A PortInfo record.                                                      *)
LEMMA SaPinf ==
  ASSUME SingleLate, NEW db, SaDb(db), NinfsThere(db), NEW w \in Records("pinf"),
         NEW e, e = ToEndPlace(w), NEW np, np = get_port_pinf(db, w, w[2], PinfLid(w), ByLid(w))
  PROVE  SaKept(db, e, np.db) /\ (w[1] \notin Late => Place1(w) \in np.db.pinf)
<1> PICK a : a = ByLid(w)
  OBVIOUS
<1> PICK lid : lid = PinfLid(w)
  OBVIOUS
<1> PICK b : b = AboutPort(w, lid, a)
  OBVIOUS
<1> PICK c : c = At2(b, w[2])
  OBVIOUS
<1>1. w \in Place /\ InTable(e) /\ (IsSwitch(w[1]) \/ w[2] # 0)
  BY DEF Records, PortRecords
<1>2. e \in EndPlace /\ e[1] = w[1] /\ w[2] \in 0..MaxPort /\ (~IsSwitch(e[1]) => e = w) /\ Lid[e] # 0
  BY <1>1, PlaceFacts DEF InTable
<1>3. /\ Told(db, a, e) /\ Plain(a) /\ a.path = None /\ LidIn(db, a) = Lid[e] /\ Lid[e] # None
  BY <1>1, <1>2, ByLidIs
<1>4. lid \in {0, Lid[e]}
  BY DEF PinfLid
<1>5. Told(db, b, e) /\ Plain(b) /\ b.path = None /\ LidIn(db, b) # None
  BY <1>3, <1>4, AboutPortIs
<1>6. /\ Told(db, c, e) /\ LidIn(db, c) # None /\ c.guid = None /\ c.node = None /\ c.path = None
      /\ c.idx = w[2]
  BY <1>2, <1>5, ToldIndex DEF Plain
<1>7. Findable(db, Late, e, PortType(w[2]), c)
  BY <1>1, <1>2, <1>6, KnownOrNew
<1>8. PortGot(db, Late, w, e, b, db.pinf \cup {np.port}, np)
  <2>1. DbInv(db, Late)
    BY DEF SaDb
  <2>2. np = get_port_pinf(db, w, w[2], lid, a)
    OBVIOUS
  <2>3. Findable(db, Late, e, PortType(w[2]), At2(b, w[2]))
    BY <1>7
  <2> QED
    BY <1>2, <1>3, <1>4, <2>1, <2>2, <2>3, PortInfoKeeps
<1> PICK pinf : pinf = db.pinf \cup {np.port}
  OBVIOUS
<1>9. PortGot(db, Late, w, e, b, pinf, np)
  BY <1>8
<1>10. e[1] \notin Late /\ ~IsSwitch(e[1]) => db.class[<<e[1], 1>>] # None
  BY <1>1, <1>2, FoundOrLate
<1>11. SaPort(db, w, e, np)
  <2>1. e \in EndPlace /\ InTable(e) /\ SaDb(db) /\ db.pinf \subseteq pinf
    BY <1>1, <1>2
  <2>2. b.path = None /\ LidIn(db, b) # None
    BY <1>5
  <2> QED
    BY <1>9, <1>10, <2>1, <2>2, SaPortGot
<1>12. np.db.pinf = pinf
  BY <1>9 DEF PortGot
<1> QED
  BY <1>2, <1>11, <1>12 DEF SaPort

(* One end of a link record.                                               *)
LEMMA SaEnd ==
  ASSUME SingleLate, NEW db, SaDb(db), NinfsThere(db), NEW w \in DOMAIN Link,
         NEW e, e = ToEndPlace(w), InTable(e), NEW np, np = LinkEnd(db, w)
  PROVE  SaPort(db, w, e, np)
<1> PICK a : a = ByLid(w)
  OBVIOUS
<1> PICK np1 : np1 = get_node(db, "Node", a)
  OBVIOUS
<1>1. w \in Place /\ w[2] # 0 /\ w[2] \in 0..MaxPort /\ e \in EndPlace /\ e[1] = w[1] /\ w[1] = e[1]
      /\ (~IsSwitch(e[1]) => e = w) /\ Lid[e] # 0
  <2>1. w \in Place /\ w[2] # 0
    BY FabricAssumption DEF FabricAssumption
  <2> QED
    BY <2>1, PlaceFacts DEF InTable
<1>2. /\ Told(db, a, e) /\ Plain(a) /\ a.path = None /\ LidIn(db, a) = Lid[e] /\ Lid[e] # None
  BY <1>1, ByLidIs
<1>3. /\ a.guid = None /\ a.node = None /\ a.idx = None
  BY <1>2 DEF Plain
<1>4. Findable(db, Late, e, "Node", a)
  BY <1>1, <1>2, <1>3, KnownOrNew
<1>5. Got(db, Late, e, a, np1)
  <2>1. DbInv(db, Late) /\ "Node" \in Types
    BY DEF SaDb, Types
  <2>2. np1 = get_node(db, "Node", a)
    OBVIOUS
  <2> QED
    BY <1>2, <1>4, <2>1, <2>2, GetNodeKeeps
<1>6. e[1] \notin Late /\ ~IsSwitch(e[1]) => db.class[<<e[1], 1>>] # None
  BY <1>1, FoundOrLate
<1> PICK t : t = np1.db
  OBVIOUS
<1>7. SaKept(db, e, t) /\ np1.node = <<e[1], 1>> /\ np1.node \in NodeObj
  BY <1>1, <1>2, <1>3, <1>5, <1>6, SaGot
<1>8. np = EndPort(np1, w)
  BY DEF LinkEnd
<1>9. CASE ~IsSwitchNode(np1.db, np1.node)
  <2>1. np = np1
    BY <1>8, <1>9 DEF EndPort
  <2>2. RightPort(t, Late, e, np1.port)
    BY <1>5 DEF Got
  <2>3. Exists(t, np1.port) /\ Parent(np1.port) = <<e[1], 1>>
    BY <2>2 DEF RightPort, Exists
  <2>4. e[1] \notin Late => np1.port = Place1(w)
    <3> SUFFICES ASSUME e[1] \notin Late PROVE np1.port = Place1(w)
      OBVIOUS
    <3>1. np1.port = Place1(e)
      BY <2>2 DEF RightPort
    <3>2. t.class[<<e[1], 1>>] # None /\ NodesRight(t, Late)
      BY <2>2, <1>7 DEF RightPort, SaKept, SaDb, DbInv
    <3>3. t.class[<<e[1], 1>>] = Kind[e[1]]
      BY <3>2, <1>7 DEF NodesRight
    <3>4. ~IsSwitch(e[1])
      BY <1>7, <1>9, <3>3 DEF IsSwitchNode, IsSwitch
    <3> QED
      BY <1>1, <3>1, <3>4
  <2> QED
    BY <1>7, <2>1, <2>3, <2>4 DEF SaPort
<1>10. CASE IsSwitchNode(np1.db, np1.node)
  <2>1. np = get_port(t, w[2], a)
    BY <1>8, <1>10 DEF EndPort
  <2>2. SaDb(t) /\ DbInv(t, Late) /\ t.lids[Lid[e]] # None /\ t.path = db.path
        /\ \A l \in LIDs : db.lids[l] # None => t.lids[l] # None
    BY <1>2, <1>5, <1>7 DEF SaKept, SaDb, Got
  <2>3. Told(t, a, e) /\ LidIn(t, a) = LidIn(db, a)
    BY <1>2, <2>2, ToldAgain
  <2> PICK c : c = At2(a, w[2])
    OBVIOUS
  <2>4. /\ Told(t, c, e) /\ LidIn(t, c) # None /\ c.guid = None /\ c.node = None /\ c.path = None
        /\ c.idx = w[2]
    BY <1>1, <1>2, <1>3, <2>3, ToldIndex
  <2>5. Findable(t, Late, e, PortType(w[2]), c)
    BY <1>1, <2>2, <2>4, FindableByLid
  <2>6. PortGot(t, Late, w, e, a, t.pinf, np)
    <3>1. Findable(t, Late, e, PortType(w[2]), At2(a, w[2]))
      BY <2>5
    <3> QED
      BY <1>1, <1>2, <2>1, <2>2, <2>3, <3>1, GetPortKeeps
  <2>7. t.class[<<e[1], 1>>] # None
    BY <1>5 DEF Got, RightPort
  <2>8. SaPort(t, w, e, np)
    <3>1. LidIn(t, a) # None /\ a.path = None /\ t.pinf \subseteq t.pinf
      BY <1>2, <2>3
    <3> PICK pinf : pinf = t.pinf
      OBVIOUS
    <3>2. PortGot(t, Late, w, e, a, pinf, np)
      BY <2>6
    <3>3. SaDb(t) /\ e \in EndPlace
      BY <1>1, <2>2
    <3>4. e[1] \notin Late /\ ~IsSwitch(e[1]) => t.class[<<e[1], 1>>] # None
      BY <2>7
    <3> QED
      BY <3>1, <3>2, <3>3, <3>4, SaPortGot
  <2>9. SaKept(db, e, np.db)
    BY <1>7, <2>8 DEF SaKept, SaMore, SaPort
  <2> QED
    BY <2>8, <2>9 DEF SaPort
<1> QED
  BY <1>9, <1>10

(* A cable noted in both directions.                                       *)
LEMMA LinkPortsTrue ==
  ASSUME NEW db, NEW L, DbInv(db, L), TopoTrue(db, L), NEW w \in DOMAIN Link, NEW v, v = Link[w],
         NEW f, Exists(db, f), Parent(f) = <<w[1], 1>>, w[1] \notin L => f = Place1(w),
         NEW t, Exists(db, t), Parent(t) = <<v[1], 1>>, v[1] \notin L => t = Place1(v),
         NEW r, r = LinkPorts(db, f, t)
  PROVE  /\ DbInv(r, L) /\ TopoTrue(r, L) /\ SameIndexes(db, r)
         /\ r.swinf = db.swinf /\ r.pinf = db.pinf /\ r.loaded = db.loaded
         /\ r.path = db.path /\ r.paths = db.paths
         /\ \A p \in PortObj : r.topology[p] = IF p = t THEN f ELSE IF p = f THEN t ELSE db.topology[p]
<1>1. DbTypes(db) /\ f \in PortObj /\ t \in PortObj
  BY DEF DbInv, Exists
<1> PICK topo : topo = [[db.topology EXCEPT ![f] = t] EXCEPT ![t] = f]
  OBVIOUS
<1>2. /\ topo \in [PortObj -> PortObj \cup {None}]
      /\ \A p \in PortObj : topo[p] = IF p = t THEN f ELSE IF p = f THEN t ELSE db.topology[p]
  BY <1>1 DEF DbTypes
<1>3. r = [db EXCEPT !.topology = topo]
  BY <1>1 DEF LinkPorts, DbTypes, EmptyDb
<1>4. /\ DOMAIN r = DOMAIN EmptyDb /\ SameIndexes(db, r) /\ r.topology = topo
      /\ r.swinf = db.swinf /\ r.pinf = db.pinf /\ r.loaded = db.loaded
      /\ r.path = db.path /\ r.paths = db.paths
  BY <1>1, <1>3 DEF DbTypes, EmptyDb, SameIndexes
<1>5. DbInv(r, L)
  BY <1>1, <1>2, <1>4, OthersKeep DEF DbTypes
<1>6. \A q : Exists(db, q) => Exists(r, q)
  BY <1>4 DEF Exists, SameIndexes
<1>7. w \in Place /\ v \in DOMAIN Link /\ v \in Place /\ Link[v] = w /\ v # w
  BY FabricAssumption DEF FabricAssumption
<1>8. w = <<w[1], w[2]>> /\ v = <<v[1], v[2]>>
  BY <1>7, PlaceFacts
<1>9. PlaceOf(Place1(w)) = w /\ PlaceOf(Place1(v)) = v /\ Place1(v) # Place1(w)
  BY <1>7, <1>8 DEF PlaceOf, Place1
<1>10. ASSUME NEW p \in PortObj, NEW q, q = r.topology[p], q # None
       PROVE  /\ Exists(r, p) /\ Exists(r, q)
              /\ Parent(p)[1] \notin L /\ Parent(q)[1] \notin L =>
                   r.topology[q] = p /\ PlaceOf(p) \in DOMAIN Link /\ q = Place1(Link[PlaceOf(p)])
  <2>1. CASE p = t
    <3>1. q = f
      BY <1>2, <1>4, <1>10, <2>1
    <3>2. w[1] \notin L /\ v[1] \notin L => r.topology[f] = t
      BY <1>1, <1>2, <1>4, <1>9
    <3> QED
      BY <1>6, <1>7, <1>9, <2>1, <3>1, <3>2
  <2>2. CASE p = f /\ p # t
    <3>1. q = t
      BY <1>2, <1>4, <1>10, <2>2
    <3>2. r.topology[t] = f
      BY <1>1, <1>2, <1>4
    <3> QED
      BY <1>6, <1>7, <1>9, <2>2, <3>1, <3>2
  <2>3. CASE p # f /\ p # t
    <3>1. q = db.topology[p]
      BY <1>2, <1>4, <1>10, <2>3
    <3>2. /\ Exists(db, p) /\ Exists(db, q) /\ q \in PortObj
          /\ Parent(p)[1] \notin L /\ Parent(q)[1] \notin L =>
               db.topology[q] = p /\ PlaceOf(p) \in DOMAIN Link /\ q = Place1(Link[PlaceOf(p)])
      BY <1>10, <3>1 DEF TopoTrue, Exists
    <3> SUFFICES ASSUME Parent(p)[1] \notin L, Parent(q)[1] \notin L PROVE q # f /\ q # t
      BY <1>2, <1>4, <1>6, <3>2
    <3>3. PlaceOf(p) \in DOMAIN Link /\ q = Place1(Link[PlaceOf(p)]) /\ Link[PlaceOf(p)] \in Place
          /\ Link[Link[PlaceOf(p)]] = PlaceOf(p)
      BY <3>2, FabricAssumption DEF FabricAssumption
    <3>4. Link[PlaceOf(p)] = <<Link[PlaceOf(p)][1], Link[PlaceOf(p)][2]>>
      BY <3>3, PlaceFacts
    <3>5. p = Place1(PlaceOf(p)) /\ Parent(p)[1] = PlaceOf(p)[1]
      <4>1. Parent(p) \in NodeObj /\ db.class[Parent(p)] # None
        BY <3>2 DEF Exists, PortObj, Parent
      <4>2. Parent(p)[2] = 1
        BY <4>1 DEF DbInv, NodesRight
      <4> QED
        BY <4>1, <4>2 DEF Place1, PlaceOf, Parent, PortObj, NodeObj
    <3>6. q # f
      <4> SUFFICES ASSUME q = f PROVE FALSE
        OBVIOUS
      <4>1. w[1] \notin L /\ f = Place1(w)
        OBVIOUS
      <4>2. Link[PlaceOf(p)] = w
        BY <4>1, <3>3, <3>4, <1>8 DEF Place1
      <4>3. PlaceOf(p) = v
        BY <4>2, <3>3
      <4>4. v[1] \notin L
        BY <4>3, <3>5
      <4> QED
        BY <4>3, <4>4, <3>5, <2>3
    <3>7. q # t
      <4> SUFFICES ASSUME q = t PROVE FALSE
        OBVIOUS
      <4>1. v[1] \notin L /\ t = Place1(v)
        OBVIOUS
      <4>2. Link[PlaceOf(p)] = v
        BY <4>1, <3>3, <3>4, <1>8 DEF Place1
      <4>3. PlaceOf(p) = w
        BY <4>2, <3>3, <1>7
      <4>4. w[1] \notin L
        BY <4>3, <3>5
      <4> QED
        BY <4>3, <4>4, <3>5, <2>3
    <3> QED
      BY <3>6, <3>7
  <2> QED
    BY <2>1, <2>2, <2>3
<1>11. TopoTrue(r, L)
  BY <1>10 DEF TopoTrue
<1> QED
  BY <1>2, <1>4, <1>5, <1>11

(* A link record.                                                          *)
LEMMA SaLinked ==
  ASSUME SingleLate, NEW db, SaDb(db), NinfsThere(db), NEW w \in Records("links"),
         NEW e, e = ToEndPlace(w), NEW r, r = Linked(db, w)
  PROVE  SaKept(db, e, r) /\ ({w[1], Link[w][1]} \cap Late = {} => r.topology[Place1(w)] # None)
<1> PICK v : v = Link[w]
  OBVIOUS
<1> PICK g : g = ToEndPlace(v)
  OBVIOUS
<1> PICK f : f = LinkEnd(db, w)
  OBVIOUS
<1> PICK t : t = LinkEnd(f.db, v)
  OBVIOUS
<1>1. w \in DOMAIN Link /\ InTable(e) /\ InTable(g)
  BY DEF Records
<1>2. /\ w \in Place /\ v \in DOMAIN Link /\ v \in Place /\ e[1] = w[1] /\ g[1] = v[1]
      /\ w[2] # 0
  BY <1>1, PlaceFacts, FabricAssumption DEF FabricAssumption
<1>3. /\ SaKept(db, e, f.db) /\ Exists(f.db, f.port)
      /\ Parent(f.port) = <<e[1], 1>> /\ (e[1] \notin Late => f.port = Place1(w))
  BY <1>1, SaEnd DEF SaPort
<1>4. SaDb(f.db) /\ NinfsThere(f.db)
  <2>1. SaDb(f.db) /\ \A l \in LIDs : db.lids[l] # None => f.db.lids[l] # None
    BY <1>3 DEF SaKept
  <2>2. \A x \in Records("ninf") : Lid[x] \in LIDs
    BY NinfRecords, RangeFacts DEF InTable
  <2> QED
    BY <2>1, <2>2 DEF NinfsThere
<1>5. /\ SaKept(f.db, g, t.db) /\ Exists(t.db, t.port)
      /\ Parent(t.port) = <<g[1], 1>> /\ (g[1] \notin Late => t.port = Place1(v))
  BY <1>1, <1>2, <1>4, SaEnd DEF SaPort
<1>6. r = LinkPorts(t.db, f.port, t.port)
  BY DEF Linked, JoinFrom, JoinTo
<1>7. Exists(t.db, f.port) /\ DbInv(t.db, Late) /\ TopoTrue(t.db, Late)
  BY <1>3, <1>5 DEF SaKept, SaDb
<1>8. /\ DbInv(r, Late) /\ TopoTrue(r, Late) /\ SameIndexes(t.db, r)
      /\ r.loaded = t.db.loaded /\ r.path = t.db.path /\ r.pinf = t.db.pinf
      /\ \A p \in PortObj : r.topology[p] =
           IF p = t.port THEN f.port ELSE IF p = f.port THEN t.port ELSE t.db.topology[p]
  BY <1>1, <1>2, <1>3, <1>5, <1>6, <1>7, LinkPortsTrue
<1>9. \A q : Exists(t.db, q) => Exists(r, q)
  BY <1>8, SMTT(30) DEF Exists, SameIndexes
<1>10. SaDb(r)
  <2>1. /\ \A x \in EndPlace : InTable(x) /\ (IsSwitch(x[1]) \/ x[1] \in Late)
             /\ t.db.class[<<x[1], 1>>] # None => t.db.lids[Lid[x]] # None
        /\ \A d \in Device : d \notin Late /\ ~IsSwitch(d) /\ t.db.class[<<d, 1>>] # None => t.db.nodes[d] # None
        /\ \A h \in PathObj : t.db.path[h] = None
    BY ONLY <1>5, Zenon DEF SaKept, SaDb
  <2>2. r.class = t.db.class /\ r.lids = t.db.lids /\ r.nodes = t.db.nodes /\ r.path = t.db.path
    BY ONLY <1>8, Zenon DEF SameIndexes
  <2>3. /\ \A x \in EndPlace : InTable(x) /\ (IsSwitch(x[1]) \/ x[1] \in Late)
             /\ r.class[<<x[1], 1>>] # None => r.lids[Lid[x]] # None
        /\ \A d \in Device : d \notin Late /\ ~IsSwitch(d) /\ r.class[<<d, 1>>] # None => r.nodes[d] # None
        /\ \A h \in PathObj : r.path[h] = None
    BY ONLY <2>1, <2>2
  <2> QED
    BY ONLY <1>8, <2>3, Zenon DEF SaDb
<1>11. Lid[e] \in LIDs
  <2>1. e \in EndPlace
    BY <1>2, PlaceFacts
  <2> QED
    BY <1>1, <2>1, RangeFacts DEF InTable
<1>12. /\ r.loaded = db.loaded
       /\ \A l \in LIDs : db.lids[l] # None => r.lids[l] # None
       /\ r.lids[Lid[e]] # None
       /\ \A q : Exists(db, q) => Exists(r, q)
  BY <1>3, <1>5, <1>8, <1>9, <1>11 DEF SaKept, SameIndexes
<1>13. f.port \in PortObj /\ t.port \in PortObj /\ f.port # None /\ t.port # None
  BY <1>5, <1>7, FixedNone DEF Exists
<1>14. SaMore(db, r)
  <2>1. SaMore(t.db, r)
    BY <1>8, <1>13, SMTT(30) DEF SaMore, SameIndexes
  <2>2. SaMore(db, f.db) /\ SaMore(f.db, t.db)
    BY <1>3, <1>5 DEF SaKept
  <2> QED
    BY <2>1, <2>2 DEF SaMore
<1>15. {w[1], v[1]} \cap Late = {} => r.topology[Place1(w)] # None
  BY <1>2, <1>3, <1>8, <1>13
<1> QED
  BY <1>10, <1>12, <1>14, <1>15 DEF SaKept

(* Noting a table as loaded changes no index.                              *)
LEMMA LoadedKeeps ==
  ASSUME NEW db, NEW L, DbInv(db, L), NEW S, NEW r, r = [db EXCEPT !.loaded = S]
  PROVE  /\ DbInv(r, L) /\ SameIndexes(db, r) /\ r.swinf = db.swinf /\ r.pinf = db.pinf
         /\ r.topology = db.topology /\ r.loaded = S /\ r.path = db.path /\ r.paths = db.paths
<1>1. DbTypes(db)
  BY DEF DbInv
<1>2. /\ DOMAIN r = DOMAIN EmptyDb
      /\ SameIndexes(db, r) /\ r.swinf = db.swinf /\ r.pinf = db.pinf
      /\ r.topology = db.topology /\ r.loaded = S /\ r.path = db.path /\ r.paths = db.paths
  BY <1>1 DEF DbTypes, EmptyDb, SameIndexes
<1>3. DbInv(r, L)
  BY <1>1, <1>2, OthersKeep DEF DbTypes
<1> QED
  BY <1>2, <1>3

(* Emptying the topology changes no index.                                 *)
LEMMA NoTopology ==
  ASSUME NEW db, NEW L, DbInv(db, L), NEW r, r = [db EXCEPT !.topology = EmptyDb.topology]
  PROVE  /\ DbInv(r, L) /\ SameIndexes(db, r) /\ r.swinf = db.swinf /\ r.pinf = db.pinf
         /\ r.loaded = db.loaded /\ r.path = db.path /\ r.paths = db.paths
         /\ \A p \in PortObj : r.topology[p] = None
<1>1. DbTypes(db)
  BY DEF DbInv
<1>2. EmptyDb.topology = [p \in PortObj |-> None]
  BY DEF EmptyDb
<1>3. /\ DOMAIN r = DOMAIN EmptyDb
      /\ SameIndexes(db, r) /\ r.swinf = db.swinf /\ r.pinf = db.pinf
      /\ r.loaded = db.loaded /\ r.path = db.path /\ r.paths = db.paths
      /\ r.topology = EmptyDb.topology
  BY <1>1 DEF DbTypes, EmptyDb, SameIndexes
<1>4. r.topology \in [PortObj -> PortObj \cup {None}] /\ \A p \in PortObj : r.topology[p] = None
  BY <1>2, <1>3
<1>5. /\ r.swinf \subseteq NodeObj /\ r.pinf \subseteq PortObj
      /\ r.path \in [PathObj -> Path \cup {None}] /\ r.paths \in [PortObj -> PathObj \cup {None}]
  BY <1>1, <1>3 DEF DbTypes
<1>6. DbInv(r, L)
  BY <1>3, <1>4, <1>5, OthersKeep
<1> QED
  BY <1>3, <1>4, <1>6

(* The SA's database stays right if only noted or unlinked.                *)
LEMMA SaDbOthers ==
  ASSUME NEW db, SaDb(db), NEW r, DbInv(r, Late), SameIndexes(db, r), r.path = db.path,
         r.topology = db.topology \/ \A p \in PortObj : r.topology[p] = None
  PROVE  SaDb(r)
<1>1. \A q : Exists(db, q) => Exists(r, q)
  BY DEF Exists, SameIndexes
<1>2. TopoTrue(r, Late)
  BY <1>1 DEF SaDb, TopoTrue
<1> QED
  BY <1>2 DEF SaDb, SameIndexes

-----------------------------------------------------------------------------
(* load() from the SA.                                                     *)
TableNames == {"ninf", "swinf", "pinf", "lids", "links"}
TablesInv ==
  /\ pc \in {"idle", "sa", "sa2"} /\ SaDb(sbn)
  /\ tables \subseteq TableNames
  /\ table # None =>
       /\ table \in TableNames /\ rest \subseteq Records(table)
       /\ table \in {"pinf", "lids", "links"} => "all_NodeInfo" \in sbn.loaded
       /\ table = "ninf" => \A e \in Records("ninf") \ rest : sbn.lids[Lid[e]] # None
  /\ "all_NodeInfo" \in sbn.loaded => NinfsThere(sbn)

LEMMA FirstNames == \A S : FirstTables(S) \subseteq TableNames /\ SecondTables(S) \subseteq TableNames
  BY DEF FirstTables, SecondTables, TableNames

(* What has been stored stays, and the record is there.                    *)
LEMMA StoredStays ==
  ASSUME TablesInv, table # None, NEW w \in rest, NEW e \in EndPlace, SaKept(sbn, e, sbn'),
         table = "ninf" => e = w, UNCHANGED <<pc, tables, table>>, rest' = rest \ {w}
  PROVE  TablesInv'
<1>1. /\ SaDb(sbn') /\ sbn'.loaded = sbn.loaded
      /\ \A l \in LIDs : sbn.lids[l] # None => sbn'.lids[l] # None
      /\ sbn'.lids[Lid[e]] # None
  BY DEF SaKept
<1>2. \A x \in Records("ninf") : Lid[x] \in LIDs
  BY NinfRecords, RangeFacts DEF InTable
<1>3. table = "ninf" => \A x \in Records("ninf") \ rest' : sbn'.lids[Lid[x]] # None
  BY <1>1, <1>2 DEF TablesInv
<1>4. "all_NodeInfo" \in sbn'.loaded => NinfsThere(sbn')
  BY <1>1, <1>2 DEF TablesInv, NinfsThere
<1> QED
  BY <1>1, <1>3, <1>4 DEF TablesInv

(* A device the SA was late with turns out to be a switch.                 *)
LEMMA SaRetyped ==
  ASSUME NEW db, SaDb(db), NEW n, Retypes(db, n, "Switch"), NEW r, r = Reclassed(db, n, "Switch")
  PROVE  SaDb(r) /\ r.lids = db.lids /\ r.loaded = db.loaded
<1>1. DbInv(db, Late) /\ DbTypes(db) /\ db.class[n] = "Node"
  BY DEF SaDb, DbInv, Retypes
<1>2. CASE n \notin NodeObj
  <2>1. [db.class EXCEPT ![n] = "Switch"] = db.class
    BY <1>1, <1>2 DEF DbTypes
  <2>2. DOMAIN r = DOMAIN EmptyDb /\ SameIndexes(db, r) /\ r.path = db.path /\ r.topology = db.topology
        /\ r.loaded = db.loaded /\ r.swinf = db.swinf /\ r.pinf = db.pinf /\ r.paths = db.paths
    BY <1>1, <2>1 DEF Reclassed, SameIndexes, DbTypes, EmptyDb
  <2>3. DbInv(r, Late)
    BY <1>1, <2>2, OthersKeep DEF DbTypes
  <2> QED
    BY <2>2, <2>3, SaDbOthers DEF SameIndexes
<1>3. CASE n \in NodeObj
  <2>1. n[2] = 1 /\ n[1] \in Device /\ n = <<n[1], n[2]>> /\ n[1] \in Late
    <3>1. n[1] \in Device /\ n = <<n[1], n[2]>>
      BY <1>3 DEF NodeObj
    <3>2. "Node" # None
      BY <1>1, NoneAssumption
    <3>3. n[2] = 1 /\ (n[1] \notin Late => db.class[n] = Kind[n[1]])
      BY <1>1, <1>3, <3>2 DEF DbInv, NodesRight
    <3>4. Kind[n[1]] # "Node"
      BY <3>1, FabricAssumption DEF FabricAssumption
    <3> QED
      BY <1>1, <3>1, <3>3, <3>4
  <2> PICK d : d = n[1]
    OBVIOUS
  <2>2. /\ DbInv(r, Late)
        /\ r.topology = db.topology /\ r.loaded = db.loaded /\ r.lids = db.lids
        /\ r.path = db.path /\ r.nodes = db.nodes
        /\ \A m \in NodeObj : r.class[m] = IF m = <<d, 1>> THEN "Switch" ELSE db.class[m]
    <3>1. n = <<d, 1>> /\ d \in Device /\ d \in Late /\ "Switch" \in Types
      BY <2>1 DEF Types
    <3>2. r = Reclassed(db, <<d, 1>>, "Switch")
      BY <3>1
    <3> QED
      BY <1>1, <3>1, <3>2, ClassKeeps
  <2>3. "Switch" # None /\ "Node" # None
    BY NoneAssumption
  <2>4. \A m \in NodeObj : (r.class[m] # None) = (db.class[m] # None)
    BY <1>1, <2>1, <2>2, <2>3
  <2>5. \A q : Exists(db, q) => Exists(r, q)
    BY <2>4 DEF Exists, PortObj, Parent
  <2>6. TopoTrue(r, Late)
    BY <2>2, <2>5 DEF SaDb, TopoTrue
  <2>7. \A x \in Device : <<x, 1>> \in NodeObj
    BY FirstNode, ZenonT(30)
  <2>8. \A e \in EndPlace : e[1] \in Device
    BY EndPlaceFacts
  <2> QED
    BY <2>2, <2>4, <2>6, <2>7, <2>8 DEF SaDb
<1> QED
  BY <1>2, <1>3

(* One record of a table is stored.                                        *)
LEMMA TablesStore ==
  ASSUME SingleLate, TablesInv, NEW w \in rest, SAStore(w)
  PROVE  TablesInv'
<1>1. /\ table # None /\ w \in Records(table) /\ table \in TableNames /\ SaDb(sbn)
      /\ table \in {"pinf", "lids", "links"} => NinfsThere(sbn)
      /\ sbn' = Stored(sbn, w) /\ ~StoreFails(sbn, w)
      /\ UNCHANGED <<pc, tables, table>> /\ rest' = rest \ {w}
  BY DEF SAStore, TablesInv, loadVars
<1>2. CASE table = "ninf"
  <2>1. sbn' = get_node_ninf(sbn, w, ByLid(w)).db
    BY <1>1, <1>2 DEF Stored
  <2>2. SaKept(sbn, w, sbn') /\ w \in EndPlace
    BY <1>1, <1>2, <2>1, SaNinf, NinfRecords
  <2> QED
    BY <1>1, <2>2, StoredStays
<1>3. CASE table = "swinf"
  <2> PICK np : np = get_node(sbn, "Switch", At2(ByLid(w), 0))
    OBVIOUS
  <2>1. sbn' = SwinfStored(np.db, np.node)
    BY <1>1, <1>3 DEF Stored, At2, SwinfStored
  <2>2. SaKept(sbn, w, SwinfStored(np.db, np.node))
    BY <1>1, <1>3, SaSwinf
  <2>3. w \in EndPlace
    BY <1>1, <1>3 DEF Records
  <2> QED
    BY <1>1, <1>3, <2>1, <2>2, <2>3, StoredStays
<1>4. CASE table = "pinf"
  <2> PICK np : np = get_port_pinf(sbn, w, w[2], PinfLid(w), ByLid(w))
    OBVIOUS
  <2>1. sbn' = np.db
    BY <1>1, <1>4 DEF Stored
  <2> PICK e : e = ToEndPlace(w)
    OBVIOUS
  <2>2. SaKept(sbn, e, np.db)
    BY <1>1, <1>4, SaPinf
  <2>3. e \in EndPlace
    BY <1>1, <1>4, PlaceFacts DEF Records, PortRecords
  <2> QED
    BY <1>1, <1>4, <2>1, <2>2, <2>3, StoredStays
<1>5. CASE table = "links"
  <2>1. sbn' = Linked(sbn, w)
    BY <1>1, <1>5 DEF Stored
  <2> PICK e : e = ToEndPlace(w)
    OBVIOUS
  <2>2. SaKept(sbn, e, sbn')
    BY <1>1, <1>5, <2>1, SaLinked
  <2>3. w \in Place /\ w[2] # 0
    BY <1>1, <1>5, FabricAssumption DEF Records, FabricAssumption
  <2>4. e \in EndPlace
    BY <2>3, PlaceFacts
  <2> QED
    BY <1>1, <1>5, <2>2, <2>4, StoredStays
<1>6. table # "lids"
  BY <1>1 DEF StoreFails
<1> QED
  BY <1>1, <1>2, <1>3, <1>4, <1>5, <1>6 DEF TableNames

(* Storing a record breaks off the load.                                   *)
LEMMA TablesStoreFails ==
  ASSUME TablesInv, NEW w \in rest, SAStoreFails(w)
  PROVE  TablesInv'
<1> PICK n : n = Parent(search_end_port(sbn, ByLid(w)))
  OBVIOUS
<1>1. /\ pc' = "idle" /\ tables' = {} /\ table' = None /\ rest' = {}
      /\ sbn' = IF Retypes(sbn, n, "Switch") /\ table # "lids" THEN Reclassed(sbn, n, "Switch") ELSE sbn
  BY DEF SAStoreFails, SARaises, Ends, Reclassed
<1>2. /\ SaDb(sbn') /\ sbn'.lids = sbn.lids /\ sbn'.loaded = sbn.loaded
  BY <1>1, SaRetyped DEF TablesInv
<1> QED
  BY <1>1, <1>2 DEF TablesInv, NinfsThere

(* The last record was stored, and the table is noted.                     *)
LEMMA TablesStored ==
  ASSUME TablesInv, SAStored
  PROVE  TablesInv'
<1> PICK S : S = sbn.loaded \cup Loads(table)
  OBVIOUS
<1>1. /\ table # None /\ rest = {} /\ sbn' = [sbn EXCEPT !.loaded = S] /\ table' = None
      /\ UNCHANGED <<pc, tables>>
  BY DEF SAStored, loadVars
<1>2. /\ SaDb(sbn) /\ DbInv(sbn, Late) /\ table \in TableNames
      /\ table = "ninf" => NinfsThere(sbn)
      /\ "all_NodeInfo" \in sbn.loaded => NinfsThere(sbn)
  BY <1>1 DEF TablesInv, SaDb, NinfsThere
<1>3. /\ DbInv(sbn', Late) /\ SameIndexes(sbn, sbn') /\ sbn'.topology = sbn.topology
      /\ sbn'.loaded = S /\ sbn'.path = sbn.path
  BY <1>1, <1>2, LoadedKeeps
<1>4. SaDb(sbn')
  BY <1>2, <1>3, SaDbOthers
<1>5. "all_NodeInfo" \in Loads(table) => table = "ninf"
  BY <1>2 DEF Loads, TableNames
<1>6. "all_NodeInfo" \in sbn'.loaded => NinfsThere(sbn')
  BY <1>2, <1>3, <1>5 DEF NinfsThere, SameIndexes
<1> QED
  BY <1>1, <1>4, <1>6 DEF TablesInv

(* A table arrives.                                                        *)
LEMMA TablesReply ==
  ASSUME TablesInv, NEW t \in tables, SAReply(t)
  PROVE  TablesInv'
<1>1. /\ UNCHANGED pc /\ tables' \subseteq tables /\ table' = t /\ rest' = Records(t)
      /\ t \in {"pinf", "lids", "links"} => "all_NodeInfo" \in sbn.loaded
      /\ sbn' = IF t = "links" THEN [sbn EXCEPT !.topology = EmptyDb.topology] ELSE sbn
      /\ t \in TableNames
  BY DEF SAReply, TablesInv, loadVars
<1>2. SaDb(sbn) /\ DbInv(sbn, Late)
  BY DEF TablesInv, SaDb
<1>3. SaDb(sbn') /\ sbn'.loaded = sbn.loaded /\ sbn'.lids = sbn.lids
  <2>1. CASE t = "links"
    <3>1. sbn' = [sbn EXCEPT !.topology = EmptyDb.topology]
      BY <1>1, <2>1
    <3>2. /\ DbInv(sbn', Late) /\ SameIndexes(sbn, sbn') /\ sbn'.loaded = sbn.loaded
          /\ sbn'.path = sbn.path /\ \A p \in PortObj : sbn'.topology[p] = None
      BY <1>2, <3>1, NoTopology
    <3> QED
      BY <1>2, <3>2, SaDbOthers DEF SameIndexes
  <2> QED
    BY <1>1, <1>2, <2>1
<1>4. "all_NodeInfo" \in sbn'.loaded => NinfsThere(sbn')
  BY <1>3 DEF TablesInv, NinfsThere
<1> QED
  BY <1>1, <1>3, <1>4 DEF TablesInv

(* With an SA load() only stores tables.                                   *)
LEMMA TablesNext ==
  ASSUME SingleLate, useSA, TablesInv, Storing, [Next]_vars
  PROVE  TablesInv' /\ useSA' = useSA
<1>1. ~Scanning /\ ~Asking
  BY DEF TablesInv, Scanning, Asking
<1>2. CASE UNCHANGED vars
  BY <1>2 DEF vars, loadVars, saVars, TablesInv, NinfsThere
<1>3. ASSUME NEW S \in Items, LoadSA(S) PROVE TablesInv' /\ useSA' = useSA
  BY <1>3, FirstNames DEF LoadSA, TablesInv, NinfsThere
<1>4. ASSUME NEW S \in Items, LoadNothing(S) PROVE TablesInv' /\ useSA' = useSA
  BY <1>4 DEF LoadNothing, TablesInv, NinfsThere, saVars
<1>5. ASSUME NEW t \in tables, SAReply(t) PROVE TablesInv' /\ useSA' = useSA
  BY <1>5, TablesReply DEF SAReply, loadVars
<1>6. ASSUME NEW w \in rest, SAStore(w) PROVE TablesInv' /\ useSA' = useSA
  BY <1>6, TablesStore DEF SAStore, loadVars
<1>7. ASSUME NEW w \in rest, SAStoreFails(w) PROVE TablesInv' /\ useSA' = useSA
  BY <1>7, TablesStoreFails DEF SAStoreFails, SARaises, Ends
<1>8. CASE SAStored
  BY <1>8, TablesStored DEF SAStored, loadVars
<1>9. CASE SANext
  <2>1. UNCHANGED <<sbn, table, rest, useSA>> /\ table = None
        /\ \/ pc' = "sa2" /\ tables' = SecondTables(stuff)
           \/ pc' = "idle" /\ UNCHANGED tables
    BY <1>9 DEF SANext, Ends
  <2> QED
    BY <2>1, FirstNames DEF TablesInv, NinfsThere
<1>10. CASE SAQueryFails
  BY <1>10 DEF SAQueryFails, SARaises, Ends, TablesInv, NinfsThere
<1>11. \A S \in Items : ~StartScan(S) /\ ~LoadMore(S)
  BY DEF StartScan, LoadMore
<1>12. /\ \A j \in jobs : ~Reply(j) /\ ~Answer(j)
       /\ \A c \in Ctx : ~Todo(c)
       /\ \A x \in rest : ~Ask(x)
       /\ ~ScanEnds /\ ~AskEnds /\ ~ScanRaises
  <2>1. \A j \in jobs : ~Reply(j) /\ ~Answer(j)
    BY <1>1 DEF Reply, Answer
  <2>2. \A c \in Ctx : ~Todo(c)
    BY <1>1 DEF Todo, TodoCheck, TodoWoken, TodoNode, TodoPorts, TodoPort, TodoEmpty, AtTop, May
  <2> QED
    BY <1>1, <2>1, <2>2 DEF Ask, ScanEnds, AskEnds, ScanRaises
<1> QED
  BY <1>2, <1>3, <1>4, <1>5, <1>6, <1>7, <1>8, <1>9, <1>10, <1>11, <1>12 DEF Next

-----------------------------------------------------------------------------
(* Where paths lead.                                                       *)

Spot == {w \in Place : IsSwitch(w[1]) \/ w[2] # 0}  \* where a packet can arrive

LEMMA CrossFacts ==
  ASSUME NEW w, NEW hop
  PROVE  Cross(w, hop) \in Spot \cup {None}
BY FabricAssumption DEF FabricAssumption, Cross, Spot

(* A directed route crosses one cable a hop.                               *)
LEMMA WalkIs ==
  ASSUME NEW w, NEW hops \in Seq(Nat)
  PROVE  /\ Walk(w, hops)[0] = w
         /\ \A i \in 1..Len(hops) : Walk(w, hops)[i] = Cross(Walk(w, hops)[i - 1], hops[i])
<1> DEFINE Walks(n, f) == f = [i \in 0..n |-> IF i = 0 THEN w ELSE Cross(f[i - 1], hops[i])]
           S == {n \in Nat : \E f : Walks(n, f)}
<1>1. Len(hops) \in Nat
  OBVIOUS
<1>2. 0 \in S
  <2> DEFINE f == [i \in {0} |-> w]
  <2>1. Walks(0, f)
    OBVIOUS
  <2> QED
    BY <2>1
<1>3. ASSUME NEW n \in Nat, n \in S PROVE n + 1 \in S
  <2>1. PICK f : Walks(n, f)
    BY <1>3
  <2> DEFINE next == Cross(f[n], hops[n + 1])
             g == [i \in 0..(n + 1) |-> IF i = n + 1 THEN next ELSE f[i]]
  <2>2. /\ \A i \in 0..n : g[i] = f[i]
        /\ g[n + 1] = next
        /\ \A i \in 0..(n + 1) : i # n + 1 => i \in 0..n
        /\ \A i \in 0..n : i # 0 => i - 1 \in 0..n
        /\ n + 1 # 0 /\ n + 1 - 1 = n /\ n \in 0..n
    OBVIOUS
  <2>3. \A i \in 0..n : f[i] = IF i = 0 THEN w ELSE Cross(f[i - 1], hops[i])
    BY <2>1
  <2>4. \A i \in 0..(n + 1) : g[i] = IF i = 0 THEN w ELSE Cross(g[i - 1], hops[i])
    <3> HIDE DEF g
    <3> TAKE i \in 0..(n + 1)
    <3>1. CASE i = n + 1
      <4>1. g[i - 1] = f[n]
        BY <2>2, <3>1
      <4> QED
        BY <2>2, <3>1, <4>1
    <3>2. CASE i \in 0..n
      BY <2>2, <2>3, <3>2
    <3> QED
      BY <2>2, <3>1, <3>2
  <2>5. Walks(n + 1, g)
    <3>1. g = [i \in 0..(n + 1) |-> g[i]]
      OBVIOUS
    <3> HIDE DEF g
    <3> QED
      BY <2>4, <3>1, Zenon
  <2> HIDE DEF g
  <2>6. \E h : Walks(n + 1, h)
    <3> HIDE DEF Walks
    <3> QED
      BY <2>5
  <2> QED
    BY <2>6, SMTT(30)
<1>4. Nat \subseteq S
  BY <1>2, <1>3, SetInduction
<1>5. Walks(Len(hops), Walk(w, hops))
  BY <1>1, <1>4 DEF Walk
<1> QED
  BY <1>1, <1>5

(* The place is one where packets arrive.                                  *)
LEMMA LeadsToFacts ==
  ASSUME NEW path \in Path
  PROVE  /\ LeadsTo(path) \in Spot \cup {None}
         /\ path.hops = <<>> =>
              LeadsTo(path) = IF path.dlid = Permissive THEN Local ELSE PlaceAtLid(path.dlid)
<1> PICK w : w = IF path.dlid = Permissive THEN Local ELSE PlaceAtLid(path.dlid)
  OBVIOUS
<1> PICK hops : hops = path.hops
  OBVIOUS
<1>1. hops \in Seq(Nat) /\ Len(hops) \in Nat
  BY DEF Path
<1>2. LeadsTo(path) = Walk(w, hops)[Len(hops)]
  BY DEF LeadsTo
<1>3. /\ Walk(w, hops)[0] = w
      /\ \A i \in 1..Len(hops) : Walk(w, hops)[i] = Cross(Walk(w, hops)[i - 1], hops[i])
  BY <1>1, WalkIs
<1>4. w \in Spot \cup {None}
  BY FabricAssumption DEF FabricAssumption, PlaceAtLid, Spot, EndPlace
<1>5. CASE hops = <<>>
  BY <1>2, <1>3, <1>4, <1>5
<1>6. CASE hops # <<>>
  <2>1. Len(hops) \in 1..Len(hops)
    BY <1>1, <1>6
  <2>2. LeadsTo(path) = Cross(Walk(w, hops)[Len(hops) - 1], hops[Len(hops)])
    BY <1>2, <1>3, <2>1
  <2> QED
    BY <1>6, <2>2, CrossFacts
<1> QED
  BY <1>5, <1>6

(* Where a path leads is a place whose device has an end port.             *)
LEMMA SpotFacts ==
  ASSUME NEW w \in Spot
  PROVE  /\ w \in Place /\ w = <<w[1], w[2]>> /\ w[1] \in Device /\ w[2] \in 0..MaxPort
         /\ ToEndPlace(w) \in EndPlace /\ ToEndPlace(w)[1] = w[1]
         /\ ~IsSwitch(w[1]) => ToEndPlace(w) = w
  BY PlaceFacts DEF Spot

(* A LID path leads to the end port that has the LID.                      *)
ByTheLid(e, path) == Lid[e] # 0 /\ path.dlid = Lid[e]
LEMMA LidPathLeads ==
  ASSUME NEW path \in Path, path.hops = <<>>, NEW e \in EndPlace, ByTheLid(e, path)
  PROVE  LeadsTo(path) = e /\ ToEndPlace(e) = e /\ LeadsTo(path) # None
<1>1. Lid[e] \in Nat /\ PlaceAtLid(Lid[e]) = e
  <2>1. Lid[e] # 0 /\ Lmc[e] \in {0, Lmc[e]}
    BY DEF ByTheLid
  <2> QED
    BY <2>1, RangeFacts
<1>2. path.dlid # Permissive
  BY <1>1 DEF ByTheLid, Permissive
<1> QED
  BY <1>1, <1>2, LeadsToFacts, FixedNone DEF ByTheLid, EndPlace

-----------------------------------------------------------------------------
(* The database while it is filled by scans.                               *)
Held(db, h) == h \in PathObj /\ db.path[h] # None
Reached(db, h) == Held(db, h) /\ db.path[h].ep # None
PathRight(db, path) ==
  /\ ~path.dr => path.hops = <<>> /\ \E e \in EndPlace : ByTheLid(e, path)
  /\ path.ep # None => /\ LeadsTo(path) # None
                       /\ path.ep = Place1(ToEndPlace(LeadsTo(path))) /\ Exists(db, path.ep)

AllSeen(db) == \A n \in NodeObj : db.class[n] # None => n \in db.ninf
TopoThere(db) == \A p \in PortObj : db.topology[p] # None => Exists(db, p) /\ Exists(db, db.topology[p])
PathsRight(db) == \A h \in PathObj : db.path[h] # None => PathRight(db, db.path[h])
CacheRight(db) == \A q \in PortObj : ~db.lidRouted /\ db.paths[q] # None =>
  Reached(db, db.paths[q]) /\ db.path[db.paths[q]].ep = q
HasRoute(db, e) ==
  db.ports[e] # None \/ db.lid[Place1(e)] # None \/ (IsSwitch(e[1]) /\ db.class[<<e[1], 1>>] # None)
Routable(db) == \A e \in EndPlace : ~db.lidRouted /\ HasRoute(db, e) => db.paths[Place1(e)] # None
ScanDb(db) ==
  /\ DbInv(db, {}) /\ AllSeen(db) /\ TopoThere(db) /\ PathsRight(db) /\ CacheRight(db) /\ Routable(db)

(* What is known stays known.                                              *)
Grown(db, r) ==
  /\ \A q : Exists(db, q) => Exists(r, q)
  /\ \A h : Held(db, h) => Held(r, h)
  /\ \A h : Reached(db, h) => Reached(r, h) /\ r.path[h].ep = db.path[h].ep
  /\ \A p \in PortObj : db.topology[p] # None => r.topology[p] # None
  /\ \A q \in PortObj : ~db.lidRouted /\ db.paths[q] # None => r.paths[q] # None
  /\ r.lidRouted = db.lidRouted

LEMMA SameWay ==
  ASSUME NEW path, NEW r, r.dlid = path.dlid, r.hops = path.hops
  PROVE  LeadsTo(r) = LeadsTo(path)
BY DEF LeadsTo

(* A database that grew twice has grown.                                   *)
LEMMA GrownTwice == \A db, r, s : Grown(db, r) /\ Grown(r, s) => Grown(db, s)
BY DEF Grown

(* A path stays right while no port is lost.                               *)
LEMMA RightStays ==
  ASSUME NEW db, NEW r, \A q : Exists(db, q) => Exists(r, q), NEW path, PathRight(db, path)
  PROVE  PathRight(r, path)
BY DEF PathRight

(* The rest of the database changes.                                       *)
LEMMA OthersScan ==
  ASSUME NEW db, ScanDb(db), NEW r, DbInv(r, {}), r.class = db.class, r.ninf = db.ninf,
         r.lid = db.lid, r.ports = db.ports, r.path = db.path, r.paths = db.paths,
         r.lidRouted = db.lidRouted, TopoThere(r),
         \A p \in PortObj : db.topology[p] # None => r.topology[p] # None
  PROVE  ScanDb(r) /\ Grown(db, r)
<1>1. \A q : Exists(db, q) => Exists(r, q)
  BY DEF Exists
<1>2. (\A h : Held(db, h) <=> Held(r, h)) /\ (\A h : Reached(db, h) <=> Reached(r, h))
  BY DEF Held, Reached
<1>3. Grown(db, r)
  BY <1>1, <1>2 DEF Grown
<1>4. AllSeen(r)
  BY DEF ScanDb, AllSeen
<1>5. PathsRight(r)
  BY <1>1, RightStays DEF ScanDb, PathsRight
<1>6. CacheRight(r)
  BY <1>2 DEF ScanDb, CacheRight
<1>7. Routable(r)
  BY DEF ScanDb, Routable, HasRoute
<1> QED
  BY <1>3, <1>4, <1>5, <1>6, <1>7 DEF ScanDb

(* What a reply over the path h, from the end port e, leaves.              *)
PathGot(db, h, e, r) ==
  /\ ScanDb(r) /\ Grown(db, r) /\ Reached(r, h) /\ r.path[h].ep = Place1(e)
  /\ \A g : Reached(r, g) => g = h \/ Reached(db, g)
  /\ \A g \in PathObj : Held(db, g) => /\ r.path[g].dr = db.path[g].dr /\ r.path[g].dlid = db.path[g].dlid
                                       /\ r.path[g].hops = db.path[g].hops
  /\ r.topology = db.topology /\ r.loaded = db.loaded

LEMMA PathTold ==
  ASSUME NEW db, ScanDb(db), NEW h, Held(db, h), LeadsTo(db.path[h]) # None,
         NEW e \in EndPlace, e = ToEndPlace(LeadsTo(db.path[h])),
         NEW r, DbInv(r, {}), AllSeen(r), Exists(r, Place1(e)),
         EpOnly(db.path, h, Place1(e), r.path),
         r.paths = [db.paths EXCEPT ![Place1(e)] = IF ~db.lidRouted THEN h ELSE @],
         r.lidRouted = db.lidRouted, r.topology = db.topology, r.loaded = db.loaded,
         \A m \in NodeObj : db.class[m] # None => r.class[m] # None,
         \A m \in NodeObj : m # <<e[1], 1>> => r.class[m] = db.class[m],
         \A q \in PortObj : q # Place1(e) => r.lid[q] = db.lid[q],
         \A f \in EndPlace : f # e => r.ports[f] = db.ports[f]
  PROVE  PathGot(db, h, e, r)
<1> PICK p : p = Place1(e)
  OBVIOUS
<1>0. p \in PortObj /\ p # None /\ h \in PathObj /\ db.path[h] # None
  BY FixedNone DEF Exists, Held
<1>1. \A q : Exists(db, q) => Exists(r, q)
  BY DEF Exists, PortObj, Parent
<1>2. /\ DbTypes(db) /\ DbTypes(r) /\ db.path[h] \in Path
  BY <1>0 DEF ScanDb, DbInv, DbTypes
<1>3. /\ \A g \in PathObj : g # h => r.path[g] = db.path[g]
      /\ r.path[h] \in Path /\ r.path[h].ep = p /\ r.path[h].dr = db.path[h].dr
      /\ r.path[h].dlid = db.path[h].dlid /\ r.path[h].hops = db.path[h].hops
  BY DEF EpOnly
<1>4. Reached(r, h)
  BY <1>0, <1>3, FixedNone DEF Reached, Held
<1>5. \A g : Held(db, g) => Held(r, g)
  BY <1>0, <1>3, FixedNone DEF Held
<1>6. \A g : Reached(r, g) => g = h \/ Reached(db, g)
  BY <1>3 DEF Reached, Held
<1>7. db.path[h].ep # None => db.path[h].ep = p
  BY <1>0 DEF ScanDb, PathsRight, PathRight
<1>8. \A g : Reached(db, g) => Reached(r, g) /\ r.path[g].ep = db.path[g].ep
  BY <1>0, <1>3, <1>4, <1>7 DEF Reached, Held
<1>9. /\ \A q \in PortObj : q # p => r.paths[q] = db.paths[q]
      /\ r.paths[p] = IF ~db.lidRouted THEN h ELSE db.paths[p]
  BY <1>0, <1>2 DEF DbTypes
<1>10. \A q \in PortObj : ~db.lidRouted /\ db.paths[q] # None => r.paths[q] # None
  BY <1>0, <1>9, FixedNone
<1>11. Grown(db, r)
  BY <1>1, <1>5, <1>8, <1>10 DEF Grown
<1>12. TopoThere(r)
  BY <1>1 DEF ScanDb, TopoThere
<1>13. PathsRight(r)
  <2> SUFFICES ASSUME NEW g \in PathObj, r.path[g] # None PROVE PathRight(r, r.path[g])
    BY DEF PathsRight
  <2>1. CASE g = h
    <3>1. LeadsTo(r.path[h]) = LeadsTo(db.path[h])
      BY <1>3, SameWay
    <3>2. PathRight(db, db.path[h])
      BY <1>0 DEF ScanDb, PathsRight
    <3>3. ~r.path[h].dr => r.path[h].hops = <<>> /\ \E f \in EndPlace : ByTheLid(f, r.path[h])
      BY <1>3, <3>2 DEF PathRight, ByTheLid
    <3>4. r.path[h].ep = Place1(ToEndPlace(LeadsTo(r.path[h]))) /\ Exists(r, r.path[h].ep)
      BY <1>3, <3>1
    <3> QED
      BY <2>1, <3>1, <3>3, <3>4 DEF PathRight
  <2>2. CASE g # h
    <3>1. r.path[g] = db.path[g] /\ PathRight(db, db.path[g])
      BY <1>3, <2>2 DEF ScanDb, PathsRight
    <3> QED
      BY <1>1, <3>1, RightStays
  <2> QED
    BY <2>1, <2>2
<1>14. CacheRight(r)
  <2> SUFFICES ASSUME NEW q \in PortObj, ~r.lidRouted, r.paths[q] # None
               PROVE  Reached(r, r.paths[q]) /\ r.path[r.paths[q]].ep = q
    BY DEF CacheRight
  <2>1. CASE q = p
    BY <1>3, <1>4, <1>9, <2>1
  <2>2. CASE q # p
    BY <1>8, <1>9, <2>2 DEF ScanDb, CacheRight
  <2> QED
    BY <2>1, <2>2
<1>15. Routable(r)
  <2> SUFFICES ASSUME NEW f \in EndPlace, ~r.lidRouted, HasRoute(r, f) PROVE r.paths[Place1(f)] # None
    BY DEF Routable
  <2>1. CASE f = e
    BY <1>0, <1>9, <2>1, FixedNone
  <2>2. CASE f # e
    <3>1. f = <<f[1], f[2]>> /\ e = <<e[1], e[2]>> /\ f[1] \in Device
      BY EndPlaceFacts
    <3>2. Place1(f) # p
      BY <2>2, <3>1 DEF Place1
    <3>3. IsSwitch(f[1]) => f[1] # e[1]
      BY <2>2, <3>1, EndPorts
    <3>4. IsSwitch(f[1]) => r.class[<<f[1], 1>>] = db.class[<<f[1], 1>>]
      BY <3>1, <3>3, FirstNode
    <3>5. Place1(f) \in PortObj
      <4>1. <<f[1], 1>> \in NodeObj /\ f[2] \in 0..MaxPort
        BY <3>1, FirstNode, EndPorts
      <4> QED
        BY <4>1, Ports DEF Place1, PortObj, Loose
    <3>6. HasRoute(db, f)
      BY <2>2, <3>2, <3>4, <3>5 DEF HasRoute
    <3>7. db.paths[Place1(f)] # None
      BY <3>6 DEF ScanDb, Routable
    <3> QED
      BY <1>10, <3>5, <3>7
  <2> QED
    BY <2>1, <2>2
<1>16. ScanDb(r)
  BY <1>12, <1>13, <1>14, <1>15 DEF ScanDb
<1>17. \A g \in PathObj : Held(db, g) =>
         /\ r.path[g].dr = db.path[g].dr /\ r.path[g].dlid = db.path[g].dlid
         /\ r.path[g].hops = db.path[g].hops
  BY <1>3
<1> QED
  BY <1>3, <1>4, <1>6, <1>11, <1>16, <1>17 DEF PathGot

Over(w, h) == [Known(w[1]) EXCEPT !.path = h]  \* what a reply over the path h tells

(* What a reply over a held path is about is told truly by it.             *)
LEMMA OverIs ==
  ASSUME NEW db, ScanDb(db), NEW h, Held(db, h), NEW w, w = LeadsTo(db.path[h]), w # None,
         NEW e, e = ToEndPlace(w), NEW a, a = Over(w, h)
  PROVE  /\ Told(db, a, e) /\ Plain(a) /\ a.path = h /\ a.path # None /\ w \in Spot /\ e \in EndPlace
         /\ e[1] = w[1] /\ a.lid = None
         /\ db.path[h].ep = None \/ RightPort(db, {}, e, db.path[h].ep)
<1>0. h \in PathObj /\ db.path[h] # None /\ h # None
  BY FixedNone DEF Held
<1>1. db.path[h] \in Path /\ PathRight(db, db.path[h])
  BY <1>0 DEF ScanDb, PathsRight, DbInv, DbTypes
<1>2. w \in Spot /\ e \in EndPlace /\ e[1] = w[1] /\ w[1] \in Device
  BY <1>1, LeadsToFacts, SpotFacts
<1>3. /\ a \in Args /\ a.about = w[1] /\ a.idx = None /\ a.node = None /\ a.guid = None
      /\ a.path = h /\ a.lid = None /\ a.lmc = 0
  BY <1>0, <1>2 DEF Over, Known, Args
<1>4. LidIn(db, a) # None => LidIn(db, a) = Lid[e] /\ Lid[e] # 0
  <2>1. CASE db.path[h].dr
    BY <1>3, <2>1 DEF LidIn
  <2>2. CASE ~db.path[h].dr
    <3>1. PICK f \in EndPlace : ByTheLid(f, db.path[h])
      BY <1>1, <2>2 DEF PathRight
    <3>2. LeadsTo(db.path[h]) = f /\ ToEndPlace(f) = f
      BY <1>1, <2>2, <3>1, LidPathLeads DEF PathRight
    <3>3. LidIn(db, a) = db.path[h].dlid
      BY <1>0, <1>3, <2>2 DEF LidIn
    <3> QED
      BY <3>1, <3>2, <3>3 DEF ByTheLid
  <2> QED
    BY <2>1, <2>2
<1>5. Told(db, a, e)
  BY <1>0, <1>2, <1>3, <1>4 DEF Told
<1>6. db.path[h].ep # None => RightPort(db, {}, e, db.path[h].ep)
  BY <1>1 DEF PathRight, RightPort, Exists, Place1, Parent
<1> QED
  BY <1>0, <1>2, <1>3, <1>5, <1>6 DEF Plain

(* What the reply tells is found, or new.                                 *)
LEMMA NodeTells ==
  ASSUME NEW db, ScanDb(db), NEW h, Held(db, h), NEW w, w = LeadsTo(db.path[h]), w # None,
         NEW a, a = Over(w, h), NEW np, np = get_node_ninf(db, w, a)
  PROVE  NinfGot(db, {}, ToEndPlace(w), a, np)
<1> PICK e : e = ToEndPlace(w)
  OBVIOUS
<1> PICK b : b = AboutNode(w, a)
  OBVIOUS
<1>1. /\ Told(db, a, e) /\ Plain(a) /\ a.path = h /\ a.path # None /\ w \in Spot /\ e \in EndPlace
      /\ e[1] = w[1] /\ a.lid = None
      /\ db.path[h].ep = None \/ RightPort(db, {}, e, db.path[h].ep)
  BY OverIs
<1>2. w \in Place /\ DbInv(db, {}) /\ w[1] \in Device /\ e[2] \in 0..MaxPort
  BY <1>1, SpotFacts, EndPorts DEF ScanDb
<1>3. /\ Told(db, b, e) /\ b.idx = e[2] /\ b.node = w[1] /\ b.guid = e /\ b.path = h
  BY <1>1, <1>2, AboutNodeIs
<1>4. search_end_port(db, b) = None => db.class[<<e[1], 1>>] = None
  <2> SUFFICES ASSUME search_end_port(db, b) = None, db.class[<<e[1], 1>>] # None PROVE FALSE
    OBVIOUS
  <2>1. b.node # None /\ b.idx # None
    BY <1>2, <1>3, FixedNone
  <2>2. db.nodes[w[1]] = None
    BY <1>2, <1>3, <2>1, SearchMisses
  <2>3. <<e[1], 1>> \in NodeObj
    BY <1>1, <1>2, FirstNode
  <2>4. <<e[1], 1>> \in db.ninf
    BY <2>3 DEF ScanDb, AllSeen
  <2>5. db.nodes[e[1]] = <<e[1], 1>>
    BY <1>2, <2>4 DEF DbInv, NodeIndexRight
  <2> QED
    BY <1>1, <2>2, <2>3, <2>5, FixedNone
<1>5. Findable(db, {}, e, Kind[w[1]], b)
  BY <1>1, <1>3, <1>4 DEF Findable
<1>6. NinfGot(db, {}, e, a, np)
  <2>1. e = ToEndPlace(w) /\ Findable(db, {}, e, Kind[w[1]], AboutNode(w, a)) /\ e[1] \notin {}
    BY <1>5
  <2>2. np = get_node_ninf(db, w, a)
    OBVIOUS
  <2> QED
    BY <1>1, <1>2, <2>1, <2>2, NinfKeeps
<1> QED
  BY <1>6

(* A NodeInfo arrives.                                                     *)
NodeGot(db, h, w, np) ==
  /\ PathGot(db, h, ToEndPlace(w), np.db)
  /\ np.node = <<w[1], 1>> /\ np.node \in NodeObj /\ np.port = Place1(ToEndPlace(w))
  /\ np.db.class[np.node] # None
  /\ np.db.ninf = db.ninf \cup {np.node} /\ np.db.pinf = db.pinf /\ np.db.swinf = db.swinf

LEMMA NodeArrives ==
  ASSUME NEW db, ScanDb(db), NEW h, Held(db, h), NEW w, w = LeadsTo(db.path[h]), w # None,
         NEW a, a = Over(w, h), NEW np, np = get_node_ninf(db, w, a)
  PROVE  NodeGot(db, h, w, np)
<1> PICK e : e = ToEndPlace(w)
  OBVIOUS
<1>1. /\ Told(db, a, e) /\ Plain(a) /\ a.path = h /\ a.path # None /\ w \in Spot /\ e \in EndPlace
      /\ e[1] = w[1] /\ a.lid = None
      /\ db.path[h].ep = None \/ RightPort(db, {}, e, db.path[h].ep)
  BY OverIs
<1>2. w \in Place /\ DbInv(db, {}) /\ w[1] \in Device /\ e[2] \in 0..MaxPort
  BY <1>1, SpotFacts, EndPorts DEF ScanDb
<1>6. NinfGot(db, {}, e, a, np)
  BY NodeTells
<1> PICK r : r = np.db
  BY SMTT(30)
<1>7. /\ DbInv(r, {}) /\ np.node = <<e[1], 1>> /\ np.port = Place1(e)
      /\ RightPort(r, {}, e, np.port)
      /\ r.ninf = db.ninf \cup {np.node} /\ r.pinf = db.pinf /\ r.swinf = db.swinf
      /\ r.topology = db.topology /\ r.lidRouted = db.lidRouted /\ r.loaded = db.loaded
  BY <1>6, ZenonT(30) DEF NinfGot
<1>8. /\ \A m \in NodeObj : db.class[m] # None => r.class[m] # None
      /\ \A m \in NodeObj : m # <<e[1], 1>> => r.class[m] = db.class[m]
  BY <1>6, ZenonT(30) DEF NinfGot
<1>9. r.path = WithEp(db.path, h, Place1(e))
  BY <1>1, <1>6, ZenonT(30) DEF NinfGot
<1>10. r.paths = [db.paths EXCEPT ![Place1(e)] = IF ~db.lidRouted THEN h ELSE @]
  BY <1>1, <1>6, ZenonT(30) DEF NinfGot
<1>11. /\ \A q \in PortObj : q # Place1(e) => r.lid[q] = db.lid[q]
       /\ \A f \in EndPlace : f # e => r.ports[f] = db.ports[f]
  BY <1>6, ZenonT(30) DEF NinfGot
<1>12. Exists(r, Place1(e)) /\ r.class[<<e[1], 1>>] # None /\ Place1(e) \in PortObj
  BY <1>7 DEF RightPort, Exists
<1>13. EpOnly(db.path, h, Place1(e), r.path)
  <2>1. db.path \in [PathObj -> Path \cup {None}] /\ h \in PathObj /\ db.path[h] # None
    BY <1>2 DEF DbInv, DbTypes, Held
  <2> QED
    BY <1>9, <1>12, <2>1, WithEpIs
<1>14. AllSeen(r)
  <2> SUFFICES ASSUME NEW m \in NodeObj, r.class[m] # None PROVE m \in r.ninf
    BY DEF AllSeen
  <2>1. CASE m = <<e[1], 1>>
    BY <1>7, <2>1, SMTT(30)
  <2>2. CASE m # <<e[1], 1>>
    BY <1>7, <1>8, <2>2, ZenonT(30) DEF ScanDb, AllSeen
  <2> QED
    BY <2>1, <2>2
<1>15. PathGot(db, h, e, r)
  <2>1. LeadsTo(db.path[h]) # None /\ e = ToEndPlace(LeadsTo(db.path[h])) /\ e \in EndPlace
    BY <1>1
  <2>2. r.lidRouted = db.lidRouted /\ r.topology = db.topology /\ r.loaded = db.loaded /\ DbInv(r, {})
    BY <1>7
  <2> QED
    BY <2>1, <2>2, <1>8, <1>10, <1>11, <1>12, <1>13, <1>14, PathTold, ZenonT(120)
<1>16. <<w[1], 1>> \in NodeObj
  BY <1>2, FirstNode
<1> QED
  BY <1>1, <1>7, <1>12, <1>15, <1>16 DEF NodeGot

(* A PortInfo is of the port that the path has reached.                    *)
LEMMA PortIsTold ==
  ASSUME NEW db, ScanDb(db), NEW h, Reached(db, h), NEW w, w[2] \in 0..MaxPort,
         NEW e \in EndPlace, e = ToEndPlace(w), e[1] = w[1], e = ToEndPlace(LeadsTo(db.path[h])),
         NEW a, Told(db, a, e), Plain(a), a.path = h, a.path # None,
         RightPort(db, {}, e, db.path[h].ep),
         NEW lid \in {0, Lid[e]}, NEW np, np = get_port_pinf(db, w, w[2], lid, a)
  PROVE  PortGot(db, {}, w, e, AboutPort(w, lid, a), db.pinf \cup {np.port}, np)
<1>0. Held(db, h) /\ h \in PathObj /\ LeadsTo(db.path[h]) # None
  BY DEF Reached, Held, ScanDb, PathsRight, PathRight
<1>2. DbInv(db, {})
  BY DEF ScanDb
<1> PICK b : b = AboutPort(w, lid, a)
  OBVIOUS
<1>3. Told(db, b, e) /\ Plain(b) /\ b.path = h
  <2>1. Told(db, a, e) /\ Plain(a) /\ lid \in {0, Lid[e]} /\ b = AboutPort(w, lid, a) /\ e = ToEndPlace(w)
    OBVIOUS
  <2>2. /\ Told(db, b, e) /\ Plain(b) /\ b.path = a.path
        /\ LidIn(db, a) # None => LidIn(db, b) # None
        /\ lid # 0 /\ a.lid \in {None, lid} => LidIn(db, b) # None
    BY <2>1, AboutPortIs
  <2> QED
    BY <2>2
<1> PICK c : c = At2(b, w[2])
  OBVIOUS
<1>4. Told(db, c, e) /\ c.idx = w[2] /\ c.path = h /\ c.guid = None /\ c.node = None
  <2>1. b.node # None => w[2] = e[2]
    BY <1>3 DEF Plain
  <2> QED
    BY <1>3, <2>1, ToldIndex DEF Plain
<1>5. search_end_port(db, c) # None
  <2>1. c.path # None /\ db.path[c.path].ep # None
    BY <1>4 DEF Reached
  <2>2. search_end_port(db, c) = db.path[c.path].ep
    BY <2>1 DEF search_end_port
  <2> QED
    BY <2>1, <2>2
<1>6. ~IsSwitch(e[1]) => w[2] = e[2]
  BY DEF ToEndPlace
<1>7. Findable(db, {}, e, PortType(w[2]), At2(AboutPort(w, lid, a), w[2]))
  BY <1>2, <1>4, <1>5, <1>6 DEF Findable
<1>8. PortGot(db, {}, w, e, b, db.pinf \cup {np.port}, np)
  BY <1>2, <1>7, PortInfoKeeps
<1> QED
  BY <1>8

(* A PortInfo arrives.                                                     *)
InfoGot(db, h, w, e, np) ==
  /\ PathGot(db, h, e, np.db)
  /\ np.node = <<w[1], 1>> /\ np.port = Place1(w) /\ np.port \in PortObj
  /\ np.db.pinf = db.pinf \cup {np.port} /\ np.db.swinf = db.swinf

LEMMA PortTells ==
  ASSUME NEW db, ScanDb(db), NEW h, Reached(db, h), NEW w, w[2] \in 0..MaxPort,
         NEW e \in EndPlace, e = ToEndPlace(w), e[1] = w[1], e = ToEndPlace(LeadsTo(db.path[h])),
         NEW a, Told(db, a, e), Plain(a), a.path = h, a.path # None,
         RightPort(db, {}, e, db.path[h].ep),
         NEW lid \in {0, Lid[e]}, NEW np, np = get_port_pinf(db, w, w[2], lid, a)
  PROVE  InfoGot(db, h, w, e, np)
<1>0. Held(db, h) /\ h \in PathObj /\ LeadsTo(db.path[h]) # None
  BY DEF Reached, Held, ScanDb, PathsRight, PathRight
<1>2. DbInv(db, {})
  BY DEF ScanDb
<1> PICK b : b = AboutPort(w, lid, a)
  OBVIOUS
<1>3. Told(db, b, e) /\ Plain(b) /\ b.path = h
  <2>1. Told(db, a, e) /\ Plain(a) /\ lid \in {0, Lid[e]} /\ b = AboutPort(w, lid, a) /\ e = ToEndPlace(w)
    OBVIOUS
  <2>2. /\ Told(db, b, e) /\ Plain(b) /\ b.path = a.path
        /\ LidIn(db, a) # None => LidIn(db, b) # None
        /\ lid # 0 /\ a.lid \in {None, lid} => LidIn(db, b) # None
    BY <2>1, AboutPortIs
  <2> QED
    BY <2>2
<1>8. PortGot(db, {}, w, e, b, db.pinf \cup {np.port}, np)
  BY PortIsTold
<1> PICK r : r = np.db
  OBVIOUS
<1>9. /\ DbInv(r, {}) /\ np.node = <<e[1], 1>> /\ np.port \in PortObj /\ r.class[<<e[1], 1>>] # None
      /\ np.port = Place1(w) /\ r.ninf = db.ninf /\ r.pinf = db.pinf \cup {np.port}
      /\ r.topology = db.topology /\ r.lidRouted = db.lidRouted /\ r.loaded = db.loaded
      /\ r.swinf = db.swinf
  BY <1>8 DEF PortGot
<1>10. /\ \A m \in NodeObj : db.class[m] # None => r.class[m] # None
       /\ \A m \in NodeObj : m # <<e[1], 1>> => r.class[m] = db.class[m]
  BY <1>8, ZenonT(120) DEF PortGot
<1>11. /\ EpOnly(db.path, h, Place1(e), r.path)
       /\ r.paths = [db.paths EXCEPT ![Place1(e)] = IF ~db.lidRouted THEN h ELSE @]
  BY <1>3, <1>8, ZenonT(30) DEF PortGot
<1>12. /\ \A q \in PortObj : q # Place1(e) => r.lid[q] = db.lid[q]
       /\ \A f \in EndPlace : f # e => r.ports[f] = db.ports[f]
  BY <1>8, ZenonT(30) DEF PortGot
<1>13. Place1(e) \in PortObj /\ Exists(r, Place1(e)) /\ db.class[<<e[1], 1>>] # None
  BY <1>2, <1>9 DEF RightPort, Exists, Place1, Parent
<1>14. AllSeen(r)
  <2>1. <<e[1], 1>> \in NodeObj
    BY <1>13 DEF Place1, PortObj
  <2> QED
    BY <1>9, <1>10, <1>13, <2>1 DEF AllSeen, ScanDb
<1>15. PathGot(db, h, e, r)
  BY <1>0, <1>9, <1>10, <1>11, <1>12, <1>13, <1>14, PathTold
<1> QED
  BY <1>9, <1>15 DEF InfoGot

(* A PortInfo arrives over a path that was reached.                        *)
LEMMA PortArrives ==
  ASSUME NEW db, ScanDb(db), NEW h, Reached(db, h), NEW v, v = LeadsTo(db.path[h]),
         NEW w, w[1] = v[1], w[2] \in 0..MaxPort, NEW e, e = ToEndPlace(w), e = ToEndPlace(v),
         NEW a, a = Over(w, h), NEW lid \in {0, Lid[e]}, NEW np, np = get_port_pinf(db, w, w[2], lid, a)
  PROVE  InfoGot(db, h, w, e, np) /\ e \in EndPlace
<1>0. Held(db, h) /\ h \in PathObj /\ v # None /\ db.path[h].ep # None
  BY DEF Reached, Held, ScanDb, PathsRight, PathRight
<1>1. /\ Told(db, a, e) /\ Plain(a) /\ a.path = h /\ a.path # None /\ v \in Spot /\ e \in EndPlace
      /\ e[1] = w[1] /\ a.lid = None
      /\ db.path[h].ep = None \/ RightPort(db, {}, e, db.path[h].ep)
  <2>1. a = Over(v, h)
    BY DEF Over
  <2> QED
    BY <1>0, <2>1, OverIs
<1>2. e = ToEndPlace(LeadsTo(db.path[h])) /\ RightPort(db, {}, e, db.path[h].ep)
  BY <1>0, <1>1
<1> QED
  BY <1>1, <1>2, PortTells

-----------------------------------------------------------------------------
(* The scan's own part of the database.                                    *)
EpReached(db) == \A h \in PathObj : Reached(db, h) => h = Start \/ db.topology[h] # None

LEMMA StartIsNoPort == Start \notin PortObj /\ Start \in PathObj
<1>1. ASSUME Start \in PortObj PROVE FALSE
  <2>1. PICK n \in NodeObj, i \in 0..Loose : Start = <<n, i>>
    BY <1>1 DEF PortObj
  <2>2. Len(Start) = 1 /\ Len(<<n, i>>) = 2
    BY DEF Start
  <2> QED
    BY <2>1, <2>2
<1> QED
  BY <1>1 DEF PathObj

LinksThem(db, L, f, t, r) ==
  /\ DbInv(r, L) /\ SameIndexes(db, r)
  /\ r.swinf = db.swinf /\ r.pinf = db.pinf /\ r.loaded = db.loaded
  /\ r.path = db.path /\ r.paths = db.paths
  /\ \A p \in PortObj : r.topology[p] = IF p = t THEN f ELSE IF p = f THEN t ELSE db.topology[p]

(* LinkPorts sets both directions and nothing else.                        *)
LEMMA LinkPortsIs ==
  ASSUME NEW db, NEW L, DbInv(db, L), NEW f \in PortObj, NEW t \in PortObj,
         NEW r, r = LinkPorts(db, f, t)
  PROVE  LinksThem(db, L, f, t, r)
<1>1. DbTypes(db)
  BY DEF DbInv
<1> PICK topo : topo = [[db.topology EXCEPT ![f] = t] EXCEPT ![t] = f]
  OBVIOUS
<1>2. /\ topo \in [PortObj -> PortObj \cup {None}]
      /\ \A p \in PortObj : topo[p] = IF p = t THEN f ELSE IF p = f THEN t ELSE db.topology[p]
  BY <1>1 DEF DbTypes
<1>3. r = [db EXCEPT !.topology = topo]
  BY <1>1 DEF LinkPorts, DbTypes, EmptyDb
<1>4. /\ DOMAIN r = DOMAIN EmptyDb /\ SameIndexes(db, r) /\ r.topology = topo
      /\ r.swinf = db.swinf /\ r.pinf = db.pinf /\ r.loaded = db.loaded
      /\ r.path = db.path /\ r.paths = db.paths
  BY <1>1, <1>3 DEF DbTypes, EmptyDb, SameIndexes
<1>5. DbInv(r, L)
  BY <1>1, <1>2, <1>4, OthersKeep DEF DbTypes
<1> QED
  BY <1>2, <1>4, <1>5 DEF LinksThem

(* More is known, of the same nodes and paths.                             *)
Later(db, r) == ScanDb(r) /\ Grown(db, r) /\ r.class = db.class /\ r.path = db.path

LEMMA LaterTwice == \A db, r, s : Later(db, r) /\ Later(r, s) => Later(db, s)
BY GrownTwice DEF Later

(* A database is a later one of itself.                                    *)
LEMMA LaterSame == \A db : ScanDb(db) => Later(db, db)
BY DEF Later, Grown

(* The cable to the port a device was reached from.                        *)
LEMMA LinkedScan ==
  ASSUME NEW db, ScanDb(db), NEW p, Exists(db, p), NEW t, Exists(db, t), NEW r, r = LinkPorts(db, p, t)
  PROVE  Later(db, r) /\ r.loaded = db.loaded /\ r.topology[t] # None
<1>1. t \in PortObj /\ p \in PortObj /\ DbInv(db, {}) /\ p # None /\ t # None
  BY FixedNone DEF Exists, ScanDb
<1>2. /\ DbInv(r, {}) /\ SameIndexes(db, r)
      /\ r.swinf = db.swinf /\ r.pinf = db.pinf /\ r.loaded = db.loaded
      /\ r.path = db.path /\ r.paths = db.paths
      /\ \A q \in PortObj : r.topology[q] = IF q = t THEN p ELSE IF q = p THEN t ELSE db.topology[q]
  <2>1. LinksThem(db, {}, p, t, r)
    BY <1>1, LinkPortsIs
  <2> QED
    BY <2>1 DEF LinksThem
<1>3. \A q : Exists(db, q) => Exists(r, q)
  BY <1>2 DEF Exists, SameIndexes
<1>4. TopoThere(r)
  <2> SUFFICES ASSUME NEW q \in PortObj, r.topology[q] # None
               PROVE  Exists(r, q) /\ Exists(r, r.topology[q])
    BY DEF TopoThere
  <2>1. CASE q = t
    BY <1>1, <1>2, <1>3, <2>1
  <2>2. CASE q = p /\ q # t
    BY <1>1, <1>2, <1>3, <2>2
  <2>3. CASE q # p /\ q # t
    BY <1>2, <1>3, <2>3 DEF ScanDb, TopoThere
  <2> QED
    BY <2>1, <2>2, <2>3
<1>5. \A q \in PortObj : db.topology[q] # None => r.topology[q] # None
  BY <1>1, <1>2
<1>6. ScanDb(r) /\ Grown(db, r)
  BY <1>2, <1>4, <1>5, OthersScan DEF SameIndexes
<1> QED
  BY <1>1, <1>2, <1>6 DEF SameIndexes, Later

(* Noting the first reply changes only what is loaded.                     *)
LEMMA NotedKeeps ==
  ASSUME NEW db, ScanDb(db), NEW j, NEW r, r = Noted(db, j)
  PROVE  /\ Later(db, r) /\ r.topology = db.topology
         /\ r.loaded = IF j.by = None THEN db.loaded \cup TopoItems ELSE db.loaded
<1>1. CASE j.by # None
  BY <1>1, LaterSame DEF Noted
<1>2. CASE j.by = None
  <2> PICK S : S = db.loaded \cup TopoItems
    OBVIOUS
  <2>1. r = [db EXCEPT !.loaded = S]
    <3>1. DOMAIN db = DOMAIN EmptyDb
      BY DEF ScanDb, DbInv, DbTypes
    <3> QED
      BY <1>2, <3>1 DEF Noted, EmptyDb
  <2>2. /\ DbInv(r, {}) /\ SameIndexes(db, r)
        /\ r.topology = db.topology /\ r.loaded = S /\ r.path = db.path /\ r.paths = db.paths
    <3>1. DbInv(db, {})
      BY DEF ScanDb
    <3> QED
      BY <2>1, <3>1, LoadedKeeps
  <2>3. TopoThere(r)
    BY <2>2 DEF ScanDb, TopoThere, Exists, SameIndexes
  <2>4. ScanDb(r) /\ Grown(db, r)
    BY <2>2, <2>3, OthersScan DEF SameIndexes
  <2> QED
    BY <1>2, <2>2, <2>4 DEF Later, SameIndexes
<1> QED
  BY <1>1, <1>2

(* A port is made for a slot of a Node that is known.                      *)
LEMMA WithPortScan ==
  ASSUME NEW db, ScanDb(db), NEW n \in NodeObj, db.class[n] # None, NEW i \in 0..MaxPort,
         NEW r, r = WithPort(db, n, i), NEW p, p = PortAt(db, n, i)
  PROVE  Later(db, r) /\ r.topology = db.topology /\ r.loaded = db.loaded /\ Exists(r, p) /\ p = <<n, i>>
         /\ r.pinf = db.pinf
<1>1. DbInv(db, {})
  BY DEF ScanDb
<1>2. /\ DbInv(r, {}) /\ r.class = db.class /\ r.ninf = db.ninf
      /\ r.topology = db.topology /\ r.lidRouted = db.lidRouted
      /\ r.loaded = db.loaded /\ r.lid = db.lid /\ r.ports = db.ports
      /\ r.path = db.path /\ r.paths = db.paths /\ r.pinf = db.pinf
  BY <1>1, WithPortKeeps
<1>3. TopoThere(r)
  BY <1>2 DEF ScanDb, TopoThere, Exists
<1>4. ScanDb(r) /\ Grown(db, r)
  BY <1>2, <1>3, OthersScan
<1>5. p \in PortObj /\ Parent(p) = n /\ p = <<n, i>>
  BY <1>1, SlotFacts
<1> QED
  BY <1>2, <1>4, <1>5 DEF Later, Exists

Noticed(db, j, r) ==
  /\ Later(db, r) /\ (j.peer # None => r.topology[j.peer] # None)
  /\ r.loaded = IF j.by = None THEN db.loaded \cup TopoItems ELSE db.loaded

(* do_node links the ports and notes the reply.                            *)
LEMMA LinksAndNotes ==
  ASSUME NEW db, ScanDb(db), NEW j, j.peer # None => Exists(db, j.peer), NEW p, Exists(db, p),
         NEW r, r = Noted(TopoLinked(db, j, p), j)
  PROVE  Noticed(db, j, r)
<1> PICK t : t = TopoLinked(db, j, p)
  OBVIOUS
<1>1. /\ Later(db, t) /\ t.loaded = db.loaded /\ (j.peer # None => t.topology[j.peer] # None)
  <2>1. CASE j.peer = None
    BY <2>1, LaterSame DEF TopoLinked
  <2>2. CASE j.peer # None
    <3> PICK q : q = j.peer
      OBVIOUS
    <3>1. t = LinkPorts(db, p, q) /\ Exists(db, q)
      BY <2>2 DEF TopoLinked
    <3> QED
      BY <3>1, LinkedScan
  <2> QED
    BY <2>1, <2>2
<1>2. r = Noted(t, j) /\ ScanDb(t)
  BY <1>1 DEF Later
<1>3. /\ Later(t, r) /\ r.topology = t.topology
      /\ r.loaded = IF j.by = None THEN t.loaded \cup TopoItems ELSE t.loaded
  BY <1>2, NotedKeeps
<1>4. Later(db, r)
  BY <1>1, <1>3, LaterTwice
<1> QED
  BY <1>1, <1>3, <1>4 DEF Noticed

(* A NodeInfo is stored, and the way it came.                              *)
NodeDone(db, n, port, j, idx) ==
  IF IsSwitchNode(db, n) THEN Noted(TopoLinked(WithPort(db, n, idx), j, PortAt(db, n, idx)), j)
                         ELSE Noted(TopoLinked(db, j, port), j)

LEMMA NodeDoneLater ==
  ASSUME NEW db, ScanDb(db), NEW n \in NodeObj, db.class[n] # None, NEW port, Exists(db, port),
         NEW idx \in 0..MaxPort, NEW j, j.peer # None => Exists(db, j.peer),
         NEW r, r = NodeDone(db, n, port, j, idx)
  PROVE  Noticed(db, j, r)
<1>1. CASE ~IsSwitchNode(db, n)
  <2>1. r = Noted(TopoLinked(db, j, port), j)
    BY <1>1 DEF NodeDone
  <2> QED
    BY <2>1, LinksAndNotes
<1>2. CASE IsSwitchNode(db, n)
  <2> PICK d : d = WithPort(db, n, idx)
    OBVIOUS
  <2> PICK p : p = PortAt(db, n, idx)
    OBVIOUS
  <2>1. Later(db, d) /\ d.topology = db.topology /\ d.loaded = db.loaded /\ Exists(d, p)
    BY WithPortScan
  <2>2. r = Noted(TopoLinked(d, j, p), j)
    BY <1>2 DEF NodeDone
  <2>3. ScanDb(d) /\ (j.peer # None => Exists(d, j.peer))
    BY <2>1 DEF Later, Grown
  <2>4. Noticed(d, j, r)
    BY <2>1, <2>2, <2>3, LinksAndNotes
  <2>5. Later(db, r)
    BY <2>1, <2>4, LaterTwice DEF Noticed
  <2> QED
    BY <2>1, <2>4, <2>5 DEF Noticed
<1> QED
  BY <1>1, <1>2

NodeJob(db, j) ==
  /\ Held(db, j.path)
  /\ \/ j.by = None /\ j.peer = None /\ j.path = Start
     \/ j.by # None /\ j.peer = j.path /\ Exists(db, j.peer)

NodeStored(db, j, w, r) ==
  /\ ScanDb(r) /\ Grown(db, r) /\ EpReached(r)
  /\ Reached(r, j.path) /\ r.path[j.path].ep = Place1(ToEndPlace(w))
  /\ r.loaded = IF j.by = None THEN db.loaded \cup TopoItems ELSE db.loaded

(* A reply's path, links and notes together.                               *)
LEMMA StoredAfter ==
  ASSUME NEW db, EpReached(db), NEW j, NodeJob(db, j), NEW w,
         NEW s, PathGot(db, j.path, ToEndPlace(w), s), NEW r, Noticed(s, j, r)
  PROVE  NodeStored(db, j, w, r)
<1> PICK h : h = j.path
  OBVIOUS
<1>1. /\ Grown(db, s) /\ Reached(s, h) /\ s.path[h].ep = Place1(ToEndPlace(w)) /\ s.loaded = db.loaded
      /\ \A g : Reached(s, g) => g = h \/ Reached(db, g)
  BY DEF PathGot
<1>2. /\ ScanDb(r) /\ Grown(s, r) /\ r.path = s.path
      /\ (j.peer # None => r.topology[j.peer] # None)
      /\ r.loaded = IF j.by = None THEN s.loaded \cup TopoItems ELSE s.loaded
  BY DEF Later, Noticed
<1>3. Grown(db, r)
  BY <1>1, <1>2, GrownTwice
<1>4. EpReached(r)
  <2> SUFFICES ASSUME NEW g \in PathObj, Reached(r, g), g # Start PROVE r.topology[g] # None
    BY DEF EpReached
  <2>1. Reached(s, g)
    BY <1>2 DEF Reached, Held
  <2>2. CASE g = h
    BY <1>2, <2>2, FixedNone DEF NodeJob, Exists
  <2>3. CASE g # h
    <3>1. Reached(db, g) /\ g \in PortObj
      BY <1>1, <2>1, <2>3 DEF PathObj
    <3> QED
      BY <1>3, <3>1 DEF Grown, EpReached
  <2> QED
    BY <2>2, <2>3
<1>5. Reached(r, h) /\ r.path[h].ep = Place1(ToEndPlace(w))
  BY <1>1, <1>2, SMTT(30) DEF Reached, Held
<1> QED
  BY <1>1, <1>2, <1>3, <1>4, <1>5 DEF NodeStored

(* What do_node leaves in the database.                                    *)
LEMMA NodeStores ==
  ASSUME NEW db, ScanDb(db), EpReached(db), NEW j, NodeJob(db, j),
         NEW w, w = LeadsTo(db.path[j.path]), w # None,
         NEW np, np = get_node_ninf(db, w, Over(w, j.path)),
         NEW r, r = NodeDone(np.db, np.node, np.port, j, w[2])
  PROVE  NodeStored(db, j, w, r) /\ np.node = <<w[1], 1>> /\ w \in Spot
         /\ (IsSwitchNode(np.db, np.node) <=> IsSwitch(w[1]))
<1> PICK h : h = j.path
  OBVIOUS
<1> PICK a : a = Over(w, h)
  OBVIOUS
<1>1. Held(db, h) /\ NodeGot(db, h, w, np)
  <2>1. Held(db, h)
    BY DEF NodeJob
  <2> QED
    BY <2>1, NodeArrives
<1> PICK s : s = np.db
  OBVIOUS
<1> PICK n : n = np.node
  OBVIOUS
<1> PICK p : p = np.port
  BY SMTT(30)
<1>2. PathGot(db, h, ToEndPlace(w), s) /\ n = <<w[1], 1>> /\ n \in NodeObj /\ s.class[n] # None
      /\ p = Place1(ToEndPlace(w))
  BY <1>1, ZenonT(30) DEF NodeGot
<1>3. w \in Spot /\ w[2] \in 0..MaxPort
  <2>1. db.path[h] \in Path
    BY <1>1, SMTT(30) DEF Held, ScanDb, DbInv, DbTypes
  <2> QED
    BY <2>1, LeadsToFacts, SpotFacts
<1>4. ScanDb(s) /\ Exists(s, p) /\ (j.peer # None => Exists(s, j.peer))
  <2>1. ScanDb(s) /\ Grown(db, s) /\ Reached(s, h) /\ s.path[h].ep = p
    BY <1>2, ZenonT(30) DEF PathGot
  <2>2. Exists(s, p)
    BY <2>1, ZenonT(30) DEF ScanDb, PathsRight, PathRight, Reached, Held
  <2> QED
    BY <2>1, <2>2, ZenonT(30) DEF NodeJob, Grown
<1>5. Noticed(s, j, r)
  <2>1. r = NodeDone(s, n, p, j, w[2])
    BY SMTT(30)
  <2> QED
    BY <1>2, <1>3, <1>4, <2>1, NodeDoneLater, ZenonT(120)
<1>6. NodeStored(db, j, w, r)
  BY <1>2, <1>5, StoredAfter, ZenonT(30)
<1>7. IsSwitchNode(s, n) <=> IsSwitch(w[1])
  <2>1. s.class[n] = Kind[w[1]]
    <3>1. NodesRight(s, {})
      BY <1>4, ZenonT(30) DEF ScanDb, DbInv
    <3> QED
      <4>1. n[1] = w[1] /\ n[1] \notin {}
        BY <1>2, SMTT(30)
      <4> QED
        BY <1>2, <3>1, <4>1, ZenonT(30) DEF NodesRight
  <2> QED
    BY <2>1, SMTT(30) DEF IsSwitchNode, IsSwitch
<1> QED
  BY <1>2, <1>3, <1>6, <1>7, ZenonT(30)

-----------------------------------------------------------------------------
(* A path is replaced.                                                     *)
PathPut(db, h, new) == [db EXCEPT !.path = [@ EXCEPT ![h] = new]]

PutIs(db, h, new, r) ==
  /\ ScanDb(r) /\ SameIndexes(db, r) /\ r.swinf = db.swinf /\ r.pinf = db.pinf
  /\ r.topology = db.topology /\ r.loaded = db.loaded /\ r.paths = db.paths
  /\ r.path[h] = new /\ \A g \in PathObj : g # h => r.path[g] = db.path[g]

LEMMA PathPutIs ==
  ASSUME NEW db, ScanDb(db), NEW h \in PathObj, NEW new \in Path, PathRight(db, new),
         db.lidRouted \/ ~Reached(db, h), NEW r, r = PathPut(db, h, new)
  PROVE  PutIs(db, h, new, r)
<1>1. DbInv(db, {}) /\ DbTypes(db) /\ new # None
  BY FixedNone DEF ScanDb, DbInv
<1> PICK path : path = [db.path EXCEPT ![h] = new]
  OBVIOUS
<1>2. /\ path \in [PathObj -> Path \cup {None}] /\ path[h] = new
      /\ \A g \in PathObj : g # h => path[g] = db.path[g]
  BY <1>1 DEF DbTypes
<1>3. r = [db EXCEPT !.path = path]
  BY DEF PathPut
<1>4. /\ DOMAIN r = DOMAIN EmptyDb /\ SameIndexes(db, r) /\ r.path = path
      /\ r.swinf = db.swinf /\ r.pinf = db.pinf /\ r.loaded = db.loaded
      /\ r.topology = db.topology /\ r.paths = db.paths
  BY <1>1, <1>3 DEF DbTypes, EmptyDb, SameIndexes
<1>5. DbInv(r, {})
  <2>1. /\ r.swinf \subseteq NodeObj /\ r.pinf \subseteq PortObj
        /\ r.topology \in [PortObj -> PortObj \cup {None}]
        /\ r.path \in [PathObj -> Path \cup {None}] /\ r.paths \in [PortObj -> PathObj \cup {None}]
    BY <1>1, <1>2, <1>4 DEF DbTypes
  <2> QED
    BY <1>1, <1>4, <2>1, OthersKeep
<1>6. /\ \A q : Exists(db, q) => Exists(r, q)
      /\ r.class = db.class /\ r.ninf = db.ninf /\ r.lidRouted = db.lidRouted
      /\ r.ports = db.ports /\ r.lid = db.lid
  BY <1>4 DEF Exists, SameIndexes
<1>7. AllSeen(r) /\ TopoThere(r)
  BY <1>4, <1>6 DEF ScanDb, AllSeen, TopoThere
<1>8. PathsRight(r)
  <2> SUFFICES ASSUME NEW g \in PathObj, r.path[g] # None PROVE PathRight(r, r.path[g])
    BY DEF PathsRight
  <2>1. PathRight(db, r.path[g])
    <3>1. CASE g = h
      BY <1>2, <1>4, <3>1
    <3>2. CASE g # h
      BY <1>2, <1>4, <3>2 DEF ScanDb, PathsRight
    <3> QED
      BY <3>1, <3>2
  <2> QED
    BY <1>6, <2>1, RightStays
<1>9. CacheRight(r)
  <2> SUFFICES ASSUME NEW q \in PortObj, ~r.lidRouted, r.paths[q] # None
               PROVE  Reached(r, r.paths[q]) /\ r.path[r.paths[q]].ep = q
    BY DEF CacheRight
  <2>1. Reached(db, r.paths[q]) /\ db.path[r.paths[q]].ep = q
    BY <1>4, <1>6 DEF ScanDb, CacheRight
  <2>2. r.paths[q] # h
    BY <1>6, <2>1
  <2> QED
    BY <1>2, <1>4, <2>1, <2>2 DEF Reached, Held
<1>10. Routable(r)
  BY <1>4, <1>6 DEF ScanDb, Routable, HasRoute
<1> QED
  BY <1>2, <1>4, <1>5, <1>7, <1>8, <1>9, <1>10 DEF PutIs, ScanDb

(* Changing a path in place, without its end port, loses nothing.          *)
LEMMA PutGrows ==
  ASSUME NEW db, NEW h \in PathObj, NEW new \in Path, NEW r, PutIs(db, h, new, r),
         Reached(db, h) => new.ep = db.path[h].ep
  PROVE  Grown(db, r)
<1>1. new # None
  BY FixedNone
<1>2. /\ \A q : Exists(db, q) => Exists(r, q)
      /\ \A p \in PortObj : db.topology[p] # None => r.topology[p] # None
      /\ \A q \in PortObj : ~db.lidRouted /\ db.paths[q] # None => r.paths[q] # None
      /\ r.lidRouted = db.lidRouted
  BY DEF PutIs, Exists, SameIndexes
<1>3. r.path[h] = new /\ \A g \in PathObj : g # h => r.path[g] = db.path[g]
  BY DEF PutIs
<1>4. \A g : Held(db, g) => Held(r, g)
  BY <1>1, <1>3 DEF Held
<1>5. \A g : Reached(db, g) => Reached(r, g) /\ r.path[g].ep = db.path[g].ep
  <2> SUFFICES ASSUME NEW g, Reached(db, g) PROVE Reached(r, g) /\ r.path[g].ep = db.path[g].ep
    OBVIOUS
  <2>1. g \in PathObj
    BY DEF Reached, Held
  <2>2. CASE g = h
    BY <1>1, <1>3, <2>2 DEF Reached, Held
  <2>3. CASE g # h
    BY <1>3, <2>1, <2>3 DEF Reached, Held
  <2> QED
    BY <2>2, <2>3
<1> QED
  BY <1>2, <1>4, <1>5 DEF Grown

(* The LID path to an end port.                                            *)
LidPathTo(lid, p) == [LIDPath(lid) EXCEPT !.ep = p]
LEMMA LidPathRight ==
  ASSUME NEW db, NEW e \in EndPlace, Lid[e] # 0, Exists(db, Place1(e)),
         NEW new, new = LidPathTo(Lid[e], Place1(e))
  PROVE  new \in Path /\ PathRight(db, new) /\ new.ep = Place1(e)
<1>1. Lid[e] \in Nat
  BY LidAssumption DEF LidAssumption
<1>2. new = [dr |-> FALSE, dlid |-> Lid[e], hops |-> <<>>, ep |-> Place1(e)]
  BY DEF LidPathTo, LIDPath
<1>3. Place1(e) \in PortObj
  BY DEF Exists
<1>4. new \in Path /\ new.ep = Place1(e) /\ ~new.dr /\ new.hops = <<>> /\ ByTheLid(e, new)
  BY <1>1, <1>2, <1>3 DEF Path, ByTheLid
<1>5. LeadsTo(new) = e /\ ToEndPlace(e) = e /\ LeadsTo(new) # None
  BY <1>4, LidPathLeads
<1> QED
  BY <1>4, <1>5 DEF PathRight

-----------------------------------------------------------------------------
(* A PortInfo changes the way to its end port.                             *)
ScanOn(db, r) == ScanDb(r) /\ Grown(db, r) /\ EpReached(r) /\ r.loaded = db.loaded

LEMMA ScanOnTwice ==
  ASSUME NEW db, NEW r, NEW s, ScanOn(db, r), ScanOn(r, s)
  PROVE  ScanOn(db, s)
BY GrownTwice DEF ScanOn

(* do_port's change of a path leaves it leading where it did.              *)
LEMMA ReroutedScan ==
  ASSUME NEW db, ScanDb(db), EpReached(db), NEW j, Reached(db, j.path), NEW e \in EndPlace,
         db.path[j.path].ep = Place1(e), NEW lid \in {0, Lid[e]}, NEW r, r = Rerouted(db, j, lid)
  PROVE  ScanOn(db, r) /\ r.pinf = db.pinf /\ r.topology = db.topology /\ r.class = db.class
<1> PICK h : h = j.path
  OBVIOUS
<1>1. CASE ~BecomesLid(db, j, lid)
  <2>1. r = db
    BY <1>1 DEF Rerouted
  <2> QED
    BY <2>1, LaterSame DEF ScanOn, Later
<1>2. CASE BecomesLid(db, j, lid)
  <2> PICK new : new = LidPathTo(Lid[e], Place1(e))
    OBVIOUS
  <2>1. db.lidRouted /\ lid = Lid[e] /\ Lid[e] # 0
    BY <1>2 DEF BecomesLid
  <2>2. Exists(db, Place1(e)) /\ h \in PathObj
    BY DEF Reached, Held, ScanDb, PathsRight, PathRight
  <2>3. new \in Path /\ PathRight(db, new) /\ new.ep = Place1(e)
    BY <2>1, <2>2, LidPathRight
  <2>4. r = PathPut(db, h, new)
    BY <1>2, <2>1 DEF Rerouted, PathPut, LidPathTo
  <2>5. PutIs(db, h, new, r)
    BY <2>1, <2>2, <2>3, <2>4, PathPutIs
  <2>6. Grown(db, r)
    BY <2>2, <2>3, <2>5, PutGrows
  <2>7. EpReached(r)
    BY <2>5 DEF PutIs, EpReached, Reached, Held
  <2> QED
    BY <2>5, <2>6, <2>7 DEF PutIs, ScanOn, SameIndexes
<1> QED
  BY <1>1, <1>2

(* A PortInfo is stored.                                                   *)
InfoStored(db, j, w, np, r) ==
  /\ ScanOn(db, r) /\ np.port = Place1(w) /\ np.port \in PortObj /\ Exists(r, np.port)
  /\ r.path[j.path].ep = Place1(ToEndPlace(w)) /\ ToEndPlace(w) \in EndPlace

LEMMA PortStores ==
  ASSUME NEW db, ScanDb(db), EpReached(db), NEW j, Reached(db, j.path),
         NEW v, v = LeadsTo(db.path[j.path]),
         NEW w, w[1] = v[1], w[2] \in 0..MaxPort, ToEndPlace(w) = ToEndPlace(v),
         NEW np, np = get_port_pinf(db, w, w[2], PinfLid(w), Over(w, j.path)),
         NEW r, r = Rerouted(np.db, j, PinfLid(w))
  PROVE  InfoStored(db, j, w, np, r)
<1> PICK h : h = j.path
  OBVIOUS
<1> PICK e : e = ToEndPlace(w)
  OBVIOUS
<1> PICK lid : lid = PinfLid(w)
  OBVIOUS
<1> PICK a : a = Over(w, h)
  OBVIOUS
<1>1. lid \in {0, Lid[e]}
  BY DEF PinfLid
<1>2. InfoGot(db, h, w, e, np) /\ e \in EndPlace
  BY <1>1, PortArrives
<1> PICK s : s = np.db
  OBVIOUS
<1>3. /\ ScanDb(s) /\ Grown(db, s) /\ Reached(s, h) /\ s.path[h].ep = Place1(e)
      /\ \A g : Reached(s, g) => g = h \/ Reached(db, g)
      /\ s.topology = db.topology /\ s.loaded = db.loaded
  BY <1>2 DEF InfoGot, PathGot
<1>4. EpReached(s)
  BY <1>3 DEF EpReached
<1>5. ScanOn(db, s)
  BY <1>3, <1>4 DEF ScanOn
<1>6. r = Rerouted(s, j, lid)
  OBVIOUS
<1>7. ScanOn(s, r) /\ r.class = s.class
  BY <1>1, <1>2, <1>3, <1>4, <1>6, ReroutedScan
<1>8. ScanOn(db, r)
  BY <1>5, <1>7, ScanOnTwice
<1>9. np.port = Place1(w) /\ np.port \in PortObj
  BY <1>2, SMTT(30) DEF InfoGot
<1>10. r.path[h].ep = Place1(e)
  BY <1>3, <1>7, ZenonT(30) DEF ScanOn, Grown
<1>11. Exists(r, np.port)
  <2>1. Exists(s, Place1(e))
    BY <1>3, ZenonT(30) DEF Reached, Held, ScanDb, PathsRight, PathRight
  <2>2. e[1] = w[1]
    BY DEF ToEndPlace
  <2> QED
    BY <1>7, <1>9, <2>1, <2>2, SMTT(30) DEF Exists, Place1, Parent
<1> QED
  BY <1>2, <1>8, <1>9, <1>10, <1>11 DEF InfoStored

-----------------------------------------------------------------------------
(* What the scan goes on from: buckets, generators and MADs in flight.     *)
NodeItems(db) ==
  {x \in [aport : PortObj, path : PathObj, idx : 0..MaxPort] :
     Reached(db, x.path) /\ x.aport = <<Parent(db.path[x.path].ep), x.idx>>}
PortItems(db) ==
  {x \in [node : NodeObj, path : PathObj, idx : (0..MaxPort) \cup {None}] :
     /\ Reached(db, x.path) /\ x.node = Parent(db.path[x.path].ep)
     /\ x.idx = IF IsSwitch(x.node[1]) THEN None ELSE db.path[x.path].ep[2]}
Askable(db, h) == {i \in 0..MaxPort : IsSwitch(Parent(db.path[h].ep)[1]) \/ i = db.path[h].ep[2]}
PortJob(db, j) == Reached(db, j.path) /\ j.idx \in Askable(db, j.path)
JobRight(db, j) ==
  (j.what = "port" /\ PortJob(db, j)) \/ (j.what = "node" /\ NodeJob(db, j))
CtxRight(db, x) ==
  x.pc = "iter" => /\ Reached(db, x.path) /\ x.node = Parent(db.path[x.path].ep)
                   /\ x.rem \in Seq(Askable(db, x.path)) /\ x.rem # <<>>
BucketRight(db, b) == b.nodes \in Seq(NodeItems(db)) /\ b.ports \in Seq(PortItems(db))

BucketsRight(db, b) == \A d \in Depth : BucketRight(db, b[d])
CtxsRight(db, x) == \A c \in Ctx : CtxRight(db, x[c])
JobsRight(db, s) == \A j \in s : JobRight(db, j)

LEMMA SeqMore == ASSUME NEW S, NEW T, S \subseteq T, NEW s \in Seq(S) PROVE s \in Seq(T)
OBVIOUS

(* What was an item for a bucket stays one.                                *)
LEMMA ItemsMore ==
  ASSUME NEW db, NEW r, Grown(db, r)
  PROVE  NodeItems(db) \subseteq NodeItems(r) /\ PortItems(db) \subseteq PortItems(r)
<1>1. \A h : Reached(db, h) => Reached(r, h) /\ r.path[h].ep = db.path[h].ep
  BY DEF Grown
<1> QED
  BY <1>1 DEF NodeItems, PortItems

(* A path that was reached stays so, and may ask the same ports.           *)
LEMMA AskableMore ==
  ASSUME NEW db, NEW r, Grown(db, r), NEW h, Reached(db, h)
  PROVE  Reached(r, h) /\ r.path[h].ep = db.path[h].ep /\ Askable(r, h) = Askable(db, h)
BY DEF Grown, Askable

(* A MAD in flight stays right as the database grows.                      *)
LEMMA JobStays ==
  ASSUME NEW db, NEW r, Grown(db, r), NEW j, JobRight(db, j)
  PROVE  JobRight(r, j)
<1>1. PortJob(db, j) => PortJob(r, j)
  BY AskableMore DEF PortJob
<1>2. NodeJob(db, j) => NodeJob(r, j)
  BY DEF NodeJob, Grown
<1> QED
  BY <1>1, <1>2 DEF JobRight

(* A generator stays right as the database grows.                          *)
LEMMA CtxStays ==
  ASSUME NEW db, NEW r, Grown(db, r), NEW x, CtxRight(db, x)
  PROVE  CtxRight(r, x)
<1> SUFFICES ASSUME x.pc = "iter"
             PROVE  /\ Reached(r, x.path) /\ x.node = Parent(r.path[x.path].ep)
                    /\ x.rem \in Seq(Askable(r, x.path)) /\ x.rem # <<>>
  BY DEF CtxRight
<1>1. /\ Reached(db, x.path) /\ x.node = Parent(db.path[x.path].ep)
      /\ x.rem \in Seq(Askable(db, x.path)) /\ x.rem # <<>>
  BY DEF CtxRight
<1>2. /\ Reached(r, x.path) /\ r.path[x.path].ep = db.path[x.path].ep
      /\ Askable(r, x.path) = Askable(db, x.path)
  BY <1>1, AskableMore
<1> QED
  BY <1>1, <1>2

(* A bucket stays right as the database grows.                             *)
LEMMA BucketStays ==
  ASSUME NEW db, NEW r, Grown(db, r), NEW b, BucketRight(db, b)
  PROVE  BucketRight(r, b)
<1>1. NodeItems(db) \subseteq NodeItems(r) /\ PortItems(db) \subseteq PortItems(r)
  BY ItemsMore
<1>2. b.nodes \in Seq(NodeItems(r))
  BY <1>1, SeqMore DEF BucketRight
<1>3. b.ports \in Seq(PortItems(r))
  BY <1>1, SeqMore DEF BucketRight
<1> QED
  BY <1>2, <1>3 DEF BucketRight

ScanUses(db, b, x, s) == BucketsRight(db, b) /\ CtxsRight(db, x) /\ JobsRight(db, s)

(* All work stays right as the database grows.                             *)
LEMMA UsesStay ==
  ASSUME NEW db, NEW r, Grown(db, r), NEW b, NEW x, NEW s, ScanUses(db, b, x, s)
  PROVE  ScanUses(r, b, x, s)
<1>1. BucketsRight(r, b)
  BY BucketStays DEF ScanUses, BucketsRight
<1>2. CtxsRight(r, x)
  BY CtxStays DEF ScanUses, CtxsRight
<1>3. JobsRight(r, s)
  BY JobStays DEF ScanUses, JobsRight
<1> QED
  BY <1>1, <1>2, <1>3 DEF ScanUses

-----------------------------------------------------------------------------
(* The invariant of scans.                                                 *)
ScanUse == Scanning => EpReached(sbn) /\ ScanUses(sbn, todo, ctx, jobs)

PortEnd(p) == ToEndPlace(PlaceOf(p))
CanAsk(db, stage, x) ==
  \/ stage = "swinf" /\ x \in NodeObj /\ db.class[x] # None /\ IsSwitch(x[1])
  \/ stage = "pinf" /\ Exists(db, x) /\ x[2] \in 0..MaxPort /\ PortEnd(x) \in EndPlace
AskedEnd(stage, x) == IF stage = "swinf" THEN <<x, 0>> ELSE Place1(PortEnd(x))
Askful(db, stage, x) == CanAsk(db, stage, x) /\ (~db.lidRouted => db.paths[AskedEnd(stage, x)] # None)
Asked(db, stage, j) ==
  /\ CanAsk(db, stage, j.of) /\ Reached(db, j.path) /\ db.path[j.path].ep = AskedEnd(stage, j.of)
  /\ db.lidRouted => j.path = AskedEnd(stage, j.of)
AskUse ==
  Asking => /\ TopoItems \subseteq sbn.loaded
            /\ \A x \in rest : Askful(sbn, pc, x)
            /\ \A j \in jobs : Asked(sbn, pc, j)

StartJob == [what |-> "node", path |-> Start, depth |-> 0, peer |-> None, by |-> None]
NotYet ==
  ~(TopoItems \subseteq sbn.loaded) =>
    /\ sbn.loaded \cap TopoItems = {} /\ \A n \in NodeObj : sbn.class[n] = None
    /\ Scanning => jobs = {StartJob} /\ \A c \in Ctx : ctx[c].pc = "none"
    /\ pc \in {"idle", "scan"}
ScanMode == pc \in {"idle", "scan", "swinf", "pinf"} /\ table = None /\ tables = {}
SmpInv == ScanMode /\ ScanDb(sbn) /\ ScanUse /\ AskUse /\ NotYet

(* A step of the scan.                                                     *)
LEMMA ScanStep ==
  ASSUME SmpInv, Scanning, UNCHANGED <<pc, table, tables>>, ScanOn(sbn, sbn') \/ (ScanDb(sbn') /\ EpReached(sbn')),
         ScanUses(sbn', todo', ctx', jobs'), TopoItems \subseteq sbn'.loaded
  PROVE  SmpInv'
<1>1. ScanMode' /\ ScanDb(sbn') /\ EpReached(sbn') /\ ~Asking'
  BY DEF SmpInv, ScanMode, ScanOn, Scanning, Asking
<1>2. ScanUse'
  BY <1>1 DEF ScanUse
<1>3. AskUse'
  BY <1>1 DEF AskUse
<1>4. NotYet'
  BY DEF NotYet
<1> QED
  BY <1>1, <1>2, <1>3, <1>4 DEF SmpInv

(* A step of one generator keeps SmpInv if it keeps its own work.          *)
LEMMA TodoKeeps ==
  ASSUME SmpInv, Scanning, NEW c \in Ctx, ctx[c].pc # "none", UNCHANGED <<pc, table, tables>>,
         ScanOn(sbn, sbn'), \A d \in Depth : BucketRight(sbn, todo'[d]),
         \A e \in Ctx : e # c => ctx'[e] = ctx[e], CtxRight(sbn, ctx'[c]),
         \A j \in jobs' : j \in jobs \/ JobRight(sbn', j)
  PROVE  SmpInv'
<1>1. TopoItems \subseteq sbn.loaded /\ EpReached(sbn) /\ ScanUses(sbn, todo, ctx, jobs)
  BY DEF SmpInv, NotYet, ScanUse
<1>2. Grown(sbn, sbn') /\ ScanDb(sbn') /\ EpReached(sbn') /\ TopoItems \subseteq sbn'.loaded
  BY <1>1 DEF ScanOn
<1> PICK r : r = sbn'
  OBVIOUS
<1>3. BucketsRight(r, todo')
  BY <1>2, BucketStays DEF BucketsRight
<1>4. CtxsRight(r, ctx')
  <2> SUFFICES ASSUME NEW e \in Ctx PROVE CtxRight(r, ctx'[e])
    BY DEF CtxsRight
  <2>1. CtxRight(sbn, ctx'[e])
    BY <1>1 DEF ScanUses, CtxsRight
  <2> QED
    BY <1>2, <2>1, CtxStays
<1>5. JobsRight(r, jobs')
  <2> SUFFICES ASSUME NEW j \in jobs' PROVE JobRight(r, j)
    BY DEF JobsRight
  <2>1. CASE j \in jobs
    BY <1>1, <1>2, <2>1, JobStays DEF ScanUses, JobsRight
  <2> QED
    BY <2>1
<1>6. ScanUses(sbn', todo', ctx', jobs')
  BY <1>3, <1>4, <1>5 DEF ScanUses
<1> QED
  BY <1>2, <1>6, ScanStep

(* Without a change of the database the scan goes on.                      *)
LEMMA ScanOnSame == ASSUME SmpInv, Scanning, sbn' = sbn PROVE ScanOn(sbn, sbn')
BY LaterSame DEF SmpInv, ScanUse, ScanOn, Later

(* A step that only moves the generator.                                   *)
LEMMA TodoOnly ==
  ASSUME SmpInv, Shapes, Scanning, NEW c \in Ctx, ctx[c].pc # "none", UNCHANGED <<pc, table, tables, sbn, jobs>>,
         \A d \in Depth : BucketRight(sbn, todo'[d]),
         \A e \in Ctx : e # c => ctx'[e] = ctx[e], CtxRight(sbn, ctx'[c])
  PROVE  SmpInv'
<1>1. ScanOn(sbn, sbn')
  BY ScanOnSame
<1> QED
  BY <1>1, TodoKeeps

(* What SmpInv says of the work of a scan.                                 *)
LEMMA WorkNow ==
  ASSUME SmpInv, Scanning
  PROVE  /\ \A d \in Depth : BucketRight(sbn, todo[d]) /\ \A c \in Ctx : CtxRight(sbn, ctx[c])
         /\ \A j \in jobs : JobRight(sbn, j) /\ ScanDb(sbn) /\ EpReached(sbn)
BY DEF SmpInv, ScanUse, ScanUses, BucketsRight, CtxsRight, JobsRight

(* What SmpInv says of the database in a scan.                             *)
LEMMA ScanNow == ASSUME SmpInv, Scanning PROVE ScanDb(sbn) /\ EpReached(sbn)
BY DEF SmpInv, ScanUse

(* What SmpInv says of one generator.                                      *)
LEMMA CtxNow == ASSUME SmpInv, Scanning, NEW c \in Ctx PROVE CtxRight(sbn, ctx[c])
BY DEF SmpInv, ScanUse, ScanUses, CtxsRight

(* The steps of a generator that take up no work.                          *)
LEMMA TodoWaits ==
  ASSUME SmpInv, Shapes, NEW c \in Ctx, TodoCheck(c) \/ TodoWoken(c) \/ TodoEmpty(c)
  PROVE  SmpInv'
<1>1. /\ Scanning /\ ctx[c].pc # "none" /\ UNCHANGED <<pc, table, tables, sbn, jobs>>
  BY DEF TodoCheck, TodoWoken, TodoEmpty, May, AtTop, loadVars, saVars
<1>2. (\A e \in Ctx : e # c => ctx'[e] = ctx[e]) /\ ctx'[c].pc # "iter"
  <2>1. \/ \E at : at # "iter" /\ ctx' = At(c, at)
        \/ \E on : ctx' = [ctx EXCEPT ![c].pc = "wait", ![c].on = on]
    BY DEF TodoCheck, TodoWoken, TodoEmpty
  <2> QED
    BY <2>1 DEF At, Shapes
<1>3. \A d \in Depth : todo'[d].nodes = todo[d].nodes /\ todo'[d].ports = todo[d].ports
  <2>1. \/ todo' = todo
        \/ \E d : todo' = [todo EXCEPT ![d].ctx = None]
        \/ \E d : todo' = [todo EXCEPT ![d].running = FALSE]
    BY DEF TodoCheck, TodoWoken, TodoEmpty
  <2> QED
    BY <2>1 DEF Shapes
<1>4. \A d \in Depth : BucketRight(sbn, todo'[d])
  BY <1>1, <1>3, WorkNow DEF BucketRight
<1>5. CtxRight(sbn, ctx'[c])
  BY <1>2 DEF CtxRight
<1> QED
  BY <1>1, <1>2, <1>4, <1>5, TodoOnly

(* The node list's last item.                                              *)
LEMMA LastNode ==
  ASSUME SmpInv, Scanning, NEW d \in Depth, todo[d].nodes # <<>>, NEW x, x = Last(todo[d].nodes)
  PROVE  /\ x \in NodeItems(sbn) /\ Front(todo[d].nodes) \in Seq(NodeItems(sbn))
<1>1. todo[d].nodes \in Seq(NodeItems(sbn))
  BY WorkNow DEF BucketRight
<1> QED
  BY <1>1, FrontFacts

(* The item of ports taken up is right, and so are those left.             *)
LEMMA LastPorts ==
  ASSUME SmpInv, Scanning, NEW d \in Depth, todo[d].ports # <<>>, NEW x, x = Last(todo[d].ports)
  PROVE  /\ x \in PortItems(sbn) /\ Front(todo[d].ports) \in Seq(PortItems(sbn))
<1>1. todo[d].ports \in Seq(PortItems(sbn))
  BY WorkNow DEF BucketRight
<1> QED
  BY <1>1, FrontFacts

(* A path that was reached leads to its end port, which is known.          *)
LEMMA ReachedFacts ==
  ASSUME NEW db, ScanDb(db), NEW h, Reached(db, h)
  PROVE  /\ h \in PathObj /\ db.path[h] \in Path /\ db.path[h] # None /\ db.path[h].ep # None
         /\ LeadsTo(db.path[h]) # None /\ LeadsTo(db.path[h]) \in Spot
         /\ db.path[h].ep = Place1(ToEndPlace(LeadsTo(db.path[h]))) /\ Exists(db, db.path[h].ep)
         /\ Parent(db.path[h].ep) \in NodeObj /\ db.class[Parent(db.path[h].ep)] # None
<1>1. /\ h \in PathObj /\ db.path[h] # None /\ db.path[h].ep # None /\ PathRight(db, db.path[h])
  BY DEF Reached, Held, ScanDb, PathsRight
<1>2. db.path[h] \in Path
  BY <1>1 DEF ScanDb, DbInv, DbTypes
<1>3. LeadsTo(db.path[h]) \in Spot
  BY <1>1, <1>2, LeadsToFacts DEF PathRight
<1> QED
  BY <1>1, <1>2, <1>3 DEF PathRight, Exists, PortObj, Parent

FreshDR(path) == path \in Path /\ path.dr /\ path.ep = None
(* A new directed route has no end port yet.                               *)
LEMMA DRPathIs ==
  ASSUME NEW dlid \in Int \cup {None}, NEW hops \in Seq(Nat)
  PROVE  FreshDR(DRPath(dlid, hops))
BY DEF FreshDR, DRPath, Path

(* A route over one hop more has no end port yet.                          *)
LEMMA AdvanceFacts ==
  ASSUME NEW db, ScanDb(db), NEW h, Reached(db, h), NEW idx \in 0..MaxPort,
         db.topology[<<Parent(db.path[h].ep), idx>>] = None,
         NEW new, new = advance_dr(db, db.path[h], idx)
  PROVE  FreshDR(new)
<1> PICK path : path = db.path[h]
  OBVIOUS
<1>1. path \in Path /\ Parent(path.ep) \in NodeObj /\ DbInv(db, {}) /\ path.ep # None
  BY ReachedFacts DEF ScanDb
<1>2. db.topology[PortAt(db, Parent(path.ep), idx)] = None
  BY <1>1, SlotFacts
<1>4. path.hops \in Seq(Nat) /\ idx \in Nat /\ path.dlid \in Int \cup {None}
  BY <1>1, Ports DEF Path
<1>6. <<idx>> \in Seq(Nat) /\ Append(path.hops, idx) \in Seq(Nat) /\ Permissive \in Int
  BY <1>4 DEF Permissive
<1>7. path.hops # <<>> => Front(path.hops) \in Seq(Nat)
  BY <1>4, FrontFacts
<1>8. \/ new = DRPath(Permissive, <<idx>>)
      \/ path.hops # <<>> /\ new = DRPath(path.dlid, Front(path.hops))
      \/ new = DRPath(path.dlid, Append(path.hops, idx))
  BY <1>2 DEF advance_dr
<1> QED
  <2>1. CASE new = DRPath(Permissive, <<idx>>)
    BY <1>6, <2>1, DRPathIs
  <2>2. CASE path.hops # <<>> /\ new = DRPath(path.dlid, Front(path.hops))
    BY <1>4, <1>7, <2>2, DRPathIs
  <2>3. CASE new = DRPath(path.dlid, Append(path.hops, idx))
    BY <1>4, <1>6, <2>3, DRPathIs
  <2> QED
    BY <1>8, <2>1, <2>2, <2>3

(* A node is read, over a path one hop longer.                             *)
LEMMA NodeReads ==
  ASSUME NEW db, ScanDb(db), EpReached(db), NEW x \in NodeItems(db),
         ~(db.topology[x.aport] # None /\ Parent(db.topology[x.aport]) \in db.ninf),
         NEW new, new = advance_dr(db, db.path[x.path], x.idx), NEW r, r = PathPut(db, x.aport, new)
  PROVE  ScanOn(db, r) /\ Held(r, x.aport) /\ Exists(r, x.aport)
<1> PICK h : h = x.path
  OBVIOUS
<1> PICK p : p = x.aport
  OBVIOUS
<1>1. /\ Reached(db, h) /\ p \in PortObj /\ x.idx \in 0..MaxPort /\ h \in PathObj
      /\ p = <<Parent(db.path[h].ep), x.idx>>
  BY DEF NodeItems
<1>2. /\ Parent(db.path[h].ep) \in NodeObj /\ db.class[Parent(db.path[h].ep)] # None
  BY <1>1, ReachedFacts
<1>3. Exists(db, p)
  BY <1>1, <1>2 DEF Exists, Parent
<1>4. db.topology[p] = None
  <2> SUFFICES ASSUME db.topology[p] # None PROVE FALSE
    OBVIOUS
  <2>1. Exists(db, db.topology[p])
    BY <1>1 DEF ScanDb, TopoThere
  <2>2. Parent(db.topology[p]) \in NodeObj
    BY <2>1 DEF Exists, PortObj, Parent
  <2>3. Parent(db.topology[p]) \in db.ninf
    BY <2>1, <2>2 DEF ScanDb, AllSeen, Exists
  <2> QED
    BY <2>3
<1>5. new \in Path /\ new.dr /\ new.ep = None
  BY <1>1, <1>4, AdvanceFacts DEF FreshDR
<1>6. PathRight(db, new)
  BY <1>5 DEF PathRight
<1>7. p \in PathObj /\ p # Start
  BY <1>1, StartIsNoPort DEF PathObj
<1>8. ~Reached(db, p)
  BY <1>4, <1>7 DEF EpReached
<1>9. PutIs(db, p, new, r)
  BY <1>5, <1>6, <1>7, <1>8, PathPutIs
<1>10. Grown(db, r)
  BY <1>5, <1>7, <1>8, <1>9, PutGrows
<1>11. EpReached(r)
  <2> SUFFICES ASSUME NEW g \in PathObj, Reached(r, g), g # Start PROVE r.topology[g] # None
    BY DEF EpReached
  <2>1. g # p
    BY <1>5, <1>9 DEF Reached, PutIs
  <2>2. Reached(db, g)
    BY <1>9, <2>1 DEF Reached, Held, PutIs
  <2> QED
    BY <1>9, <2>2 DEF EpReached, PutIs
<1>12. Held(r, p) /\ Exists(r, p)
  <2>1. Exists(r, p)
    BY ONLY <1>3, <1>10, ZenonT(30) DEF Grown
  <2>2. r.path[p] # None
    BY <1>5, <1>7, <1>9, FixedNone DEF PutIs
  <2> QED
    BY ONLY <1>7, <2>1, <2>2 DEF Held
<1> QED
  BY <1>9, <1>10, <1>11, <1>12 DEF ScanOn, PutIs

(* A generator takes up a path to a node.                                  *)
LEMMA TodoNodeKeeps ==
  ASSUME SmpInv, Shapes, NEW c \in Ctx, TodoNode(c)
  PROVE  SmpInv'
<1> PICK d : d = c[1]
  OBVIOUS
<1> PICK x : x = Last(todo[d].nodes)
  OBVIOUS
<1>0. d \in Depth
  BY DEF Ctx
<1>1. /\ Scanning /\ ctx[c].pc # "none" /\ UNCHANGED <<pc, table, tables>> /\ todo[d].nodes # <<>>
      /\ todo' = [todo EXCEPT ![d].nodes = Front(@)]
  BY DEF TodoNode, AtTop, May, loadVars, saVars
<1>2. x \in NodeItems(sbn) /\ Front(todo[d].nodes) \in Seq(NodeItems(sbn))
  BY <1>0, <1>1, LastNode
<1>3. \A e \in Depth : BucketRight(sbn, todo'[e])
  <2>1. /\ todo'[d].nodes = Front(todo[d].nodes) /\ todo'[d].ports = todo[d].ports
        /\ \A e \in Depth : e # d => todo'[e] = todo[e]
    BY <1>0, <1>1 DEF Shapes
  <2>2. \A e \in Depth : BucketRight(sbn, todo[e])
    BY <1>1, WorkNow
  <2>3. BucketRight(sbn, todo'[d])
    BY <1>0, <1>2, <2>1, <2>2 DEF BucketRight
  <2> QED
    BY <2>1, <2>2, <2>3
<1>4. (\A e \in Ctx : e # c => ctx'[e] = ctx[e]) /\ ctx'[c].pc # "iter"
  <2>1. \E at : at # "iter" /\ ctx' = At(c, at)
    BY DEF TodoNode
  <2> QED
    BY <2>1 DEF At, Shapes
<1>5. CtxRight(sbn, ctx'[c])
  BY <1>4 DEF CtxRight
<1>6. CASE PeerKnown(x.aport)
  <2>1. UNCHANGED <<sbn, jobs>>
    BY <1>6, SMTT(30) DEF TodoNode
  <2> QED
    BY <1>1, <1>3, <1>4, <1>5, <2>1, TodoOnly
<1>7. CASE ~PeerKnown(x.aport)
  <2> PICK j : j = [what |-> "node", path |-> x.aport, depth |-> d, peer |-> x.aport, by |-> c]
    OBVIOUS
  <2>1. sbn' = PathPut(sbn, x.aport, advance_dr(sbn, sbn.path[x.path], x.idx)) /\ jobs' = jobs \cup {j}
    BY <1>7 DEF TodoNode, Spawn, PathPut, NextPath
  <2>2. ScanOn(sbn, sbn') /\ Held(sbn', x.aport) /\ Exists(sbn', x.aport)
    <3>1. ScanDb(sbn) /\ EpReached(sbn)
      BY <1>1, ScanNow
    <3> QED
      BY <1>2, <1>7, <2>1, <3>1, NodeReads, ZenonT(30) DEF PeerKnown
  <2>3. JobRight(sbn', j)
    BY <2>2, NoneIsNoCtx DEF JobRight, NodeJob
  <2> QED
    BY <1>1, <1>3, <1>4, <1>5, <2>1, <2>2, <2>3, TodoKeeps, ZenonT(30)
<1> QED
  BY <1>6, <1>7

(* A sequence of one.                                                      *)
LEMMA OneIndex == ASSUME NEW S, NEW x \in S PROVE <<x>> \in Seq(S) /\ <<x>> # <<>>
OBVIOUS
(* A sequence without its head.                                            *)
LEMMA TakenFrom ==
  ASSUME NEW S, NEW s \in Seq(S), s # <<>>
  PROVE  Head(s) \in S /\ Tail(s) \in Seq(S) /\ (Len(s) # 1 => Tail(s) # <<>>)
<1>1. Head(s) \in S
  OBVIOUS
<1>2. Tail(s) \in Seq(S) /\ Len(Tail(s)) = Len(s) - 1 /\ Len(s) \in Nat /\ Len(s) # 0
  OBVIOUS
<1>3. Len(s) # 1 => Len(Tail(s)) # 0
  BY <1>2
<1>4. Len(<<>>) = 0
  OBVIOUS
<1> QED
  BY <1>1, <1>2, <1>3, <1>4
(* A function on 1..n is a sequence.                                       *)
LEMMA AllIndexes ==
  ASSUME NEW S, NEW n \in Nat, n # 0, NEW f \in [1..n -> S]
  PROVE  f \in Seq(S) /\ f # <<>>
<1>1. f \in Seq(S)
  OBVIOUS
<1>2. DOMAIN f = 1..n /\ 1 \in 1..n /\ DOMAIN <<>> = {}
  OBVIOUS
<1> QED
  BY <1>1, <1>2

(* The list of a node's port numbers.                                      *)
LEMMA IndexList ==
  ASSUME NEW S, NEW n \in Nat, \A i \in 1..(n + 1) : i - 1 \in S, NEW s, s = [i \in 1..(n + 1) |-> i - 1]
  PROVE  s \in Seq(S) /\ s # <<>>
<1> PICK m : m = n + 1
  OBVIOUS
<1>1. m \in Nat /\ m # 0 /\ s \in [1..m -> S]
  OBVIOUS
<1>2. \A k \in Nat : k # 0 => \A f \in [1..k -> S] : f \in Seq(S) /\ f # <<>>
  BY AllIndexes
<1> QED
  BY <1>1, <1>2

(* The port numbers that an item stands for can be asked.                  *)
LEMMA PortIndexes ==
  ASSUME NEW db, ScanDb(db), NEW x \in PortItems(db),
         NEW rem, rem = IF x.idx = None THEN [i \in 1..(NumPorts[x.node[1]] + 1) |-> i - 1] ELSE <<x.idx>>
  PROVE  /\ Reached(db, x.path) /\ x.node = Parent(db.path[x.path].ep)
         /\ rem \in Seq(Askable(db, x.path)) /\ rem # <<>>
<1> PICK p : p = db.path[x.path].ep
  OBVIOUS
<1>1. /\ Reached(db, x.path) /\ x.node = Parent(p)
      /\ x.idx = IF IsSwitch(x.node[1]) THEN None ELSE p[2]
      /\ x.idx \in (0..MaxPort) \cup {None}
  BY DEF PortItems
<1>2. Parent(p) \in NodeObj /\ Parent(p)[1] \in Device
  BY <1>1, ReachedFacts, SMTT(30) DEF NodeObj
<1>3. CASE x.idx = None
  <2>1. IsSwitch(Parent(p)[1])
    <3>1. p[2] # None
      <4>1. p \in PortObj /\ Loose \in Nat
        BY <1>1, ReachedFacts, Ports DEF Exists, Loose
      <4>2. p[2] \in Nat
        BY <4>1 DEF PortObj
      <4> QED
        BY <4>2, FixedNone
    <3> QED
      BY <1>1, <1>3, <3>1
  <2> PICK n : n = NumPorts[Parent(p)[1]]
    OBVIOUS
  <2>2. n \in Nat /\ n <= MaxPort /\ MaxPort \in Nat
    BY <1>2, Ports, FabricAssumption, SMTT(30) DEF FabricAssumption
  <2>3. rem = [i \in 1..(n + 1) |-> i - 1]
    BY <1>1, <1>3, ZenonT(30)
  <2>4. \A i \in 1..(n + 1) : i - 1 \in Askable(db, x.path)
    BY <2>1, <2>2, SMTT(30) DEF Askable
  <2>8. rem \in Seq(Askable(db, x.path)) /\ rem # <<>>
    BY <2>2, <2>3, <2>4, IndexList, ZenonT(30)
  <2> QED
    BY <1>1, <2>8, ZenonT(30)
<1>4. CASE x.idx # None
  <2>1. x.idx \in 0..MaxPort /\ x.idx = p[2] /\ rem = <<x.idx>>
    BY <1>1, <1>4
  <2>2. x.idx \in Askable(db, x.path)
    BY <2>1 DEF Askable
  <2>3. rem \in Seq(Askable(db, x.path)) /\ rem # <<>>
    BY <2>1, <2>2, OneIndex
  <2> QED
    BY <1>1, <2>3, ZenonT(30)
<1> QED
  BY <1>3, <1>4

(* A generator takes up the ports of a node.                               *)
LEMMA TodoPortsKeeps ==
  ASSUME SmpInv, Shapes, NEW c \in Ctx, TodoPorts(c)
  PROVE  SmpInv'
<1> PICK d : d = c[1]
  OBVIOUS
<1> PICK x : x = Last(todo[d].ports)
  OBVIOUS
<1> PICK rem : rem = IF x.idx = None THEN [i \in 1..(NumPorts[x.node[1]] + 1) |-> i - 1] ELSE <<x.idx>>
  OBVIOUS
<1>0. d \in Depth
  BY DEF Ctx
<1>1. /\ Scanning /\ ctx[c].pc # "none" /\ UNCHANGED <<pc, table, tables, sbn, jobs>> /\ todo[d].ports # <<>>
      /\ todo' = [todo EXCEPT ![d].ports = Front(@)]
      /\ ctx' = [ctx EXCEPT ![c].pc = "iter", ![c].node = x.node, ![c].path = x.path, ![c].rem = rem]
  BY ZenonT(30) DEF TodoPorts, May, loadVars, saVars
<1>2. x \in PortItems(sbn) /\ Front(todo[d].ports) \in Seq(PortItems(sbn))
  BY <1>0, <1>1, LastPorts, ZenonT(30)
<1>3. \A e \in Depth : BucketRight(sbn, todo'[e])
  <2>1. /\ todo'[d].ports = Front(todo[d].ports) /\ todo'[d].nodes = todo[d].nodes
        /\ \A e \in Depth : e # d => todo'[e] = todo[e]
    BY <1>0, <1>1, ZenonT(30) DEF Shapes
  <2>2. \A e \in Depth : BucketRight(sbn, todo[e])
    BY <1>1, WorkNow, ZenonT(30)
  <2>3. BucketRight(sbn, todo'[d])
    BY <1>0, <1>2, <2>1, <2>2, SMTT(30) DEF BucketRight
  <2> QED
    BY <2>1, <2>2, <2>3
<1>4. /\ \A e \in Ctx : e # c => ctx'[e] = ctx[e]
      /\ ctx'[c].node = x.node /\ ctx'[c].path = x.path /\ ctx'[c].rem = rem
  BY <1>1, ZenonT(30) DEF Shapes
<1>5. /\ Reached(sbn, x.path) /\ x.node = Parent(sbn.path[x.path].ep)
      /\ rem \in Seq(Askable(sbn, x.path)) /\ rem # <<>>
  BY <1>1, <1>2, ScanNow, PortIndexes, ZenonT(30)
<1>6. CtxRight(sbn, ctx'[c])
  BY <1>4, <1>5, ZenonT(30) DEF CtxRight
<1> QED
  BY <1>1, <1>3, <1>4, <1>6, TodoOnly, ZenonT(30)

(* A generator asks for one port.                                          *)
LEMMA TodoPortKeeps ==
  ASSUME SmpInv, Shapes, NEW c \in Ctx, TodoPort(c)
  PROVE  SmpInv'
<1> PICK x : x = ctx[c]
  OBVIOUS
<1> PICK n : n = x.node
  OBVIOUS
<1> PICK i : i = Head(x.rem)
  OBVIOUS
<1> PICK h : h = x.path
  OBVIOUS
<1>1. /\ Scanning /\ x.pc = "iter" /\ UNCHANGED <<pc, table, tables, todo>>
      /\ sbn' = WithPort(sbn, n, i)
      /\ ctx' = [ctx EXCEPT ![c].rem = Tail(@), ![c].pc = IF Len(x.rem) = 1 THEN "top" ELSE "iter"]
      /\ \/ UNCHANGED jobs
         \/ jobs' = jobs \cup {[what |-> "port", path |-> h, depth |-> c[1], idx |-> i, by |-> c]}
  BY DEF TodoPort, May, Spawn, loadVars, saVars
<1>2. ScanDb(sbn) /\ EpReached(sbn)
  BY <1>1, ScanNow
<1>3. /\ Reached(sbn, h) /\ n = Parent(sbn.path[h].ep)
      /\ x.rem \in Seq(Askable(sbn, h)) /\ x.rem # <<>>
  <2>1. CtxRight(sbn, x)
    BY <1>1, CtxNow
  <2> QED
    BY <1>1, <2>1 DEF CtxRight
<1>4. i \in Askable(sbn, h) /\ Tail(x.rem) \in Seq(Askable(sbn, h)) /\ (Len(x.rem) # 1 => Tail(x.rem) # <<>>)
  BY <1>3, TakenFrom
<1>5. i \in 0..MaxPort /\ n \in NodeObj /\ sbn.class[n] # None
  <2>1. i \in 0..MaxPort
    BY <1>4 DEF Askable
  <2>2. Parent(sbn.path[h].ep) \in NodeObj /\ sbn.class[Parent(sbn.path[h].ep)] # None
    BY <1>2, <1>3, ReachedFacts
  <2> QED
    BY <1>3, <2>1, <2>2
<1>6. Later(sbn, sbn') /\ sbn'.topology = sbn.topology /\ sbn'.loaded = sbn.loaded
  BY <1>1, <1>2, <1>5, WithPortScan
<1>7. ScanOn(sbn, sbn')
  BY <1>2, <1>6 DEF ScanOn, Later, EpReached, Reached, Held
<1>8. /\ \A e \in Ctx : e # c => ctx'[e] = ctx[e]
      /\ ctx'[c].node = n /\ ctx'[c].path = h /\ ctx'[c].rem = Tail(x.rem)
      /\ ctx'[c].pc = IF Len(x.rem) = 1 THEN "top" ELSE "iter"
  BY <1>1 DEF Shapes
<1>9. CtxRight(sbn, ctx'[c])
  BY <1>3, <1>4, <1>8 DEF CtxRight
<1>10. \A j \in jobs' : j \in jobs \/ JobRight(sbn', j)
  <2> PICK new : new = [what |-> "port", path |-> h, depth |-> c[1], idx |-> i, by |-> c]
    OBVIOUS
  <2>1. \A j \in jobs' : j \in jobs \/ j = new
    BY <1>1
  <2>2. Reached(sbn', h) /\ i \in Askable(sbn', h)
    BY <1>3, <1>4, <1>7, AskableMore DEF ScanOn
  <2>3. new.what = "port" /\ new.path = h /\ new.idx = i
    OBVIOUS
  <2>4. JobRight(sbn', new)
    BY <2>2, <2>3 DEF JobRight, PortJob
  <2> QED
    BY <2>1, <2>4
<1>11. \A e \in Depth : BucketRight(sbn, todo'[e])
  BY <1>1, WorkNow
<1>12. UNCHANGED <<pc, table, tables>> /\ ctx[c].pc # "none"
  BY <1>1
<1> QED
  BY <1>1, <1>7, <1>8, <1>9, <1>10, <1>11, <1>12, TodoKeeps

(* A step of do_todo.                                                      *)
LEMMA TodoKeepsAll ==
  ASSUME SmpInv, Shapes, NEW c \in Ctx, Todo(c)
  PROVE  SmpInv'
BY TodoWaits, TodoNodeKeeps, TodoPortsKeeps, TodoPortKeeps DEF Todo

(* The buckets with what do_node or do_port put in.                        *)
LEMMA FilledKeeps ==
  ASSUME Shapes, NEW db, \A e \in Depth : BucketRight(db, todo[e]), NEW d \in Depth,
         NEW nodes \in Seq(NodeItems(db)), NEW ports \in Seq(PortItems(db)), NEW b, b = Filled(d, nodes, ports)
  PROVE  \A e \in Depth : BucketRight(db, b[e])
<1>1. /\ b[d].nodes = todo[d].nodes \o nodes /\ b[d].ports = todo[d].ports \o ports
      /\ \A e \in Depth : e # d => b[e] = todo[e]
  BY DEF Filled, Shapes
<1>2. todo[d].nodes \in Seq(NodeItems(db)) /\ todo[d].ports \in Seq(PortItems(db))
  BY DEF BucketRight
<1>3. b[d].nodes \in Seq(NodeItems(db))
  BY <1>1, <1>2, ConcatFacts
<1>4. b[d].ports \in Seq(PortItems(db))
  BY <1>1, <1>2, ConcatFacts
<1>5. BucketRight(db, b[d])
  BY <1>3, <1>4 DEF BucketRight
<1> QED
  BY <1>1, <1>5

(* The generators with the one that was started.                           *)
LEMMA StartedKeeps ==
  ASSUME Shapes, NEW db, \A c \in Ctx : CtxRight(db, ctx[c]), NEW d, NEW fills, Started(d, fills)
  PROVE  \A c \in Ctx : CtxRight(db, ctx'[c])
<1>1. \A c \in Ctx : ctx'[c] = ctx[c] \/ ctx'[c].pc = "check"
  BY DEF Started, NoCtx, Shapes
<1> QED
  BY <1>1 DEF CtxRight

(* A reply that was stored in r.                                           *)
LEMMA ReplyKeeps ==
  ASSUME SmpInv, Shapes, Scanning, UNCHANGED <<pc, table, tables>>, jobs' \subseteq jobs,
         ScanDb(sbn'), Grown(sbn, sbn'), EpReached(sbn'), TopoItems \subseteq sbn'.loaded,
         NEW d, NEW fills, Started(d, fills), \A e \in Depth : BucketRight(sbn', todo'[e])
  PROVE  SmpInv'
<1>1. ScanUses(sbn, todo, ctx, jobs)
  BY DEF SmpInv, ScanUse
<1> PICK r : r = sbn'
  OBVIOUS
<1>2. ScanUses(r, todo, ctx, jobs)
  BY <1>1, UsesStay
<1>3. CtxsRight(r, ctx')
  <2>1. \A c \in Ctx : CtxRight(r, ctx[c])
    BY <1>2 DEF ScanUses, CtxsRight
  <2> QED
    BY <2>1, StartedKeeps DEF CtxsRight
<1>4. BucketsRight(r, todo') /\ JobsRight(r, jobs')
  BY <1>2 DEF ScanUses, BucketsRight, JobsRight
<1>5. ScanUses(sbn', todo', ctx', jobs')
  BY <1>3, <1>4 DEF ScanUses
<1> QED
  BY <1>5, ScanStep

(* The buckets of a scan, in a database that has grown.                    *)
LEMMA BucketsNow ==
  ASSUME SmpInv, Scanning, NEW r, Grown(sbn, r)
  PROVE  \A d \in Depth : BucketRight(r, todo[d])
<1>1. ScanUses(sbn, todo, ctx, jobs)
  BY DEF SmpInv, ScanUse
<1>2. ScanUses(r, todo, ctx, jobs)
  BY <1>1, UsesStay
<1> QED
  BY <1>2 DEF ScanUses, BucketsRight

(* A sequence of one item, or none.                                        *)
LEMMA OneItem == ASSUME NEW S, NEW x \in S PROVE <<x>> \in Seq(S) /\ <<>> \in Seq(S)
BY SMTT(30)

(* A NodeInfo arrives.                                                     *)
LEMMA NodeReplyKeeps ==
  ASSUME SmpInv, Shapes, Scanning, NEW j \in jobs, Reply(j), j.what = "node", j.depth \in Depth
  PROVE  SmpInv'
<1> PICK db : db = sbn
  OBVIOUS
<1> PICK h : h = j.path
  OBVIOUS
<1> PICK w : w = LeadsTo(db.path[h])
  OBVIOUS
<1> PICK np : np = get_node_ninf(db, w, Over(w, h))
  OBVIOUS
<1> PICK n : n = np.node
  OBVIOUS
<1> PICK item : item = [node |-> n, path |-> h, idx |-> IF IsSwitchNode(np.db, n) THEN None ELSE w[2]]
  OBVIOUS
<1>1. /\ UNCHANGED <<pc, table, tables>> /\ jobs' \subseteq jobs /\ w # None
      /\ NodeFound(j, w, np)
  BY DEF Reply, DoNode, NodeReply, Over, loadVars, saVars
<1>2. /\ sbn' = NodeDone(np.db, n, np.port, j, w[2])
      /\ todo' = todo \/ todo' = Filled(j.depth, <<>>, <<item>>)
      /\ \E fills : Started(j.depth, fills)
  BY <1>1, ZenonT(30) DEF NodeFound, NodeDone
<1>3. ScanDb(db) /\ EpReached(db) /\ NodeJob(db, j)
  <2>1. JobRight(db, j)
    BY WorkNow
  <2> QED
    BY <2>1, ScanNow DEF JobRight
<1> PICK r : r = sbn'
  BY SMTT(30)
<1>4. NodeStored(db, j, w, r) /\ n = <<w[1], 1>> /\ w \in Spot /\ (IsSwitchNode(np.db, n) <=> IsSwitch(w[1]))
  <2>1. w = LeadsTo(db.path[j.path]) /\ np = get_node_ninf(db, w, Over(w, j.path))
        /\ r = NodeDone(np.db, np.node, np.port, j, w[2])
    BY <1>2, ZenonT(30)
  <2>2. w # None /\ n = np.node
    BY <1>1
  <2> QED
    BY ONLY <1>3, <2>1, <2>2, NodeStores, ZenonT(60)
<1>5. /\ ScanDb(r) /\ Grown(db, r) /\ EpReached(r)
      /\ Reached(r, h) /\ r.path[h].ep = Place1(ToEndPlace(w))
      /\ r.loaded = IF j.by = None THEN db.loaded \cup TopoItems ELSE db.loaded
  BY <1>4 DEF NodeStored
<1>6. TopoItems \subseteq r.loaded
  <2>1. CASE TopoItems \subseteq db.loaded
    BY <1>5, <2>1
  <2>2. CASE ~(TopoItems \subseteq db.loaded)
    <3>1. j = StartJob
      BY <2>2, SMTT(30) DEF SmpInv, NotYet
    <3> QED
      BY <1>5, <3>1 DEF StartJob
  <2> QED
    BY <2>1, <2>2
<1>7. item \in PortItems(r)
  <2>1. /\ w[1] \in Device /\ w[2] \in 0..MaxPort /\ ToEndPlace(w)[1] = w[1]
        /\ ~IsSwitch(w[1]) => ToEndPlace(w) = w
    BY <1>4, SpotFacts
  <2>2. n \in NodeObj /\ n[1] = w[1] /\ h \in PathObj
    BY <1>4, <1>5, <2>1, FirstNode DEF Reached, Held
  <2>3. Parent(r.path[h].ep) = n /\ r.path[h].ep[2] = ToEndPlace(w)[2]
    BY <1>4, <1>5, <2>1 DEF Place1, Parent
  <2>4. item.node = n /\ item.path = h /\ item.idx = IF IsSwitch(w[1]) THEN None ELSE w[2]
    BY <1>4
  <2>5. item \in [node : NodeObj, path : PathObj, idx : (0..MaxPort) \cup {None}]
    BY <2>1, <2>2, SMTT(30)
  <2> QED
    BY <1>5, <2>1, <2>2, <2>3, <2>4, <2>5, ZenonT(30) DEF PortItems
<1>8. \A e \in Depth : BucketRight(r, todo'[e])
  <2>1. \A e \in Depth : BucketRight(r, todo[e])
    BY <1>5, BucketsNow
  <2>2. CASE todo' = todo
    BY <2>1, <2>2
  <2>3. CASE todo' = Filled(j.depth, <<>>, <<item>>)
    <3>1. <<item>> \in Seq(PortItems(r)) /\ <<>> \in Seq(NodeItems(r))
      BY <1>7, OneItem
    <3> QED
      BY <2>1, <2>3, <3>1, FilledKeeps
  <2> QED
    BY <1>2, <2>2, <2>3, ZenonT(30)
<1> QED
  BY <1>1, <1>2, <1>5, <1>6, <1>8, ReplyKeeps, ZenonT(120)

(* A PortInfo arrives.                                                     *)
LEMMA PortReplyKeeps ==
  ASSUME SmpInv, Shapes, Scanning, NEW j \in jobs, Reply(j), j.what # "node", j.depth \in Depth
  PROVE  SmpInv'
<1> PICK db : db = sbn
  OBVIOUS
<1> PICK h : h = j.path
  OBVIOUS
<1> PICK v : v = LeadsTo(db.path[h])
  OBVIOUS
<1> PICK w : w = <<v[1], j.idx>>
  OBVIOUS
<1> PICK np : np = get_port_pinf(db, w, w[2], PinfLid(w), Over(w, h))
  OBVIOUS
<1> PICK item : item = [aport |-> np.port, path |-> h, idx |-> j.idx]
  OBVIOUS
<1>1. /\ UNCHANGED <<pc, table, tables>> /\ jobs' \subseteq jobs
      /\ PortFound(j, w, Rerouted(np.db, j, PinfLid(w)), np.port)
  BY ZenonT(30) DEF Reply, DoPort, PortReply, PortStored, Over, loadVars, saVars
<1>2. /\ sbn' = Rerouted(np.db, j, PinfLid(w))
      /\ \/ todo' = todo
         \/ todo' = Filled(j.depth + 1, <<item>>, <<>>) /\ InBounds(j.depth + 1)
      /\ \E fills : Started(j.depth + 1, fills)
  BY <1>1, ZenonT(30) DEF PortFound
<1>3. ScanDb(db) /\ EpReached(db) /\ PortJob(db, j)
  <2>1. JobRight(db, j)
    BY WorkNow
  <2> QED
    BY <2>1, ScanNow DEF JobRight
<1>4. Reached(db, h) /\ j.idx \in Askable(db, h) /\ w[1] = v[1] /\ w[2] = j.idx /\ w[2] \in 0..MaxPort
  BY <1>3 DEF PortJob, Askable
<1>5. ToEndPlace(w) = ToEndPlace(v)
  <2>1. v \in Spot /\ db.path[h].ep = Place1(ToEndPlace(v))
    BY <1>3, <1>4, ReachedFacts
  <2>2. v = <<v[1], v[2]>> /\ ToEndPlace(v)[1] = v[1] /\ (~IsSwitch(v[1]) => ToEndPlace(v) = v)
    BY <2>1, SpotFacts
  <2>3. Parent(db.path[h].ep)[1] = v[1] /\ db.path[h].ep[2] = ToEndPlace(v)[2]
    BY <2>1, <2>2 DEF Place1, Parent
  <2>4. CASE IsSwitch(v[1])
    BY <1>4, <2>4 DEF ToEndPlace
  <2>5. CASE ~IsSwitch(v[1])
    <3>1. j.idx = v[2]
      BY <1>4, <2>2, <2>3, <2>5 DEF Askable
    <3> QED
      BY <2>2, <3>1
  <2> QED
    BY <2>4, <2>5
<1> PICK r : r = sbn'
  OBVIOUS
<1>6. ScanOn(db, r) /\ np.port = Place1(w) /\ np.port \in PortObj /\ Exists(r, np.port)
      /\ r.path[h].ep = Place1(ToEndPlace(w)) /\ ToEndPlace(w) \in EndPlace
  <2>1. /\ ScanDb(db) /\ EpReached(db) /\ Reached(db, j.path) /\ v = LeadsTo(db.path[j.path])
        /\ w[1] = v[1] /\ w[2] \in 0..MaxPort /\ ToEndPlace(w) = ToEndPlace(v)
        /\ np = get_port_pinf(db, w, w[2], PinfLid(w), Over(w, j.path)) /\ r = Rerouted(np.db, j, PinfLid(w))
    BY <1>2, <1>3, <1>4, <1>5, ZenonT(30)
  <2>2. InfoStored(db, j, w, np, r)
    BY <2>1, PortStores, ZenonT(30)
  <2> QED
    BY <2>2, ZenonT(120) DEF InfoStored
<1>7. /\ ScanDb(r) /\ Grown(db, r) /\ EpReached(r) /\ r.loaded = db.loaded
  BY <1>6 DEF ScanOn
<1>8. TopoItems \subseteq r.loaded
  <2> SUFFICES ASSUME ~(TopoItems \subseteq db.loaded) PROVE FALSE
    BY <1>7
  <2>1. j = StartJob
    BY SMTT(30) DEF SmpInv, NotYet
  <2> QED
    BY <2>1 DEF StartJob
<1>9. item \in NodeItems(r)
  <2>1. Reached(r, h) /\ h \in PathObj
    BY <1>4, <1>7, SMTT(30) DEF Grown, Reached, Held
  <2>2. Parent(r.path[h].ep) = <<w[1], 1>>
    <3> PICK e : e = ToEndPlace(w)
      OBVIOUS
    <3>1. r.path[h].ep = Place1(e)
      BY <1>6
    <3>2. e[1] = w[1]
      BY DEF ToEndPlace
    <3> QED
      BY <3>1, <3>2 DEF Place1, Parent
  <2>3. np.port = <<Parent(r.path[h].ep), j.idx>>
    BY <1>4, <1>6, <2>2, ZenonT(120) DEF Place1
  <2>4. item \in [aport : PortObj, path : PathObj, idx : 0..MaxPort]
    BY <1>4, <1>6, <2>1, SMTT(30)
  <2> QED
    BY <2>1, <2>3, <2>4, ZenonT(30) DEF NodeItems
<1>10. \A e \in Depth : BucketRight(r, todo'[e])
  <2>1. \A e \in Depth : BucketRight(r, todo[e])
    BY <1>7, BucketsNow
  <2>2. CASE todo' = todo
    BY <2>1, <2>2
  <2>3. CASE todo' = Filled(j.depth + 1, <<item>>, <<>>) /\ InBounds(j.depth + 1)
    <3>1. <<item>> \in Seq(NodeItems(r)) /\ <<>> \in Seq(PortItems(r))
      BY <1>9, OneItem
    <3>2. j.depth + 1 \in Depth
      BY <2>3, DiscoveryAssumption DEF InBounds, Depth, DiscoveryAssumption
    <3> QED
      BY <2>1, <2>3, <3>1, <3>2, FilledKeeps
  <2> QED
    BY <1>2, <2>2, <2>3, ZenonT(30)
<1> QED
  BY <1>1, <1>2, <1>7, <1>8, <1>10, ReplyKeeps, ZenonT(30)

(* A reply of either kind.                                                 *)
LEMMA ReplyKeepsAll ==
  ASSUME SmpInv, ScanInv, NEW j \in jobs, Reply(j)
  PROVE  SmpInv'
<1>1. Scanning /\ Shapes /\ j.depth \in Depth
  BY DEF Reply, ScanInv, Depths
<1> QED
  BY <1>1, NodeReplyKeeps, PortReplyKeeps

(* A scan forgets what earlier ones have found of the network.             *)
LEMMA NothingRouted ==
  ASSUME NEW db, ScanDb(db), \A n \in NodeObj : db.class[n] = None, NEW e \in EndPlace
  PROVE  ~HasRoute(db, e)
<1>1. \A p : ~Exists(db, p)
  BY DEF Exists, PortObj, Parent
<1>2. db.ports[e] = None
  BY <1>1 DEF ScanDb, DbInv, PortIndexRight
<1>3. <<e[1], 1>> \in NodeObj /\ Place1(e) \in PortObj
  <2>1. e[1] \in Device /\ e[2] \in 0..MaxPort
    BY EndPlaceFacts, EndPorts
  <2> QED
    BY <2>1, FirstNode, Ports DEF Place1, PortObj, Loose
<1>4. db.lid[Place1(e)] = None
  BY <1>1, <1>3 DEF ScanDb, DbInv, LidsRight
<1> QED
  BY <1>2, <1>3, <1>4 DEF HasRoute

WipedTo(db, start, r) ==
  /\ ScanDb(r) /\ EpReached(r) /\ Held(r, Start) /\ r.loaded = db.loaded /\ r.class = db.class

(* A scan begins with an empty topology and one path.                      *)
LEMMA WipedIs ==
  ASSUME NEW db, ScanDb(db), \A n \in NodeObj : db.class[n] = None,
         NEW start \in Path, PathRight(db, start), start.ep = None,
         NEW pinf \in SUBSET PortObj,
         NEW r, r = [db EXCEPT !.topology = EmptyDb.topology, !.pinf = pinf, !.paths = EmptyDb.paths,
                               !.path = [EmptyDb.path EXCEPT ![Start] = start]]
  PROVE  WipedTo(db, start, r)
<1>1. DbInv(db, {}) /\ DbTypes(db)
  BY DEF ScanDb, DbInv
<1> PICK path : path = [EmptyDb.path EXCEPT ![Start] = start]
  OBVIOUS
<1>2. /\ path \in [PathObj -> Path \cup {None}] /\ path[Start] = start
      /\ \A h \in PathObj : h # Start => path[h] = None
  BY StartIsNoPort DEF EmptyDb
<1>3. /\ EmptyDb.topology \in [PortObj -> PortObj \cup {None}] /\ EmptyDb.paths \in [PortObj -> PathObj \cup {None}]
      /\ \A p \in PortObj : EmptyDb.topology[p] = None /\ EmptyDb.paths[p] = None
  BY DEF EmptyDb
<1>4. /\ DOMAIN r = DOMAIN EmptyDb /\ SameIndexes(db, r) /\ r.path = path
      /\ r.swinf = db.swinf /\ r.pinf = pinf /\ r.loaded = db.loaded
      /\ r.topology = EmptyDb.topology /\ r.paths = EmptyDb.paths
  <2> PICK t : t = EmptyDb.topology
    OBVIOUS
  <2> PICK ps : ps = EmptyDb.paths
    OBVIOUS
  <2>1. r = [db EXCEPT !.topology = t, !.pinf = pinf, !.paths = ps, !.path = path]
    OBVIOUS
  <2>2. DOMAIN db = DOMAIN EmptyDb
    BY <1>1 DEF DbTypes
  <2> QED
    BY <2>1, <2>2 DEF EmptyDb, SameIndexes
<1>5. DbInv(r, {})
  <2>1. r.swinf \subseteq NodeObj /\ r.pinf \subseteq PortObj
    BY <1>1, <1>4 DEF DbTypes
  <2> QED
    BY <1>1, <1>2, <1>3, <1>4, <2>1, OthersKeep
<1>6. r.class = db.class /\ r.ninf = db.ninf /\ \A q : Exists(db, q) => Exists(r, q)
  BY <1>4 DEF SameIndexes, Exists
<1>7. AllSeen(r) /\ TopoThere(r) /\ CacheRight(r)
  BY <1>3, <1>4, <1>6 DEF ScanDb, AllSeen, TopoThere, CacheRight
<1>8. PathsRight(r)
  <2> SUFFICES ASSUME NEW h \in PathObj, r.path[h] # None PROVE PathRight(r, r.path[h])
    BY DEF PathsRight
  <2>1. r.path[h] = start
    BY <1>2, <1>4
  <2> QED
    BY <1>6, <2>1, RightStays
<1>9. Routable(r)
  <2>1. \A e \in EndPlace : HasRoute(r, e) <=> HasRoute(db, e)
    BY <1>4 DEF SameIndexes, HasRoute
  <2> QED
    BY <2>1, NothingRouted DEF Routable
<1>10. Held(r, Start) /\ \A h : ~Reached(r, h)
  <2>1. start # None /\ Start \in PathObj
    BY FixedNone, StartIsNoPort
  <2>2. Held(r, Start)
    BY <1>2, <1>4, <2>1 DEF Held
  <2>3. \A h \in PathObj : r.path[h] # None => r.path[h] = start
    BY <1>2, <1>4
  <2> QED
    BY <2>2, <2>3 DEF Reached, Held
<1> QED
  BY <1>4, <1>5, <1>6, <1>7, <1>8, <1>9, <1>10 DEF WipedTo, ScanDb, EpReached

(* The first path leads to the local port, which is not known.             *)
LEMMA StartPath ==
  ASSUME NEW db, NEW routed, routed => Lid[Local] # 0,
         NEW start, start = IF routed THEN LIDPath(Lid[Local]) ELSE DRPath(Permissive, <<>>)
  PROVE  start \in Path /\ PathRight(db, start) /\ start.ep = None
<1>1. Local \in EndPlace /\ Lid[Local] \in Nat
  BY FabricAssumption, LidAssumption DEF FabricAssumption, LidAssumption
<1>2. CASE routed
  <2>1. start = LIDPath(Lid[Local])
    BY <1>2
  <2>2. start \in Path /\ ~start.dr /\ start.hops = <<>> /\ start.ep = None /\ ByTheLid(Local, start)
    BY <1>1, <1>2, <2>1 DEF LIDPath, Path, ByTheLid
  <2> QED
    BY <1>1, <2>2 DEF PathRight
<1>3. CASE ~routed
  <2>1. FreshDR(start)
    <3>1. start = DRPath(Permissive, <<>>) /\ Permissive \in Int \cup {None} /\ <<>> \in Seq(Nat)
      BY <1>3 DEF Permissive
    <3> QED
      BY <3>1, DRPathIs
  <2> QED
    BY <2>1 DEF FreshDR, PathRight
<1> QED
  BY <1>2, <1>3

(* A sequence of none.                                                     *)
LEMMA NoItems == ASSUME NEW S PROVE <<>> \in Seq(S)
OBVIOUS

(* A scan begins.                                                          *)
LEMMA StartKeeps ==
  ASSUME SmpInv, ScanInv, NEW S, StartScan(S)
  PROVE  SmpInv'
<1> PICK db : db = sbn
  OBVIOUS
<1> PICK start : start = IF db.lidRouted THEN LIDPath(Lid[Local]) ELSE DRPath(Permissive, <<>>)
  OBVIOUS
<1> PICK pinf : pinf = {p \in db.pinf : ~InNetwork(db, p)}
  OBVIOUS
<1> PICK r : r = sbn'
  OBVIOUS
<1>1. /\ pc = "idle" /\ pc' = "scan" /\ UNCHANGED <<table, tables, rest>>
      /\ (db.lidRouted => Lid[Local] # 0) /\ ~(TopoItems \subseteq db.loaded)
      /\ r = Wiped(db) /\ todo' = [d \in Depth |-> EmptyBucket] /\ ctx' = [c \in Ctx |-> NoCtx]
      /\ jobs' = {StartJob}
  BY DEF StartScan, Wanted, saVars, StartJob
<1>2. ScanDb(db) /\ db.loaded \cap TopoItems = {} /\ \A n \in NodeObj : db.class[n] = None
  BY <1>1 DEF SmpInv, NotYet
<1>3. WipedTo(db, start, r)
  <2>1. start \in Path /\ PathRight(db, start) /\ start.ep = None
    BY <1>1, StartPath
  <2>2. pinf \in SUBSET PortObj
    BY <1>2 DEF ScanDb, DbInv, DbTypes
  <2>3. r = [db EXCEPT !.topology = EmptyDb.topology, !.pinf = pinf, !.paths = EmptyDb.paths,
                       !.path = [EmptyDb.path EXCEPT ![Start] = start]]
    BY <1>1 DEF Wiped
  <2> QED
    BY <1>2, <2>1, <2>2, <2>3, WipedIs, ZenonT(30)
<1>4. BucketsRight(r, todo') /\ CtxsRight(r, ctx')
  <2>1. \A d \in Depth : todo'[d] = EmptyBucket
    BY <1>1
  <2>2. \A c \in Ctx : ctx'[c] = NoCtx
    BY <1>1
  <2>3. BucketRight(r, EmptyBucket)
    BY NoItems DEF BucketRight, EmptyBucket
  <2>4. CtxRight(r, NoCtx)
    BY DEF CtxRight, NoCtx
  <2> QED
    BY <2>1, <2>2, <2>3, <2>4 DEF BucketsRight, CtxsRight
<1>5. JobsRight(r, jobs')
  <2>1. JobRight(r, StartJob)
    BY <1>3 DEF WipedTo, StartJob, JobRight, NodeJob
  <2> QED
    BY <1>1, <2>1 DEF JobsRight
<1>6. ScanUse'
  BY <1>3, <1>4, <1>5 DEF WipedTo, ScanUse, ScanUses
<1>7. AskUse' /\ ScanMode'
  BY <1>1 DEF AskUse, Asking, ScanMode, SmpInv
<1>8. NotYet'
  BY <1>1, <1>2, <1>3 DEF WipedTo, NotYet, NoCtx
<1> QED
  BY <1>3, <1>6, <1>7, <1>8 DEF SmpInv, WipedTo

-----------------------------------------------------------------------------
(* SwitchInfos and PortInfos asked for when the scan is over.              *)

LEMMA CopyFacts ==
  ASSUME NEW db, ScanDb(db), NEW n \in NodeObj, db.class[n] # None
  PROVE  /\ n = <<n[1], 1>> /\ n[1] \in Device /\ (IsSwitchNode(db, n) <=> IsSwitch(n[1]))
         /\ IsSwitch(n[1]) => <<n[1], 0>> \in EndPlace /\ Place1(<<n[1], 0>>) = <<n, 0>>
<1>1. n = <<n[1], n[2]>> /\ n[1] \in Device
  BY DEF NodeObj
<1>2. n[2] = 1 /\ db.class[n] = Kind[n[1]]
  <2>1. n[1] \notin {}
    OBVIOUS
  <2> QED
    BY <2>1 DEF ScanDb, DbInv, NodesRight
<1>3. <<n[1], 0>> \in Place
  <2>1. NumPorts[n[1]] \in Nat
    BY <1>1, FabricAssumption DEF FabricAssumption
  <2>2. <<n[1], 0>> \in {n[1]} \X (0..NumPorts[n[1]])
    BY <2>1
  <2> QED
    BY <1>1, <2>2 DEF Place
<1>4. IsSwitch(n[1]) => <<n[1], 0>> \in EndPlace
  BY <1>3 DEF EndPlace, ToEndPlace
<1> QED
  BY <1>1, <1>2, <1>4 DEF IsSwitchNode, IsSwitch, Place1

(* What is asked has an end port that is there.                            *)
LEMMA AskedFacts ==
  ASSUME NEW db, ScanDb(db), NEW stage, NEW x, CanAsk(db, stage, x),
         NEW e, e = IF stage = "swinf" THEN <<x[1], 0>> ELSE PortEnd(x)
  PROVE  /\ e \in EndPlace /\ AskedEnd(stage, x) = Place1(e) /\ Exists(db, Place1(e))
         /\ Parent(Place1(e)) = IF stage = "swinf" THEN x ELSE Parent(x)
         /\ stage # "swinf" => x = Place1(PlaceOf(x)) /\ e[1] = PlaceOf(x)[1]
                               /\ e[2] = EndIndex(db, Parent(x), x[2])
<1>1. CASE stage = "swinf"
  <2>1. x \in NodeObj /\ db.class[x] # None /\ IsSwitch(x[1])
    BY <1>1 DEF CanAsk
  <2>2. e \in EndPlace /\ Place1(e) = <<x, 0>>
    BY <1>1, <2>1, CopyFacts
  <2>3. <<x, 0>> \in PortObj
    BY <2>1, Ports DEF PortObj, Loose
  <2> QED
    BY <1>1, <2>1, <2>2, <2>3 DEF AskedEnd, Exists, Parent
<1>2. CASE stage # "swinf"
  <2>1. Exists(db, x) /\ x[2] \in 0..MaxPort /\ e \in EndPlace /\ e = ToEndPlace(PlaceOf(x))
    BY <1>2 DEF CanAsk, PortEnd
  <2> PICK n : n = Parent(x)
    OBVIOUS
  <2>2. n \in NodeObj /\ db.class[n] # None /\ x = <<n, x[2]>>
    BY <2>1 DEF Exists, PortObj, Parent
  <2>3. n = <<n[1], 1>> /\ n[1] \in Device /\ (IsSwitchNode(db, n) <=> IsSwitch(n[1]))
    BY <2>2, CopyFacts
  <2>4. PlaceOf(x) = <<n[1], x[2]>> /\ e[1] = n[1] /\ e[2] = IF IsSwitch(n[1]) THEN 0 ELSE x[2]
    BY <2>1, <2>2 DEF PlaceOf, ToEndPlace
  <2>5. Place1(e) = <<n, e[2]>> /\ Place1(PlaceOf(x)) = x
    BY <2>2, <2>3, <2>4 DEF Place1
  <2>6. Place1(e) \in PortObj
    BY <2>1, <2>2, <2>5, EndPorts, Ports DEF PortObj, Loose
  <2> QED
    BY <1>2, <2>1, <2>2, <2>3, <2>4, <2>5, <2>6 DEF AskedEnd, Exists, Parent, EndIndex, PortEnd
<1> QED
  BY <1>1, <1>2

(* What load() goes on to ask.                                             *)
LEMMA AsksFacts ==
  ASSUME NEW db, ScanDb(db), NEW stage, NEW x \in Asks(stage, db)
  PROVE  Askful(db, stage, x)
<1>1. CASE stage = "swinf"
  <2>1. x \in NodeObj /\ db.class[x] # None /\ IsSwitchNode(db, x)
    BY <1>1 DEF Asks, AllNodes
  <2>2. /\ x = <<x[1], 1>> /\ IsSwitch(x[1]) /\ <<x[1], 0>> \in EndPlace /\ Place1(<<x[1], 0>>) = <<x, 0>>
    BY <2>1, CopyFacts
  <2>3. HasRoute(db, <<x[1], 0>>)
    BY <2>1, <2>2 DEF HasRoute
  <2>4. ~db.lidRouted => db.paths[<<x, 0>>] # None
    BY <2>2, <2>3 DEF ScanDb, Routable
  <2> QED
    BY <1>1, <2>1, <2>2, <2>4 DEF Askful, CanAsk, AskedEnd
<1>2. CASE stage = "pinf"
  <2>1. PICK n \in NodeObj, i \in 0..MaxPort :
          db.class[n] # None /\ x = db.slot[n][i] /\ x # None /\ InNetwork(db, x)
    BY <1>2 DEF Asks, AllNodes
  <2>2. x = <<n, i>> /\ Parent(x) = n
    <3>1. n[1] \notin {}
      OBVIOUS
    <3> QED
      BY <2>1, <3>1 DEF ScanDb, DbInv, SlotsRight
  <2>3. x \in PortObj /\ Exists(db, x)
    BY <2>1, <2>2, Ports DEF PortObj, Loose, Exists
  <2>4. n = <<n[1], 1>> /\ n[1] \in Device /\ (IsSwitchNode(db, n) <=> IsSwitch(n[1]))
        /\ (IsSwitch(n[1]) => <<n[1], 0>> \in EndPlace)
    BY <2>1, CopyFacts
  <2>5. PlaceOf(x) = <<n[1], i>> /\ PortEnd(x) = IF IsSwitch(n[1]) THEN <<n[1], 0>> ELSE <<n[1], i>>
    BY <2>2 DEF PlaceOf, PortEnd, ToEndPlace
  <2>6. PortEnd(x) \in EndPlace /\ HasRoute(db, PortEnd(x))
    <3>1. CASE IsSwitch(n[1])
      BY <2>1, <2>4, <2>5, <3>1 DEF HasRoute
    <3>2. CASE ~IsSwitch(n[1]) /\ db.guid[x] # None
      <4> PICK e : e = db.guid[x]
        OBVIOUS
      <4>1. e \in EndPlace /\ db.ports[e] = x /\ x # None
        BY <2>1, <2>3, <3>2 DEF ScanDb, DbInv, DbTypes, PortIndexRight
      <4>2. x = Place1(e)
        BY <4>1 DEF ScanDb, DbInv, PortIndexRight
      <4>3. e = <<e[1], e[2]>>
        BY <4>1, EndPlaceFacts
      <4>4. e = <<n[1], i>>
        BY <2>2, <4>2, <4>3 DEF Place1
      <4> QED
        BY <2>5, <3>2, <4>1, <4>4 DEF HasRoute
    <3>3. CASE ~IsSwitch(n[1]) /\ db.lid[x] # None
      <4>1. x = Place1(PlaceOf(x)) /\ PlaceOf(x) \in EndPlace
        <5>1. Parent(x)[1] \notin {}
          OBVIOUS
        <5> QED
          BY <2>3, <3>3, <5>1 DEF ScanDb, DbInv, LidsRight
      <4> QED
        BY <2>5, <3>3, <4>1 DEF HasRoute
    <3> QED
      BY <2>1, <2>2, <2>4, <3>1, <3>2, <3>3 DEF InNetwork
  <2>7. x[2] \in 0..MaxPort /\ CanAsk(db, stage, x)
    BY <1>2, <2>2, <2>3, <2>6 DEF CanAsk
  <2>8. ~db.lidRouted => db.paths[Place1(PortEnd(x))] # None
    BY <2>6 DEF ScanDb, Routable
  <2> QED
    BY <1>2, <2>7, <2>8 DEF Askful, AskedEnd
<1>3. CASE stage \notin {"swinf", "pinf"}
  BY <1>3 DEF Asks
<1> QED
  BY <1>1, <1>2, <1>3

(* A database that has only more loaded asks the same.                     *)
LEMMA AskfulStays ==
  ASSUME NEW db, NEW r, r.class = db.class, r.paths = db.paths, r.lidRouted = db.lidRouted, NEW stage, NEW x,
         Askful(db, stage, x)
  PROVE  Askful(r, stage, x)
BY DEF Askful, CanAsk, Exists

(* What comes after a scan, or after all SwitchInfos.                      *)
LEMMA GoesOnKeeps ==
  ASSUME SmpInv, NEW stage \in {"swinf", "pinf", "idle"}, GoesOnTo(stage),
         UNCHANGED <<table, tables>>, jobs' = {}, ScanDb(sbn'), sbn'.class = sbn.class, sbn'.paths = sbn.paths,
         sbn'.lidRouted = sbn.lidRouted, NotYet',
         stage # "idle" => TopoItems \subseteq sbn'.loaded
  PROVE  SmpInv'
<1>1. pc' = stage /\ rest' = Asks(stage, sbn)
  BY DEF GoesOnTo
<1>2. ScanMode' /\ ScanUse'
  BY <1>1 DEF SmpInv, ScanMode, ScanUse, Scanning
<1>3. AskUse'
  <2> PICK r : r = sbn'
    OBVIOUS
  <2>1. \A x \in rest' : Askful(r, stage, x)
    <3> SUFFICES ASSUME NEW x \in rest' PROVE Askful(r, stage, x)
      OBVIOUS
    <3>1. Askful(sbn, stage, x)
      BY <1>1, AsksFacts DEF SmpInv
    <3> QED
      BY <3>1, AskfulStays
  <2> QED
    BY <1>1, <2>1 DEF AskUse, Asking
<1> QED
  BY <1>2, <1>3 DEF SmpInv

(* The LID path that is made for an end port with a LID.                   *)
LEMMA RouteMade ==
  ASSUME NEW db, ScanDb(db), db.lidRouted, NEW e \in EndPlace, NEW p, p = Place1(e), Exists(db, p), ~NoRoute(db, p),
         NEW r, r = WithPath(db, p), NEW new, new = LidPathTo(Lid[e], p)
  PROVE  PutIs(db, p, new, r) /\ new.ep = p /\ new # None /\ PathName(db, p) = p
<1>1. ~HasPath(db, p) /\ db.lid[p] \notin {None, 0} /\ p \in PortObj /\ p \in PathObj
  BY DEF NoRoute, HasPath, Exists, PathObj
<1>2. db.lid[p] = Lid[e]
  <2>1. e = <<e[1], e[2]>>
    BY EndPlaceFacts
  <2>2. PlaceOf(p) = e /\ Parent(p)[1] \notin {}
    BY <2>1 DEF PlaceOf, Place1
  <2> QED
    BY <1>1, <2>2 DEF ScanDb, DbInv, LidsRight
<1>3. Lid[e] # 0 /\ Exists(db, Place1(e)) /\ new = LidPathTo(Lid[e], Place1(e))
  BY <1>1, <1>2
<1>4. new \in Path /\ PathRight(db, new) /\ new.ep = Place1(e)
  BY <1>3, LidPathRight
<1>5. get_path_smp(db, p) = new
  BY <1>1, <1>2 DEF get_path_smp, LidPathTo
<1> PICK path : path = [db.path EXCEPT ![p] = new]
  OBVIOUS
<1>6. r = [db EXCEPT !.path = path, !.paths = [db.paths EXCEPT ![p] = db.paths[p]]]
  BY <1>1, <1>5 DEF WithPath
<1>7. DbTypes(db)
  BY DEF ScanDb, DbInv
<1>8. [db.paths EXCEPT ![p] = db.paths[p]] = db.paths
  BY <1>7 DEF DbTypes
<1>9. r = [db EXCEPT !.path = path, !.paths = db.paths]
  BY <1>6, <1>8
<1>10. r = [db EXCEPT !.path = path]
  <2>1. DOMAIN db = DOMAIN EmptyDb
    BY <1>7 DEF DbTypes
  <2> QED
    BY <1>9, <2>1 DEF EmptyDb
<1>11. r = PathPut(db, p, new)
  BY <1>10 DEF PathPut
<1>12. PutIs(db, p, new, r)
  BY <1>1, <1>4, <1>11, PathPutIs
<1> QED
  BY <1>1, <1>4, <1>12, FixedNone DEF PathName

(* A question is sent.                                                     *)
AskSent(db, stage, x, p, r) ==
  /\ ScanDb(r) /\ r.loaded = db.loaded /\ r.class = db.class /\ r.paths = db.paths /\ r.lidRouted = db.lidRouted
  /\ \A j : j.path = PathName(db, p) /\ j.of = x => Asked(r, stage, j)
  /\ \A j : Asked(db, stage, j) => Asked(r, stage, j)

LEMMA AskSends ==
  ASSUME NEW db, ScanDb(db), NEW stage, NEW x, Askful(db, stage, x), NEW p, p = AskedEnd(stage, x),
         ~NoRoute(db, p), NEW r, r = WithPath(db, p)
  PROVE  AskSent(db, stage, x, p, r)
<1> PICK e : e = IF stage = "swinf" THEN <<x[1], 0>> ELSE PortEnd(x)
  OBVIOUS
<1>1. CanAsk(db, stage, x) /\ (~db.lidRouted => db.paths[p] # None)
  BY DEF Askful
<1>2. e \in EndPlace /\ p = Place1(e) /\ Exists(db, p)
  BY <1>1, AskedFacts
<1>3. CASE ~db.lidRouted
  <2>1. HasPath(db, p) /\ r = db /\ PathName(db, p) = db.paths[p]
    BY <1>1, <1>3 DEF HasPath, WithPath, PathName
  <2>2. Reached(db, db.paths[p]) /\ db.path[db.paths[p]].ep = p
    BY <1>1, <1>2, <1>3 DEF ScanDb, CacheRight, Exists
  <2> QED
    BY <1>1, <1>3, <2>1, <2>2 DEF AskSent, Asked
<1>4. CASE db.lidRouted
  <2> PICK new : new = LidPathTo(Lid[e], p)
    OBVIOUS
  <2>1. PutIs(db, p, new, r) /\ new.ep = p /\ new # None /\ PathName(db, p) = p
    BY <1>2, <1>4, RouteMade
  <2>2. /\ ScanDb(r) /\ r.loaded = db.loaded /\ r.class = db.class /\ r.paths = db.paths
        /\ r.lidRouted = db.lidRouted /\ r.path[p] = new
        /\ \A g \in PathObj : g # p => r.path[g] = db.path[g]
    BY <2>1 DEF PutIs, SameIndexes
  <2>3. \A y : CanAsk(db, stage, y) => CanAsk(r, stage, y)
    BY <2>2 DEF CanAsk, Exists
  <2>4. p \in PathObj /\ p # None
    BY <1>2, FixedNone DEF Exists, PathObj
  <2>5. Reached(r, p) /\ r.path[p].ep = p
    BY <1>2, <2>1, <2>2, <2>4 DEF Reached, Held
  <2>6. \A j : j.path = PathName(db, p) /\ j.of = x => Asked(r, stage, j)
    BY <1>1, <2>1, <2>3, <2>5 DEF Asked
  <2>7. ASSUME NEW j, Asked(db, stage, j) PROVE Asked(r, stage, j)
    <3>1. CanAsk(r, stage, j.of) /\ j.path = AskedEnd(stage, j.of) /\ Reached(db, j.path)
          /\ db.path[j.path].ep = AskedEnd(stage, j.of)
      BY <1>4, <2>3, <2>7 DEF Asked
    <3>2. CASE j.path = p
      BY <2>5, <3>1, <3>2 DEF Asked
    <3>3. CASE j.path # p
      <4>1. j.path \in PathObj /\ r.path[j.path] = db.path[j.path]
        BY <2>2, <3>1, <3>3 DEF Reached, Held
      <4> QED
        BY <3>1, <4>1 DEF Asked, Reached, Held
    <3> QED
      BY <3>2, <3>3
  <2> QED
    BY <2>2, <2>6, <2>7 DEF AskSent
<1> QED
  BY <1>3, <1>4

(* The end port a question after a scan is sent to.                        *)
LEMMA EndOfIs ==
  ASSUME SmpInv, Asking, NEW x \in rest
  PROVE  EndOf(x) = AskedEnd(pc, x) /\ Askful(sbn, pc, x)
<1>1. Askful(sbn, pc, x) /\ CanAsk(sbn, pc, x)
  BY DEF SmpInv, AskUse, Askful
<1>2. CASE pc = "swinf"
  BY <1>1, <1>2 DEF EndOf, AskedEnd
<1>3. CASE pc # "swinf"
  <2> PICK e : e = PortEnd(x)
    OBVIOUS
  <2>1. ScanDb(sbn) /\ e = IF pc = "swinf" THEN <<x[1], 0>> ELSE PortEnd(x)
    BY <1>3 DEF SmpInv
  <2>2. /\ AskedEnd(pc, x) = Place1(e) /\ Parent(Place1(e)) = Parent(x)
        /\ e[2] = EndIndex(sbn, Parent(x), x[2])
    BY <1>1, <1>3, <2>1, AskedFacts
  <2>3. EndOf(x) = <<Parent(x), EndIndex(sbn, Parent(x), x[2])>>
    BY <1>3 DEF EndOf
  <2> QED
    BY <1>1, <2>2, <2>3 DEF Place1, Parent
<1> QED
  BY <1>1, <1>2, <1>3

(* A step of the questions after a scan.                                   *)
LEMMA AskingStep ==
  ASSUME SmpInv, Asking, UNCHANGED <<pc, table, tables>>, ScanDb(sbn'), sbn'.loaded = sbn.loaded,
         \A x \in rest' : Askful(sbn', pc, x), \A j \in jobs' : Asked(sbn', pc, j)
  PROVE  SmpInv'
<1>1. TopoItems \subseteq sbn'.loaded
  BY DEF SmpInv, AskUse
<1>2. AskUse'
  BY <1>1 DEF AskUse
<1>3. ScanMode' /\ ScanUse' /\ NotYet'
  BY <1>1 DEF SmpInv, ScanMode, ScanUse, NotYet, Scanning, Asking
<1> QED
  BY <1>2, <1>3 DEF SmpInv

(* A question after a scan is asked.                                       *)
LEMMA AskKeeps ==
  ASSUME SmpInv, NEW x \in rest, Ask(x)
  PROVE  SmpInv'
<1>1. /\ Asking /\ UNCHANGED <<pc, table, tables>> /\ rest' \subseteq rest
      /\ \/ UNCHANGED <<sbn, jobs>>
         \/ /\ ~NoRoute(sbn, EndOf(x)) /\ sbn' = WithPath(sbn, EndOf(x))
            /\ jobs' = jobs \cup {[what |-> pc, of |-> x, path |-> PathName(sbn, EndOf(x))]}
  BY DEF Ask, loadVars
<1>2. ScanDb(sbn) /\ (\A y \in rest : Askful(sbn, pc, y)) /\ (\A j \in jobs : Asked(sbn, pc, j))
  BY <1>1 DEF SmpInv, AskUse
<1>3. CASE UNCHANGED <<sbn, jobs>>
  BY <1>1, <1>2, <1>3, AskingStep
<1>4. CASE /\ ~NoRoute(sbn, EndOf(x)) /\ sbn' = WithPath(sbn, EndOf(x))
           /\ jobs' = jobs \cup {[what |-> pc, of |-> x, path |-> PathName(sbn, EndOf(x))]}
  <2> PICK p : p = EndOf(x)
    OBVIOUS
  <2> PICK r : r = sbn'
    OBVIOUS
  <2> PICK new : new = [what |-> pc, of |-> x, path |-> PathName(sbn, p)]
    OBVIOUS
  <2>1. p = AskedEnd(pc, x) /\ Askful(sbn, pc, x)
    BY <1>1, EndOfIs
  <2>2. AskSent(sbn, pc, x, p, r)
    <3>1. ~NoRoute(sbn, p) /\ r = WithPath(sbn, p)
      BY <1>4
    <3> QED
      BY <1>2, <2>1, <3>1, AskSends
  <2>3. \A y \in rest' : Askful(r, pc, y)
    BY <1>1, <1>2, <2>2, AskfulStays DEF AskSent
  <2>4. Asked(r, pc, new)
    <3>1. new.path = PathName(sbn, p) /\ new.of = x
      OBVIOUS
    <3> QED
      BY <2>2, <3>1 DEF AskSent
  <2>5. \A j \in jobs' : Asked(r, pc, j)
    <3>1. \A j \in jobs' : j \in jobs \/ j = new
      BY <1>4
    <3>2. \A j \in jobs : Asked(r, pc, j)
      BY <1>2, <2>2 DEF AskSent
    <3> QED
      BY <2>4, <3>1, <3>2
  <2> QED
    BY <1>1, <2>2, <2>3, <2>5, AskingStep DEF AskSent
<1> QED
  BY <1>1, <1>3, <1>4

(* A SwitchInfo or a PortInfo that was asked for.                          *)
LEMMA SwinfScan ==
  ASSUME NEW db, ScanDb(db), NEW n \in NodeObj, NEW r, r = SwinfStored(db, n)
  PROVE  Later(db, r) /\ r.loaded = db.loaded /\ r.topology = db.topology
<1>1. /\ DbInv(r, {}) /\ SameIndexes(db, r) /\ r.pinf = db.pinf /\ r.topology = db.topology
      /\ r.loaded = db.loaded /\ r.path = db.path /\ r.paths = db.paths
  <2>1. DbInv(db, {})
    BY DEF ScanDb
  <2> QED
    BY <2>1, SwinfStoredKeeps
<1>2. TopoThere(r)
  BY <1>1 DEF ScanDb, TopoThere, Exists, SameIndexes
<1>3. ScanDb(r) /\ Grown(db, r)
  BY <1>1, <1>2, OthersScan DEF SameIndexes
<1> QED
  BY <1>1, <1>3 DEF Later, SameIndexes

(* What can be asked can still be as the database grows.                   *)
LEMMA CanAskStays ==
  ASSUME NEW db, ScanDb(db), NEW r, Grown(db, r), NEW stage, NEW x, CanAsk(db, stage, x)
  PROVE  CanAsk(r, stage, x) /\ AskedEnd(stage, x) \in PortObj
<1> PICK e : e = IF stage = "swinf" THEN <<x[1], 0>> ELSE PortEnd(x)
  OBVIOUS
<1>1. AskedEnd(stage, x) = Place1(e) /\ Exists(db, Place1(e)) /\ Parent(Place1(e)) = IF stage = "swinf" THEN x ELSE Parent(x)
  BY AskedFacts
<1>2. Exists(r, Place1(e))
  BY <1>1 DEF Grown
<1>3. stage # "swinf" => Exists(r, x)
  BY DEF CanAsk, Grown
<1> QED
  BY <1>1, <1>2, <1>3 DEF CanAsk, Exists

(* The questions stay right as the database grows.                         *)
LEMMA AnswerGrows ==
  ASSUME NEW db, ScanDb(db), NEW r, Grown(db, r), NEW stage
  PROVE  /\ \A x : Askful(db, stage, x) => Askful(r, stage, x)
         /\ \A j : Asked(db, stage, j) => Asked(r, stage, j)
<1>1. ASSUME NEW x, Askful(db, stage, x) PROVE Askful(r, stage, x)
  <2>1. CanAsk(r, stage, x) /\ AskedEnd(stage, x) \in PortObj
    BY <1>1, CanAskStays DEF Askful
  <2> QED
    BY <1>1, <2>1 DEF Askful, Grown
<1>2. ASSUME NEW j, Asked(db, stage, j) PROVE Asked(r, stage, j)
  <2> PICK x : x = j.of
    OBVIOUS
  <2> PICK h : h = j.path
    OBVIOUS
  <2>1. CanAsk(db, stage, x) /\ Reached(db, h) /\ db.path[h].ep = AskedEnd(stage, x)
        /\ (db.lidRouted => h = AskedEnd(stage, x))
    BY <1>2 DEF Asked
  <2>2. CanAsk(r, stage, x)
    BY <2>1, CanAskStays
  <2>3. Reached(r, h) /\ r.path[h].ep = db.path[h].ep /\ r.lidRouted = db.lidRouted
    BY <2>1, SMTT(30) DEF Grown
  <2> QED
    BY <2>1, <2>2, <2>3 DEF Asked
<1> QED
  BY <1>1, <1>2

(* The PortInfo asked for after a scan arrives.                            *)
LEMMA PinfAnswered ==
  ASSUME NEW db, ScanDb(db), NEW stage, stage # "swinf", NEW x, CanAsk(db, stage, x), NEW h, Reached(db, h),
         db.path[h].ep = AskedEnd(stage, x),
         NEW w, w = <<LeadsTo(db.path[h])[1], x[2]>>,
         NEW np, np = get_port_pinf(db, w, w[2], PinfLid(w), Over(w, h))
  PROVE  ScanDb(np.db) /\ Grown(db, np.db) /\ np.db.loaded = db.loaded /\ np.db.topology = db.topology
<1> PICK v : v = LeadsTo(db.path[h])
  OBVIOUS
<1> PICK e : e = PortEnd(x)
  OBVIOUS
<1>1. e \in EndPlace /\ AskedEnd(stage, x) = Place1(e) /\ e[1] = PlaceOf(x)[1] /\ x = Place1(PlaceOf(x))
  <2>1. e = IF stage = "swinf" THEN <<x[1], 0>> ELSE PortEnd(x)
    OBVIOUS
  <2> QED
    BY <2>1, AskedFacts
<1>2. v \in Spot /\ db.path[h].ep = Place1(ToEndPlace(v))
  BY ReachedFacts
<1>3. ToEndPlace(v) \in EndPlace /\ ToEndPlace(v)[1] = v[1]
  BY <1>2, SpotFacts
<1>4. e = ToEndPlace(v)
  <2>1. e = <<e[1], e[2]>> /\ ToEndPlace(v) = <<ToEndPlace(v)[1], ToEndPlace(v)[2]>>
    BY <1>1, <1>3, EndPlaceFacts
  <2>2. Place1(e) = Place1(ToEndPlace(v))
    BY <1>1, <1>2
  <2> QED
    BY <2>1, <2>2 DEF Place1
<1>5. x[2] \in 0..MaxPort
  BY DEF CanAsk
<1>6. PlaceOf(x) = <<v[1], x[2]>>
  BY <1>1, <1>3, <1>4 DEF PlaceOf, Place1
<1>7. w = PlaceOf(x) /\ ToEndPlace(w) = e
  BY <1>6 DEF PortEnd
<1>8. w[1] = v[1] /\ w[2] = x[2]
  OBVIOUS
<1> PICK lid : lid = PinfLid(w)
  OBVIOUS
<1>9. lid \in {0, Lid[e]}
  BY <1>7 DEF PinfLid
<1> PICK a : a = Over(w, h)
  OBVIOUS
<1>10. InfoGot(db, h, w, e, np)
  <2>1. v = LeadsTo(db.path[h]) /\ w[1] = v[1] /\ w[2] \in 0..MaxPort /\ e = ToEndPlace(w) /\ e = ToEndPlace(v)
        /\ a = Over(w, h) /\ lid \in {0, Lid[e]} /\ np = get_port_pinf(db, w, w[2], lid, a)
    BY <1>4, <1>5, <1>7, <1>8, <1>9
  <2> QED
    BY <2>1, PortArrives
<1> QED
  BY <1>10, ZenonT(30) DEF InfoGot, PathGot

(* What an answer leaves in the database.                                  *)
LEMMA AnswerStores ==
  ASSUME SmpInv, NEW j \in jobs, Answer(j)
  PROVE  ScanDb(sbn') /\ Grown(sbn, sbn') /\ sbn'.loaded = sbn.loaded /\ sbn'.topology = sbn.topology
<1> PICK x : x = j.of
  OBVIOUS
<1> PICK h : h = j.path
  OBVIOUS
<1> PICK w : w = <<LeadsTo(sbn.path[h])[1], x[2]>>
  OBVIOUS
<1> PICK np : np = get_port_pinf(sbn, w, w[2], PinfLid(w), Over(w, h))
  OBVIOUS
<1> PICK r : r = sbn'
  OBVIOUS
<1>1. Asking /\ r = IF pc = "swinf" THEN SwinfStored(sbn, x) ELSE np.db
  BY DEF Answer, SwinfStored, PinfAnswer, Over
<1>2. ScanDb(sbn) /\ CanAsk(sbn, pc, x) /\ Reached(sbn, h) /\ sbn.path[h].ep = AskedEnd(pc, x)
  BY <1>1 DEF SmpInv, AskUse, Asked
<1>3. CASE pc = "swinf"
  <2>1. x \in NodeObj /\ r = SwinfStored(sbn, x)
    BY <1>1, <1>2, <1>3, SMTT(30) DEF CanAsk
  <2> QED
    BY <1>2, <2>1, SwinfScan DEF Later
<1>4. CASE pc # "swinf"
  <2>1. ScanDb(np.db) /\ Grown(sbn, np.db) /\ np.db.loaded = sbn.loaded /\ np.db.topology = sbn.topology
    BY <1>2, <1>4, PinfAnswered, SMTT(30)
  <2> QED
    BY <1>1, <1>4, <2>1, ZenonT(30)
<1> QED
  BY <1>3, <1>4

(* A question after a scan is answered.                                    *)
LEMMA AnswerKeeps ==
  ASSUME SmpInv, NEW j \in jobs, Answer(j)
  PROVE  SmpInv'
<1>1. Asking /\ UNCHANGED <<pc, table, tables, rest>> /\ jobs' \subseteq jobs
  BY DEF Answer, loadVars, saVars
<1>2. ScanDb(sbn) /\ (\A y \in rest : Askful(sbn, pc, y)) /\ (\A i \in jobs : Asked(sbn, pc, i))
  BY <1>1 DEF SmpInv, AskUse
<1>3. ScanDb(sbn') /\ Grown(sbn, sbn') /\ sbn'.loaded = sbn.loaded
  BY AnswerStores
<1>4. (\A y \in rest' : Askful(sbn', pc, y)) /\ (\A i \in jobs' : Asked(sbn', pc, i))
  BY <1>1, <1>2, <1>3, AnswerGrows
<1> QED
  BY <1>1, <1>3, <1>4, AskingStep

-----------------------------------------------------------------------------
(* The ends of scans and of their questions.                               *)
LEMMA LoadedScan ==
  ASSUME NEW db, ScanDb(db), NEW S, NEW r, r = [db EXCEPT !.loaded = S]
  PROVE  ScanDb(r) /\ SameIndexes(db, r) /\ r.loaded = S /\ r.paths = db.paths
<1>1. /\ DbInv(r, {}) /\ SameIndexes(db, r)
      /\ r.topology = db.topology /\ r.loaded = S /\ r.path = db.path /\ r.paths = db.paths
  <2>1. DbInv(db, {})
    BY DEF ScanDb
  <2> QED
    BY <2>1, LoadedKeeps
<1>2. TopoThere(r)
  BY <1>1 DEF ScanDb, TopoThere, Exists, SameIndexes
<1>3. ScanDb(r)
  BY <1>1, <1>2, OthersScan DEF SameIndexes
<1> QED
  BY <1>1, <1>3

(* A scan ends.                                                            *)
LEMMA ScanEndsKeeps ==
  ASSUME SmpInv, ScanEnds
  PROVE  SmpInv'
<1> PICK stage \in {"swinf", "pinf", "idle"} : stage = Stage(stuff, "scan")
  BY StageFacts
<1>1. /\ GoesOnTo(stage) /\ UNCHANGED <<sbn, table, tables>> /\ jobs = {} /\ jobs' = {} /\ Scanning
  BY DEF ScanEnds, NoScan
<1>2. TopoItems \subseteq sbn.loaded
  BY <1>1 DEF SmpInv, NotYet
<1>3. NotYet'
  BY <1>1, <1>2 DEF NotYet
<1> QED
  BY <1>1, <1>2, <1>3, GoesOnKeeps DEF SmpInv

(* All questions of a kind have been answered.                             *)
LEMMA AskEndsKeeps ==
  ASSUME SmpInv, AskEnds
  PROVE  SmpInv'
<1> PICK stage \in {"swinf", "pinf", "idle"} : stage = Stage(stuff, pc)
  BY StageFacts
<1> PICK S : S = sbn.loaded \cup (IF pc = "pinf" THEN {"all_PortInfo", "all_LIDs"} ELSE {"all_SwitchInfo"})
  OBVIOUS
<1>1. /\ GoesOnTo(stage) /\ UNCHANGED <<table, tables>> /\ jobs' = {} /\ Asking
      /\ sbn' = [sbn EXCEPT !.loaded = S]
  <2>1. sbn' = [sbn EXCEPT !.loaded = sbn.loaded \cup IF pc = "pinf" THEN {"all_PortInfo", "all_LIDs"}
                                                                     ELSE {"all_SwitchInfo"}]
    BY DEF AskEnds
  <2> QED
    BY <2>1 DEF AskEnds, scanVars
<1> PICK r : r = sbn'
  OBVIOUS
<1>2. ScanDb(r) /\ SameIndexes(sbn, r) /\ r.loaded = S /\ r.paths = sbn.paths
  BY <1>1, LoadedScan DEF SmpInv
<1>3. TopoItems \subseteq r.loaded
  BY <1>1, <1>2 DEF SmpInv, AskUse
<1>4. NotYet'
  BY <1>3 DEF NotYet
<1> QED
  BY <1>1, <1>2, <1>3, <1>4, GoesOnKeeps DEF SameIndexes

(* What comes after a scan needs the nodes, so there was a scan before.    *)
LEMMA LoadMoreKeeps ==
  ASSUME SmpInv, ScanInv, ~useSA, NEW S, LoadMore(S)
  PROVE  SmpInv'
<1> PICK W : W = Wanted(S)
  OBVIOUS
<1> PICK stage \in {"swinf", "pinf", "idle"} : stage = Stage(W, "scan")
  BY StageFacts
<1>1. /\ GoesOnTo(stage) /\ UNCHANGED <<sbn, table, tables, jobs>> /\ pc = "idle"
      /\ W \cap TopoItems = {}
  BY DEF LoadMore, scanVars
<1>2. jobs' = {}
  BY <1>1 DEF ScanInv, Quiet, Scanning, Asking
<1>3. stage # "idle" => W \cap {"all_SwitchInfo", "all_PortInfo"} # {}
  BY DEF Stage
<1>4. stage # "idle" => "all_NodeInfo" \in Implied(S)
  BY <1>3 DEF Wanted, Implied
<1>5. stage # "idle" => "all_NodeInfo" \in sbn.loaded
  BY <1>1, <1>4 DEF Wanted, TopoItems
<1>6. stage # "idle" => TopoItems \subseteq sbn.loaded
  BY <1>5 DEF SmpInv, NotYet, TopoItems
<1>7. pc' = stage
  BY <1>1 DEF GoesOnTo
<1>8. NotYet'
  BY <1>1, <1>6, <1>7 DEF SmpInv, NotYet, Scanning
<1> QED
  BY <1>1, <1>2, <1>6, <1>8, GoesOnKeeps DEF SmpInv

(* A timeout ends the load.                                                *)
LEMMA RaisesKeeps ==
  ASSUME SmpInv, ScanRaises
  PROVE  SmpInv'
<1>1. pc' = "idle" /\ UNCHANGED <<sbn, table, tables>>
  BY DEF ScanRaises, Ends
<1>2. ScanMode' /\ ScanUse' /\ AskUse'
  BY <1>1 DEF SmpInv, ScanMode, ScanUse, AskUse, Scanning, Asking
<1>3. NotYet'
  BY <1>1 DEF SmpInv, NotYet, Scanning
<1> QED
  BY <1>1, <1>2, <1>3 DEF SmpInv

(* A step that changes none of it.                                         *)
LEMMA SmpSame ==
  ASSUME SmpInv, UNCHANGED <<sbn, pc, saVars, scanVars>>
  PROVE  SmpInv'
<1>1. UNCHANGED <<sbn, pc, table, tables, rest, todo, ctx, jobs>>
  BY DEF saVars, scanVars
<1>2. ScanMode' /\ ScanUse'
  BY <1>1 DEF SmpInv, ScanMode, ScanUse, Scanning
<1>3. AskUse' /\ NotYet'
  BY <1>1 DEF SmpInv, AskUse, NotYet, Scanning, Asking
<1> QED
  BY <1>1, <1>2, <1>3 DEF SmpInv

(* Every step keeps the database of scans right.                           *)
LEMMA SmpNext ==
  ASSUME ~useSA, SmpInv, ScanInv, [Next]_vars
  PROVE  SmpInv' /\ useSA' = useSA
<1>1. pc \in {"idle", "scan", "swinf", "pinf"} /\ table = None /\ tables = {}
  BY DEF SmpInv, ScanMode
<1>2. CASE UNCHANGED vars
  BY <1>2, SmpSame DEF vars, loadVars
<1>3. ASSUME NEW S \in Items, StartScan(S) PROVE SmpInv' /\ useSA' = useSA
  BY <1>3, StartKeeps DEF StartScan
<1>4. ASSUME NEW S \in Items, LoadMore(S) PROVE SmpInv' /\ useSA' = useSA
  BY <1>4, LoadMoreKeeps DEF LoadMore
<1>5. ASSUME NEW S \in Items, LoadNothing(S) PROVE SmpInv' /\ useSA' = useSA
  BY <1>5, SmpSame DEF LoadNothing
<1>6. ASSUME NEW j \in jobs, Reply(j) PROVE SmpInv' /\ useSA' = useSA
  BY <1>6, ReplyKeepsAll DEF Reply, loadVars
<1>7. ASSUME NEW c \in Ctx, Todo(c) PROVE SmpInv' /\ useSA' = useSA
  <2>1. useSA' = useSA
    BY <1>7, ZenonT(30) DEF Todo, TodoCheck, TodoWoken, TodoNode, TodoPorts, TodoPort, TodoEmpty, loadVars
  <2> QED
    BY <1>7, <2>1, TodoKeepsAll, SMTT(30) DEF ScanInv
<1>8. ASSUME NEW x \in rest, Ask(x) PROVE SmpInv' /\ useSA' = useSA
  BY <1>8, AskKeeps DEF Ask, loadVars
<1>9. ASSUME NEW j \in jobs, Answer(j) PROVE SmpInv' /\ useSA' = useSA
  BY <1>9, AnswerKeeps DEF Answer, loadVars
<1>10. CASE ScanEnds
  BY <1>10, ScanEndsKeeps DEF ScanEnds
<1>11. CASE AskEnds
  BY <1>11, AskEndsKeeps DEF AskEnds
<1>12. CASE ScanRaises
  BY <1>12, RaisesKeeps DEF ScanRaises, Ends
<1>13. /\ \A S \in Items : ~LoadSA(S)
       /\ \A t \in tables : ~SAReply(t)
       /\ \A w \in rest : ~SAStore(w) /\ ~SAStoreFails(w)
       /\ ~SAStored /\ ~SANext /\ ~SAQueryFails
  BY <1>1 DEF LoadSA, SAReply, SAStore, SAStoreFails, SAStored, SANext, SAQueryFails
<1> QED
  BY <1>2, <1>3, <1>4, <1>5, <1>6, <1>7, <1>8, <1>9, <1>10, <1>11, <1>12, <1>13 DEF Next

-----------------------------------------------------------------------------
(* The empty database.                                                     *)
LEMMA EmptyTypes ==
  ASSUME NEW routed \in BOOLEAN, NEW db, db = [EmptyDb EXCEPT !.lidRouted = routed]
  PROVE  DbTypes(db)
<1>1. /\ DOMAIN db = DOMAIN EmptyDb
      /\ db.class = [n \in NodeObj |-> None] /\ db.ninf = {} /\ db.swinf = {} /\ db.pinf = {}
      /\ db.slot = [n \in NodeObj |-> [i \in 0..MaxPort |-> None]]
      /\ db.guid = [p \in PortObj |-> None] /\ db.lid = [p \in PortObj |-> None]
      /\ db.nodes = [d \in Device |-> None] /\ db.ports = [e \in EndPlace |-> None]
      /\ db.lids = [l \in LIDs |-> None] /\ db.topology = [p \in PortObj |-> None]
      /\ db.path = [h \in PathObj |-> None] /\ db.paths = [p \in PortObj |-> None]
      /\ db.lidRouted = routed
  BY DEF EmptyDb
<1> QED
  BY <1>1 DEF DbTypes

Unfilled(db) ==
  /\ \A n \in NodeObj : db.class[n] = None
  /\ \A n \in NodeObj, i \in 0..MaxPort : db.slot[n][i] = None
  /\ \A p \in PortObj : db.guid[p] = None /\ db.lid[p] = None /\ db.topology[p] = None /\ db.paths[p] = None
  /\ \A d \in Device : db.nodes[d] = None
  /\ \A e \in EndPlace : db.ports[e] = None
  /\ \A l \in LIDs : db.lids[l] = None
  /\ \A h \in PathObj : db.path[h] = None
  /\ db.ninf = {} /\ db.loaded = {}
(* The empty database holds nothing.                                       *)
LEMMA EmptyFields ==
  ASSUME NEW routed \in BOOLEAN, NEW db, db = [EmptyDb EXCEPT !.lidRouted = routed]
  PROVE  Unfilled(db)
BY DEF EmptyDb, Unfilled

(* The empty database is right, for the SA and for scans.                  *)
LEMMA EmptyRight ==
  ASSUME NEW routed \in BOOLEAN, NEW db, db = [EmptyDb EXCEPT !.lidRouted = routed]
  PROVE  /\ SaDb(db) /\ ScanDb(db) /\ db.loaded = {} /\ \A n \in NodeObj : db.class[n] = None
<1>1. DbTypes(db)
  BY EmptyTypes
<1>0. Unfilled(db)
  BY EmptyFields
<1>2. /\ \A n \in NodeObj : db.class[n] = None
      /\ \A n \in NodeObj, i \in 0..MaxPort : db.slot[n][i] = None
      /\ \A p \in PortObj : db.guid[p] = None /\ db.lid[p] = None /\ db.topology[p] = None /\ db.paths[p] = None
      /\ \A d \in Device : db.nodes[d] = None
      /\ \A e \in EndPlace : db.ports[e] = None
      /\ \A l \in LIDs : db.lids[l] = None
      /\ \A h \in PathObj : db.path[h] = None
      /\ db.ninf = {} /\ db.loaded = {}
  BY <1>0 DEF Unfilled
<1>3. ASSUME NEW L PROVE DbInv(db, L)
  <2>1. NodesRight(db, L) /\ NodeIndexRight(db, L) /\ SlotsRight(db, L)
    BY <1>2 DEF NodesRight, NodeIndexRight, SlotsRight
  <2>2. PortIndexRight(db, L) /\ LidIndexRight(db, L) /\ LidsRight(db, L)
    BY <1>2 DEF PortIndexRight, LidIndexRight, LidsRight
  <2> QED
    BY <1>1, <2>1, <2>2 DEF DbInv
<1>4. \A d \in Device : <<d, 1>> \in NodeObj
  BY FabricAssumption DEF NodeObj, FabricAssumption
<1>5. \A e \in EndPlace : <<e[1], 1>> \in NodeObj /\ Place1(e) \in PortObj
  BY <1>4, EndPlaceFacts, EndPorts, Ports DEF PortObj, Loose, Place1
<1>6. SaDb(db)
  <2>1. TopoTrue(db, Late)
    BY <1>2 DEF TopoTrue
  <2>2. \A e \in EndPlace : db.class[<<e[1], 1>>] = None
    BY <1>2, <1>5, ZenonT(30)
  <2>3. \A d \in Device : db.class[<<d, 1>>] = None
    BY <1>2, <1>4, ZenonT(30)
  <2> QED
    BY <1>2, <1>3, <2>1, <2>2, <2>3 DEF SaDb
<1>7. ScanDb(db)
  <2>1. AllSeen(db) /\ TopoThere(db) /\ PathsRight(db) /\ CacheRight(db)
    BY <1>2 DEF AllSeen, TopoThere, PathsRight, CacheRight
  <2>2. \A e \in EndPlace : ~HasRoute(db, e)
    BY <1>2, <1>5, ZenonT(30) DEF HasRoute
  <2> QED
    BY <1>3, <2>1, <2>2 DEF ScanDb, Routable
<1> QED
  BY <1>2, <1>6, <1>7

-----------------------------------------------------------------------------
(* The database in every run.                                              *)
DbRight == IF useSA THEN SingleLate => TablesInv ELSE SmpInv

LEMMA DbInit ==
  ASSUME Init
  PROVE  DbRight
<1>1. /\ pc = "idle" /\ tables = {} /\ table = None /\ useSA \in BOOLEAN /\ jobs = {}
      /\ \A c \in Ctx : ctx[c].pc = "none"
  BY DEF Init, NoCtx
<1> PICK routed \in BOOLEAN : sbn = [EmptyDb EXCEPT !.lidRouted = routed]
  BY DiscoveryAssumption DEF Init, DiscoveryAssumption
<1>2. SaDb(sbn) /\ ScanDb(sbn) /\ sbn.loaded = {} /\ \A n \in NodeObj : sbn.class[n] = None
  BY EmptyRight
<1>3. TablesInv
  BY <1>1, <1>2 DEF TablesInv
<1>4. SmpInv
  BY <1>1, <1>2 DEF SmpInv, ScanMode, ScanUse, AskUse, NotYet, Scanning, Asking
<1> QED
  BY <1>3, <1>4 DEF DbRight

(* Every step keeps the database right.                                    *)
LEMMA DbNext ==
  ASSUME DbRight, ScanInv, [Next]_vars
  PROVE  DbRight'
<1>1. CASE ~useSA
  BY <1>1, SmpNext DEF DbRight
<1>2. CASE useSA /\ SingleLate
  <2>1. TablesInv /\ Storing
    BY <1>2 DEF DbRight, ScanInv
  <2>2. TablesInv' /\ useSA' = useSA
    BY <1>2, <2>1, TablesNext, ZenonT(30)
  <2> QED
    BY <1>2, <2>2 DEF DbRight
<1>3. CASE useSA /\ ~SingleLate
  <2>1. useSA' = useSA
    <3>1. CASE UNCHANGED vars
      BY <3>1 DEF vars, loadVars
    <3>2. ASSUME NEW S, LoadSA(S) \/ StartScan(S) \/ LoadMore(S) \/ LoadNothing(S) PROVE useSA' = useSA
      BY <3>2 DEF LoadSA, StartScan, LoadMore, LoadNothing
    <3>3. ASSUME NEW t, SAReply(t) PROVE useSA' = useSA
      BY <3>3 DEF SAReply, loadVars
    <3>4. ASSUME NEW w, SAStore(w) \/ SAStoreFails(w) PROVE useSA' = useSA
      BY <3>4 DEF SAStore, SAStoreFails, SARaises, Ends, loadVars
    <3>5. CASE SAStored \/ SANext \/ SAQueryFails
      BY <3>5 DEF SAStored, SANext, SAQueryFails, SARaises, Ends, loadVars
    <3>6. ASSUME NEW j, Reply(j) \/ Answer(j) PROVE useSA' = useSA
      BY <3>6, SMTT(30) DEF Reply, Answer, loadVars
    <3>7. ASSUME NEW c, Todo(c) PROVE useSA' = useSA
      BY <3>7, ZenonT(30) DEF Todo, TodoCheck, TodoWoken, TodoNode, TodoPorts, TodoPort, TodoEmpty, loadVars
    <3>8. ASSUME NEW x, Ask(x) PROVE useSA' = useSA
      BY <3>8 DEF Ask, loadVars
    <3>9. CASE ScanEnds \/ AskEnds \/ ScanRaises
      BY <3>9 DEF ScanEnds, AskEnds, ScanRaises, Ends
    <3> QED
      BY <3>1, <3>2, <3>3, <3>4, <3>5, <3>6, <3>7, <3>8, <3>9 DEF Next
  <2> QED
    BY <1>3, <2>1 DEF DbRight
<1> QED
  BY <1>1, <1>2, <1>3

(* In whatever order facts arrive the database is right: of the SA as far  *)
(* as its tables go (TablesInv), in a scan with all its work (SmpInv).     *)
THEOREM DatabaseIsRight == Spec => []DbRight
<1>1. Init => DbRight
  BY DbInit
<1>2. DbRight /\ ScanInv /\ [Next]_vars => DbRight'
  BY DbNext
<1> QED
  BY <1>1, <1>2, ScanIsOrderly, PTL DEF Spec

-----------------------------------------------------------------------------
(* What a right database is good for.                                      *)
LEMMA RightHolds ==
  ASSUME useSA => SingleLate, DbRight
  PROVE  \E L : DbInv(sbn, L)
<1>1. CASE useSA
  BY <1>1 DEF DbRight, TablesInv, SaDb
<1>2. CASE ~useSA
  BY <1>2 DEF DbRight, SmpInv, ScanDb
<1> QED
  BY <1>1, <1>2

(* TypeOK: class Subnet's tables hold objects of their kind, and no more   *)
(* requests are in flight than the window takes.                           *)
THEOREM TypesAreOK == Spec => []((useSA => SingleLate) => TypeOK)
<1>1. ScanInv /\ DbRight => ((useSA => SingleLate) => TypeOK)
  <2> SUFFICES ASSUME ScanInv, DbRight, useSA => SingleLate PROVE TypeOK
    OBVIOUS
  <2>1. DbTypes(sbn)
    BY RightHolds DEF DbInv
  <2>2. pc \in {"idle", "sa", "sa2", "scan", "swinf", "pinf"}
    BY DEF DbRight, TablesInv, SmpInv, ScanMode
  <2>3. Cardinality(jobs) <= Window
    BY DEF ScanInv, Windowed
  <2> QED
    BY <2>1, <2>2, <2>3 DEF TypeOK, DbTypes
<1> QED
  BY <1>1, ScanIsOrderly, DatabaseIsRight, PTL

(* A right database has indexes that agree.                                *)
LEMMA IndexesOf ==
  ASSUME NEW L, DbInv(sbn, L)
  PROVE  IndexesAgree
<1>1. ASSUME NEW d \in Device, sbn.nodes[d] # None
      PROVE  sbn.nodes[d][1] = d /\ sbn.class[sbn.nodes[d]] = Kind[d]
  <2>1. sbn.nodes[d] = <<d, 1>> /\ sbn.class[<<d, 1>>] # None /\ d \notin L
    BY <1>1 DEF DbInv, NodeIndexRight
  <2>2. <<d, 1>> \in NodeObj /\ <<d, 1>>[1] = d
    BY FabricAssumption DEF NodeObj, FabricAssumption
  <2> QED
    BY <2>1, <2>2 DEF DbInv, NodesRight
<1>2. ASSUME NEW p, Listed1(sbn, p) PROVE Listed(p)
  BY <1>2 DEF Listed1, Listed
<1>3. ASSUME NEW e \in EndPlace, sbn.ports[e] # None
      PROVE  PlaceOf(sbn.ports[e]) = e /\ sbn.guid[sbn.ports[e]] = e /\ Listed(sbn.ports[e])
  <2>1. sbn.ports[e] = Place1(e) /\ sbn.guid[Place1(e)] = e /\ Listed1(sbn, Place1(e))
    BY <1>3 DEF DbInv, PortIndexRight
  <2>2. PlaceOf(Place1(e)) = e
    BY EndPlaceFacts DEF PlaceOf, Place1
  <2> QED
    BY <1>2, <2>1, <2>2
<1>4. ASSUME NEW l \in LIDs, NEW p, p = sbn.lids[l], p # None
      PROVE  /\ PlaceAtLid(l) # None /\ Parent(p)[1] = PlaceAtLid(l)[1]
             /\ Parent(p) \in sbn.ninf => PlaceOf(p) = PlaceAtLid(l) /\ Listed(p)
  <2>1. /\ PlaceAtLid(l) # None /\ Exists(sbn, p) /\ Parent(p)[1] = PlaceAtLid(l)[1]
        /\ Parent(p)[1] \notin L => p = Place1(PlaceAtLid(l)) /\ Listed1(sbn, p)
    BY <1>4 DEF DbInv, LidIndexRight
  <2>2. ASSUME Parent(p) \in sbn.ninf PROVE PlaceOf(p) = PlaceAtLid(l) /\ Listed(p)
    <3> PICK n : n = Parent(p)
      OBVIOUS
    <3>1. n \in NodeObj /\ n[1] \in Device /\ sbn.nodes[n[1]] = n
      BY <2>2 DEF DbInv, DbTypes, NodeIndexRight, NodeObj
    <3>2. n # None
      BY <3>1, FixedNone
    <3>3. n[1] \notin L
      BY <3>1, <3>2 DEF DbInv, NodeIndexRight
    <3>4. p = Place1(PlaceAtLid(l)) /\ Listed(p)
      BY <1>2, <2>1, <3>3
    <3>5. PlaceAtLid(l) \in EndPlace
      BY <2>1 DEF PlaceAtLid
    <3>6. PlaceOf(Place1(PlaceAtLid(l))) = PlaceAtLid(l)
      BY <3>5, EndPlaceFacts DEF PlaceOf, Place1
    <3> QED
      BY <3>4, <3>6
  <2> QED
    BY <2>1, <2>2
<1> QED
  BY <1>1, <1>3, <1>4 DEF IndexesAgree

(* IndexesAgree: GUID and LID lead to the object of the one device they    *)
(* are about (subnet.py:427-624).                                          *)
THEOREM IndexesAlwaysAgree == Spec => []((useSA => SingleLate) => IndexesAgree)
<1>1. DbRight => ((useSA => SingleLate) => IndexesAgree)
  BY RightHolds, IndexesOf
<1> QED
  BY <1>1, DatabaseIsRight, PTL

(* OneNodePerDevice: with SMPs, whatever is learned first, by path or by   *)
(* GUID, get_node and get_port (subnet.py:535-624) make one Node of a      *)
(* device.  With an SA that holds under SingleLate, which leaves out the   *)
(* devices OneNodePerDevice excepts: so m = n is what is proved.           *)
THEOREM NodesAreUnique == Spec => []((useSA => SingleLate) => OneNodePerDevice)
<1>1. DbRight => ((useSA => SingleLate) => OneNodePerDevice)
  <2> SUFFICES ASSUME DbRight, useSA => SingleLate, NEW m \in AllNodes(sbn), NEW n \in AllNodes(sbn), m[1] = n[1] PROVE m = n
    BY DEF OneNodePerDevice
  <2>1. PICK L : DbInv(sbn, L)
    BY RightHolds
  <2>2. m[2] = 1 /\ n[2] = 1
    BY <2>1 DEF DbInv, NodesRight, AllNodes
  <2>3. m = <<m[1], m[2]>> /\ n = <<n[1], n[2]>>
    BY DEF AllNodes, NodeObj
  <2> QED
    BY <2>2, <2>3
<1> QED
  BY <1>1, DatabaseIsRight, PTL

(* PathsLeadThere: a path leads to the end port it is cached for, also when *)
(* do_port (discovery.py:299-310) has changed it under other coroutines.   *)
THEOREM PathsAreRight == Spec => []((useSA => SingleLate) => PathsLeadThere)
<1>1. DbRight => ((useSA => SingleLate) => PathsLeadThere)
  <2> SUFFICES ASSUME DbRight, useSA => SingleLate, NEW h \in PathObj, NEW path, path = sbn.path[h], path # None, path.ep # None
               PROVE  LeadsTo(path) # None /\ ToEndPlace(LeadsTo(path)) = PlaceOf(path.ep)
    BY DEF PathsLeadThere
  <2>1. CASE useSA
    BY <2>1 DEF DbRight, TablesInv, SaDb
  <2>2. CASE ~useSA
    <3>1. ScanDb(sbn)
      BY <2>2 DEF DbRight, SmpInv
    <3>2. PathRight(sbn, path) /\ path \in Path
      BY <3>1 DEF ScanDb, PathsRight, DbInv, DbTypes
    <3>3. LeadsTo(path) # None /\ path.ep = Place1(ToEndPlace(LeadsTo(path)))
      BY <3>2 DEF PathRight
    <3>4. LeadsTo(path) \in Spot \cup {None}
      BY <3>2, LeadsToFacts
    <3> PICK v : v = LeadsTo(path)
      OBVIOUS
    <3>5. ToEndPlace(v) \in EndPlace
      BY <3>3, <3>4, SpotFacts
    <3>6. PlaceOf(Place1(ToEndPlace(v))) = ToEndPlace(v)
      BY <3>5, EndPlaceFacts DEF PlaceOf, Place1
    <3> QED
      BY <3>3, <3>6
  <2> QED
    BY <2>1, <2>2
<1> QED
  BY <1>1, DatabaseIsRight, PTL

(* From the SA the topology is what the cables are.                        *)
THEOREM TablesAreTrue == Spec => [](useSA /\ SingleLate => TopologyIsTrue)
<1>1. DbRight => (useSA /\ SingleLate => TopologyIsTrue)
  <2> SUFFICES ASSUME DbRight, useSA, SingleLate, NEW p \in PortObj, NEW q, q = sbn.topology[p], q # None,
                      Parent(p) \in sbn.ninf, Parent(q) \in sbn.ninf
               PROVE  /\ sbn.topology[q] = p
                      /\ PlaceOf(p) \in DOMAIN Link /\ Link[PlaceOf(p)] = PlaceOf(q)
    BY DEF TopologyIsTrue
  <2>1. SaDb(sbn)
    BY DEF DbRight, TablesInv
  <2>2. ASSUME NEW n \in sbn.ninf PROVE n[1] \notin Late
    <3>1. n \in NodeObj /\ n[1] \in Device /\ sbn.nodes[n[1]] = n /\ n # None
      BY <2>1, FixedNone DEF SaDb, DbInv, DbTypes, NodeIndexRight, NodeObj
    <3> QED
      BY <2>1, <3>1 DEF SaDb, DbInv, NodeIndexRight
  <2>3. sbn.topology[q] = p /\ PlaceOf(p) \in DOMAIN Link /\ q = Place1(Link[PlaceOf(p)])
    BY <2>1, <2>2 DEF SaDb, TopoTrue
  <2>4. Link[PlaceOf(p)] \in Place
    BY <2>3, FabricAssumption DEF FabricAssumption
  <2>5. Link[PlaceOf(p)] = <<Link[PlaceOf(p)][1], Link[PlaceOf(p)][2]>>
    BY <2>4, PlaceFacts
  <2>6. PlaceOf(q) = Link[PlaceOf(p)]
    BY <2>3, <2>5 DEF PlaceOf, Place1
  <2> QED
    BY <2>3, <2>6
<1> QED
  BY <1>1, DatabaseIsRight, PTL
=============================================================================
