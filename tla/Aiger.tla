-------------------------------- MODULE Aiger --------------------------------
(***************************************************************************)
(* aiger.hh: an and-inverter graph that is built from BDDs.                *)
(*                                                                         *)
(* BDD variables are numbers; a valuation is the set of the variables that *)
(* are true, and a BDD over the variables V is the set of the valuations   *)
(* that satisfy it, a subset of SUBSET V.                                  *)
(***************************************************************************)
EXTENDS Integers, Sequences, SequencesExt, FiniteSets

Not(V, f) == (SUBSET V) \ f

Exist(f, C) == {x \ C : x \in f}

(* bdd_restrict with the variable b, and with its negation. *)
RestrictTo(f, b)  == {x \ {b} : x \in {x \in f : b \in x}}
RestrictNot(f, b) == {x \in f : b \notin x}

-----------------------------------------------------------------------------
(***************************************************************************)
(* The circuit.  Signals are numbered by even numbers: 0 is false, then    *)
(* come the inputs, the latches and the and-gates in the order in which    *)
(* they are made; s + 1 is the negation of s.                              *)
(*   sources  the variables of the inputs, then those of the latches       *)
(*   net      the gates, as the pairs of signals whose conjunction is      *)
(*            wanted, and the cache, pairs of a BDD and its signal         *)
(*   outputs, next  maps from the name of an output, and from the variable *)
(*            of a latch, to the signal they are equal to                  *)
(* The operators on signals are given the sources vs only.                 *)
(***************************************************************************)
NewCircuit(inputs, latches) ==
  [sources |-> inputs \o latches, net |-> [gates |-> << >>, cache |-> {}],
   outputs |-> << >>, next |-> << >>]

Variables(vs) == ToSet(vs)

Signal(vs, b) == 2 * CHOOSE n \in DOMAIN vs : vs[n] = b

GateSignal(vs, n) == 2 * (Len(vs) + n)

Flip(s) == IF s % 2 = 0 THEN s + 1 ELSE s - 1

Found(net, s) == [net |-> net, signal |-> s]

NewGate(vs, net, a, b) ==
  [net    |-> [net EXCEPT !.gates = Append(@, <<a, b>>)],
   signal |-> GateSignal(vs, Len(net.gates) + 1)]

(* Mutant of OrderedAnd: the map of gates is not looked at. *)
OrderedAndAlwaysNew(vs, net, a, b) ==
  IF a = 0 \/ (a # 1 /\ Flip(a) = b) THEN Found(net, 0)
  ELSE IF a = 1 \/ a = b THEN Found(net, b)
  ELSE NewGate(vs, net, a, b)

(* add_gate: constants are simplified, and no gate is made twice. *)
OrderedAnd(vs, net, a, b) ==
  LET same == {n \in DOMAIN net.gates : net.gates[n] = <<a, b>>}
  IN  IF a = 0 \/ (a # 1 /\ Flip(a) = b) THEN Found(net, 0)
      ELSE IF a = 1 \/ a = b THEN Found(net, b)
      ELSE IF same # {} THEN Found(net, GateSignal(vs, CHOOSE n \in same : TRUE))
      ELSE NewGate(vs, net, a, b)

And(vs, net, s1, s2) ==
  IF s1 < s2 THEN OrderedAnd(vs, net, s1, s2) ELSE OrderedAnd(vs, net, s2, s1)

(* Cofactors that keep the set of variables, so that equal BDDs are equal sets. *)
High(f, b) == UNION {{x, x \ {b}} : x \in {x \in f : b \in x}}
Low(f, b)  == UNION {{x, x \cup {b}} : x \in {x \in f : b \notin x}}

(* The variable at the root of f: BuDDy orders variables by their number. *)
DependsOn(f, b) == \E x \in f : (IF b \in x THEN x \ {b} ELSE x \cup {b}) \notin f

Root(V, f) == CHOOSE b \in V : DependsOn(f, b) /\ \A d \in V : d < b => ~DependsOn(f, d)

(***************************************************************************)
(* bdd2aig: the BDDs below the root are built first, which is left to      *)
(* "below", then the root as (low /\ ~b) \/ (high /\ b).  Every call of    *)
(* the recursion is about a BDD that depends on fewer variables, which     *)
(* bounds its depth d.                                                     *)
(***************************************************************************)
Nets == [gates : Seq(Nat \X Nat), cache : SUBSET ((SUBSET SUBSET Nat) \X Nat)]

NewNode(vs, below, net, f) ==
  LET b      == Root(Variables(vs), f)
      low    == below[<<net, Low(f, b)>>]
      low_g  == And(vs, low.net, low.signal, Flip(Signal(vs, b)))
      high   == below[<<low_g.net, High(f, b)>>]
      high_g == And(vs, high.net, high.signal, Signal(vs, b))
      nor    == And(vs, high_g.net, Flip(low_g.signal), Flip(high_g.signal))
      output == Flip(nor.signal)
  IN  Found([gates |-> nor.net.gates, cache |-> nor.net.cache \cup {<<f, output>>}], output)

Cached(net, f) == {e[2] : e \in {e \in net.cache : e[1] = f}}

Build(vs) ==
  LET V == Variables(vs)
      SignalOf(E) == CHOOSE s \in E : TRUE
      build[d \in Nat] ==
        [call \in Nets \X SUBSET SUBSET V |->
           LET net == call[1]
               f   == call[2]
           IN
           IF f = {} THEN Found(net, 0)
           ELSE IF f = SUBSET V \/ d = 0 THEN Found(net, 1)
           ELSE IF Cached(net, f) # {} THEN Found(net, SignalOf(Cached(net, f)))
           ELSE IF Cached(net, Not(V, f)) # {} THEN Found(net, Flip(SignalOf(Cached(net, Not(V, f)))))
           ELSE NewNode(vs, build[d - 1], net, f)]
  IN  build

Bdd2Aig(c, f) == Build(c.sources)[Cardinality(Variables(c.sources))][<<c.net, f>>]

With(g, name, s) == [n \in DOMAIN g \cup {name} |-> IF n = name THEN s ELSE g[n]]

AddOutput(c, name, f) ==
  LET r == Bdd2Aig(c, f)
  IN  [c EXCEPT !.net = r.net, !.outputs = With(@, name, r.signal)]

AddLatch(c, b, f) ==
  LET r == Bdd2Aig(c, f)
  IN  [c EXCEPT !.net = r.net, !.next = With(@, b, r.signal)]

-----------------------------------------------------------------------------
(***************************************************************************)
(* What a reader of the file computes: the signals that are true when the  *)
(* inputs and latches in x are, gate by gate in the order of their         *)
(* numbers.                                                                *)
(***************************************************************************)
Holds(T, s) == IF s % 2 = 0 THEN s \in T ELSE (s - 1) \notin T

Known(vs, gates, x) ==
  LET known[n \in Nat] ==
        IF n = 0 THEN {Signal(vs, b) : b \in x \cap Variables(vs)}
        ELSE LET T == known[n - 1]
             IN  IF Holds(T, gates[n][1]) /\ Holds(T, gates[n][2])
                 THEN T \cup {GateSignal(vs, n)} ELSE T
  IN  known

TrueSignals(c, x) == Known(c.sources, c.net.gates, x)[Len(c.net.gates)]

OutputsOn(c, x) ==
  LET T == TrueSignals(c, x) IN {name \in DOMAIN c.outputs : Holds(T, c.outputs[name])}

LatchesOn(c, x) ==
  LET T == TrueSignals(c, x) IN {b \in DOMAIN c.next : Holds(T, c.next[b])}

(***************************************************************************)
(* A gate only reads signals with smaller numbers, no two gates are the    *)
(* same, and none is trivial.                                              *)
(***************************************************************************)
WellFormed(c) ==
  LET gates == c.net.gates
  IN  /\ \A n \in DOMAIN gates :
           LET a == gates[n][1]  b == gates[n][2]
           IN  1 < a /\ a < b /\ b < GateSignal(c.sources, n) /\ Flip(a) # b
      /\ \A n, m \in DOMAIN gates : gates[n] = gates[m] => n = m
=============================================================================
