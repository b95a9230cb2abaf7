------------------------------ MODULE Synthesis ------------------------------
(***************************************************************************)
(* k_bounded_safety_aut::synthesis and winregion: from the region that     *)
(* solve returned, a circuit.                                              *)
(*                                                                         *)
(* synthesis explores, depth first, a strategy whose states are elements   *)
(* of the region, numbers them, encodes the numbers in binary, chooses a   *)
(* function for every output and every latch and writes each as gates.     *)
(* winregion does the same for all letters that stay in the region; its    *)
(* circuit reads inputs and outputs, says whether the letter is safe, and  *)
(* if it is not, which vector it leads to.                                 *)
(*                                                                         *)
(* The last phase, "play", is the promise of the file: the circuit runs    *)
(* against any environment, next to the game it was made for.              *)
(***************************************************************************)
EXTENDS KBoundedGame, Aiger

CONSTANTS
  InBits, OutBits,  \* BDD variables of the atomic propositions
  Kfrom, Kto,       \* the K the actioner is made with, the largest K allowed
  Solved            \* solved games [aut, K, region, modes, debug]: K is where solve
                    \* stopped, modes what was asked for with --synth and --winreg, and
                    \* debug whether the program is built with its assertions

ASSUME SynthesisAssumption ==
  /\ InBits \subseteq Nat /\ OutBits \subseteq Nat /\ InBits \cap OutBits = {}
  /\ IsFiniteSet(InBits) /\ IsFiniteSet(OutBits) /\ IsFiniteSet(States)
  /\ Inputs = SUBSET InBits /\ Outputs = SUBSET OutBits
  /\ Kfrom \in Nat \ {0} /\ Kto \in Kfrom .. TopK
  /\ \A s \in Solved : /\ s.modes \subseteq {"synthesis", "winregion"} /\ s.debug \in BOOLEAN
                       /\ s.aut \in Automata /\ s.K \in Kfrom .. Kto /\ s.aut.init \in s.region
                       /\ s.region \subseteq Safe(s.K) /\ Down(s.region) = s.region
                       /\ Controlled(s.aut, s.region, s.K)

VARIABLES
  game,     \* the member of Solved
  mode,
  pc,       \* "explore", "outputs", "latches", "play", "aborted"
  states,   \* vectors; states[n + 1] is state n
  todo,     \* states_todo
  src,      \* the state being explored
  rest,     \* its letters that have not been looked at
  trans,    \* transitions: [src, in, out, dst]
  bad,      \* badtransitions: [src, in, out, succ]
  encoding, \* the BDDs of the source
  part,     \* wosucc, outless or fixdsucc
  left,     \* outputs or latches that have no function yet
  circuit,
  latches, v  \* of a play: the latches that are on, the position of the game

explored == <<states, todo, src, rest, trans, bad>>
vars == <<game, mode, pc, explored, encoding, part, left, circuit, latches, v>>

aut == game.aut

-----------------------------------------------------------------------------
Maximal(W) == {m \in W : \A w \in W : Leq(m, w) => m = w}

(* get_dominating_element: the order of a downset's elements is not known. *)
Dominating(w) == {m \in Maximal(game.region) : Leq(w, m)}

(* Mutant of DominatedBy: one counter is compared instead of all. *)
DominatedByOne(w) == {n \in 0 .. Len(states) - 1 : \E q \in NonBool : w[q] =< states[n + 1][q]}

(* get_dominating_index, in states. *)
DominatedBy(w) == {n \in 0 .. Len(states) - 1 : Leq(w, states[n + 1])}

Successor(i, o) == Forward(aut, states[src + 1], i, o, Kfrom)

(* Mutant of Pop: the state is not removed from states_todo. *)
PopKeeps ==
  /\ pc = "explore" /\ rest = {} /\ todo # << >>
  /\ src' = Last(todo) /\ todo' = todo
  /\ rest' = aut.allowed
  /\ UNCHANGED <<game, mode, pc, states, trans, bad, encoding, part, left, circuit, latches, v>>

Pop ==
  /\ pc = "explore" /\ rest = {} /\ todo # << >>
  /\ src' = Last(todo) /\ todo' = Front(todo)
  /\ rest' = aut.allowed
  /\ UNCHANGED <<game, mode, pc, states, trans, bad, encoding, part, left, circuit, latches, v>>

(***************************************************************************)
(* One input: the first output that leads into the region is taken, which  *)
(* is any of them, and the first state that dominates the successor, or a  *)
(* new one.                                                                *)
(***************************************************************************)
AddTransition(i, o, n) == trans' = trans \cup {[src |-> src, in |-> i, out |-> o, dst |-> n]}

NewState(w) == states' = Append(states, w) /\ todo' = Append(todo, Len(states))

Explore(i, o) ==
  LET succ == Successor(i, o)
      known == DominatedBy(succ)
  IN  /\ pc = "explore" /\ mode = "synthesis"
      /\ <<i, o>> \in rest /\ succ \in game.region
      /\ \/ /\ known # {} /\ AddTransition(i, o, Min(known))
            /\ UNCHANGED <<states, todo>>
         \/ /\ known = {} /\ AddTransition(i, o, Len(states))
            /\ \E m \in Dominating(succ) : NewState(m)
      /\ rest' = {l \in rest : l[1] # i}
      /\ UNCHANGED <<game, mode, pc, src, bad, encoding, part, left, circuit, latches, v>>

(***************************************************************************)
(* winregion looks at every letter, in an order that does not depend on    *)
(* the state; its states are the vectors themselves.                       *)
(***************************************************************************)
ExploreAll ==
  LET letter == CHOOSE l \in rest : TRUE
      i == letter[1]
      o == letter[2]
      succ == Successor(i, o)
      known == {n \in 0 .. Len(states) - 1 : states[n + 1] = succ}
  IN  /\ pc = "explore" /\ mode = "winregion" /\ rest # {}
      /\ \/ /\ succ \in game.region
            /\ \/ /\ known # {} /\ AddTransition(i, o, Min(known))
                  /\ UNCHANGED <<states, todo>>
               \/ /\ known = {} /\ AddTransition(i, o, Len(states)) /\ NewState(succ)
            /\ bad' = bad
         \/ /\ succ \notin game.region
            /\ bad' = bad \cup {[src |-> src, in |-> i, out |-> o, succ |-> succ]}
            /\ UNCHANGED <<states, todo, trans>>
      /\ rest' = rest \ {letter}
      /\ UNCHANGED <<game, mode, pc, src, encoding, part, left, circuit, latches, v>>

-----------------------------------------------------------------------------
PowerOf2[n \in Nat] == IF n = 0 THEN 1 ELSE 2 * PowerOf2[n - 1]

(* Mutant of Log2Up: rounded down. *)
Log2Down(n) == Max({b \in 0 .. n : PowerOf2[b] =< n})

(* ceil (log2 (n)). *)
Log2Up(n) == Min({b \in 0 .. n : PowerOf2[b] >= n})

(* What is left of n when its k last binary digits have been shifted out. *)
Shifted(n) ==
  LET shifted[k \in Nat] == IF k = 0 THEN n ELSE shifted[k - 1] \div 2 IN shifted

IsBitOf(k, n) == Shifted(n)[k] % 2 = 1

(* The variables _ab_enc_y<k> and _ab_enc_z<k>, registered in turn. *)
FirstBit == Max({-1} \cup InBits \cup OutBits) + 1
Y(k) == FirstBit + 2 * k
Z(k) == FirstBit + 2 * k + 1

mapping_bits == Log2Up(Len(states))
Bits == 0 .. mapping_bits - 1
Ys == {Y(k) : k \in Bits}
Zs == {Z(k) : k \in Bits}

(* binary_encode *)
Code(n)      == {Y(k) : k \in {k \in Bits : IsBitOf(k, n)}}
PrimedCode(n) == {Z(k) : k \in {k \in Bits : IsBitOf(k, n)}}

(* Mutant of Encoding: the letter's input instead of its IO. *)
EncodingOfInput == {Code(t.src) \cup t.in \cup PrimedCode(t.dst) : t \in trans}

Encoding == {Code(t.src) \cup t.in \cup t.out \cup PrimedCode(t.dst) : t \in trans}

(***************************************************************************)
(* winregion writes a value as vec_bits bits: bit 0 is on for -1, and the  *)
(* others are the binary digits, the least significant one last.           *)
(***************************************************************************)
vec_bits == Log2Up(Kto) + 1

(* Mutant of VectorBits: the least significant digit comes first. *)
VectorBitsReversed(x) ==
  IF x = -1 THEN {0} ELSE {k + 1 : k \in {k \in 0 .. vec_bits : IsBitOf(k, x)}}

VectorBits(x) ==
  IF x = -1 THEN {0} ELSE {vec_bits - 1 - k : k \in {k \in 0 .. vec_bits : IsBitOf(k, x)}}

(***************************************************************************)
(* The digits are written from bit vec_bits - 1 down, and after digit k an *)
(* assertion demands that the bit that comes next, vec_bits - 2 - k, is    *)
(* not bit 0, which is the sign's.  It fails on a value that uses the      *)
(* digit next to the sign, were it the last one of the value.  (Where the  *)
(* sign is the only bit, cbit wraps around and the assertion about mask,   *)
(* in the next line, fails instead.)                                       *)
(***************************************************************************)
LeavesNoBit(x) == \E k \in 0 .. vec_bits : x >= PowerOf2[k] /\ vec_bits - 2 - k < 1

AssertFails == game.debug /\ \E t \in bad, q \in States : LeavesNoBit(t.succ[q])

VectorEncoding(q, n) ==
  {Code(t.src) \cup t.in \cup t.out : t \in {t \in bad : n \in VectorBits(t.succ[q])}}

(* cube_to_vector: the variables in the order of their numbers. *)
Sorted(S) ==
  LET seen[n \in Nat] ==
        IF n = 0 THEN << >>
        ELSE IF n - 1 \in S THEN Append(seen[n - 1], n - 1) ELSE seen[n - 1]
  IN  seen[FirstBit]

(* The outputs of winregion's circuit: a state of the automaton has vec_bits of them. *)
SafeOutput == <<"safe">>
RegionOutputs == {SafeOutput} \cup (States \X (0 .. vec_bits - 1))

(* The debug build stops in the middle of the encoding; nothing is written. *)
Abort ==
  /\ pc = "explore" /\ rest = {} /\ todo = << >>
  /\ AssertFails
  /\ pc' = "aborted"
  /\ UNCHANGED <<game, mode, explored, encoding, part, left, circuit, latches, v>>

Encode ==
  /\ pc = "explore" /\ rest = {} /\ todo = << >>
  /\ ~AssertFails
  /\ encoding' = Encoding
  /\ part' = Exist(Encoding, Zs)
  /\ circuit' = NewCircuit(Sorted(IF mode = "synthesis" THEN InBits ELSE InBits \cup OutBits),
                           [k \in 1 .. mapping_bits |-> Y(k - 1)])
  /\ left' = IF mode = "synthesis" THEN OutBits ELSE RegionOutputs
  /\ pc' = "outputs"
  /\ UNCHANGED <<game, mode, explored, latches, v>>

(* Mutant of Candidates: the second one is not negated. *)
CandidatesPlain(r, b, V, cube) ==
  {Exist(RestrictTo(r, b), cube), Exist(RestrictNot(r, b), cube)}

(***************************************************************************)
(* A function for the variable b such that r keeps a solution: where b may *)
(* be true, or where it may not be false.  The code takes the smaller BDD. *)
(***************************************************************************)
Candidates(r, b, V, cube) ==
  {Exist(RestrictTo(r, b), cube), Not(V, Exist(RestrictNot(r, b), cube))}

Fix(r, b, f, cube) == {x \in r : b \in x <=> (x \ cube) \in f}

FixOutput ==
  LET b == Min(left)
  IN  /\ pc = "outputs" /\ mode = "synthesis" /\ left # {}
      /\ \E f \in Candidates(part, b, InBits \cup Ys, OutBits) :
           /\ circuit' = AddOutput(circuit, <<"out", b>>, f)
           /\ part' = Fix(part, b, f, OutBits)
      /\ left' = left \ {b}
      /\ UNCHANGED <<game, mode, pc, explored, encoding, latches, v>>

(* One after the other, in an order that does not depend on the game. *)
AddRegionOutput ==
  LET name == CHOOSE name \in left : TRUE
  IN  /\ pc = "outputs" /\ mode = "winregion" /\ left # {}
      /\ circuit' = AddOutput(circuit, name, IF name = SafeOutput THEN part
                                             ELSE VectorEncoding(name[1], name[2]))
      /\ left' = left \ {name}
      /\ UNCHANGED <<game, mode, pc, explored, encoding, part, latches, v>>

OutputsDone ==
  LET fixed == {x \in encoding : (x \ Zs) \in part}
  IN  /\ pc = "outputs" /\ left = {}
      /\ encoding' = fixed
      /\ part' = IF mode = "synthesis" THEN Exist(fixed, OutBits) ELSE fixed
      /\ left' = Zs
      /\ pc' = "latches"
      /\ UNCHANGED <<game, mode, explored, circuit, latches, v>>

FixLatch ==
  LET b == Min(left)
  IN  /\ pc = "latches" /\ left # {}
      /\ \E f \in Candidates(part, b, Variables(circuit.sources), Zs) :
           /\ circuit' = AddLatch(circuit, b - 1, f)
           /\ part' = Fix(part, b, f, Zs)
      /\ left' = left \ {b}
      /\ UNCHANGED <<game, mode, pc, explored, encoding, latches, v>>

LatchesDone ==
  /\ pc = "latches" /\ left = {}
  /\ encoding' = {x \in encoding : x \ (IF mode = "synthesis" THEN OutBits ELSE {}) \in part}
  /\ pc' = "play"
  /\ UNCHANGED <<game, mode, explored, part, left, circuit, latches, v>>

-----------------------------------------------------------------------------
(***************************************************************************)
(* A play.  Latches are off at first.  The circuit of synthesis gives the  *)
(* outputs; that of winregion is given them, and the play goes on as long  *)
(* as it says that the letter is safe.                                     *)
(***************************************************************************)
OutputOf(i) == {name[2] : name \in OutputsOn(circuit, i \cup latches)}

IsSafeLetter(i, o) == SafeOutput \in OutputsOn(circuit, i \cup o \cup latches)

Move(i, o, read) ==
  /\ latches' = LatchesOn(circuit, read)
  /\ v' = Forward(aut, v, i, o, game.K)
  /\ UNCHANGED <<game, mode, pc, explored, encoding, part, left, circuit>>

Play(i) ==
  /\ pc = "play" /\ mode = "synthesis"
  /\ Move(i, OutputOf(i), i \cup latches)

PlayLetter(i, o) ==
  /\ pc = "play" /\ mode = "winregion" /\ IsSafeLetter(i, o)
  /\ Move(i, o, i \cup o \cup latches)

-----------------------------------------------------------------------------
Init ==
  /\ game \in Solved /\ mode \in game.modes
  /\ pc = "explore"
  /\ \E w \in IF mode = "synthesis" THEN Dominating(aut.init) ELSE {aut.init} : states = <<w>>
  /\ todo = <<0>> /\ src = 0 /\ rest = {} /\ trans = {} /\ bad = {}
  /\ encoding = {} /\ part = {} /\ left = {} /\ circuit = NewCircuit(<< >>, << >>)
  /\ latches = {} /\ v = aut.init

Exploration ==
  \/ Pop
  \/ \E i \in Inputs, o \in Outputs : Explore(i, o)
  \/ ExploreAll
  \/ Abort \/ Encode

Aborted == pc = "aborted" /\ UNCHANGED vars

Next ==
  \/ Exploration
  \/ FixOutput \/ AddRegionOutput \/ OutputsDone
  \/ FixLatch \/ LatchesDone
  \/ \E i \in Inputs : Play(i)
  \/ \E i \in Inputs, o \in Outputs : PlayLetter(i, o)
  \/ Aborted

Spec == Init /\ [][Next]_vars

FairSpec == Spec /\ WF_vars(Exploration)

-----------------------------------------------------------------------------

TypeOK ==
  /\ mode \in game.modes /\ pc \in {"explore", "outputs", "latches", "play", "aborted"}
  /\ states \in Seq(game.region) /\ todo \in Seq(1 .. Len(states) - 1) \cup {<<0>>}
  /\ src \in 0 .. Len(states) - 1 /\ rest \subseteq aut.allowed
  /\ WellFormed(circuit)
  /\ latches \subseteq Ys /\ v \in Vectors

(***************************************************************************)
(* The inductive certificate the debug build computes, and more: once all  *)
(* states are explored, every state has a transition for every input, and  *)
(* its target dominates the successor.                                     *)
(***************************************************************************)
StrategyClosed ==
  /\ \A t \in trans : Leq(Forward(aut, states[t.src + 1], t.in, t.out, game.K), states[t.dst + 1])
  /\ pc # "explore" =>
       \A n \in 0 .. Len(states) - 1, i \in Inputs : \E t \in trans : t.src = n /\ t.in = i

(***************************************************************************)
(* Choosing functions never blocks: after each choice every state still    *)
(* answers every input (or, for winregion, keeps all its safe letters),    *)
(* within the transitions found by the exploration.                        *)
(***************************************************************************)
NothingLost ==
  pc \in {"latches", "play"} =>
    /\ encoding \subseteq Encoding
    /\ LET kept == IF mode = "synthesis" THEN InBits \cup Ys ELSE InBits \cup OutBits \cup Ys
       IN  {x \cap kept : x \in encoding} = {x \cap kept : x \in Encoding}

(***************************************************************************)
(* Against every environment the circuit keeps the play in the region, so  *)
(* that no counter ever reaches K, and answers as the invariant demands.   *)
(***************************************************************************)
CircuitSafe ==
  pc = "play" /\ mode = "synthesis" =>
    /\ v \in game.region
    /\ \A i \in Inputs : OutputOf(i) \in Answers(aut, i)

(***************************************************************************)
(* The circuit of the winning region says "safe" for exactly the letters   *)
(* that are allowed and stay in the region, wherever a play has led.       *)
(***************************************************************************)
RegionExact ==
  pc = "play" /\ mode = "winregion" =>
    \A i \in Inputs, o \in Outputs :
      IsSafeLetter(i, o) <=> <<i, o>> \in aut.allowed /\ Forward(aut, v, i, o, game.K) \in game.region

(***************************************************************************)
(* The vector that an unsafe letter leads to can be read from the outputs: *)
(* the first bit of a component tells negative from nonnegative, the       *)
(* others are its value.                                                   *)
(***************************************************************************)
ValueOf(on, q) ==
  IF <<q, 0>> \in on THEN -1
  ELSE LET digit[k \in 0 .. vec_bits - 1] ==
             IF k = 0 THEN 0
             ELSE 2 * digit[k - 1] + (IF <<q, k>> \in on THEN 1 ELSE 0)
       IN  digit[vec_bits - 1]

VectorReadable ==
  pc = "play" /\ mode = "winregion" =>
    \A l \in aut.allowed :
      LET succ == Forward(aut, v, l[1], l[2], game.K)
          on == OutputsOn(circuit, l[1] \cup l[2] \cup latches)
      IN  succ \notin game.region => \A q \in States : ValueOf(on, q) = succ[q]

(***************************************************************************)
(* The exploration ends: a state is only added when none of those known    *)
(* will do.  What follows it has no loops but over bits.                   *)
(***************************************************************************)
Termination == <>(pc # "explore")
=============================================================================
