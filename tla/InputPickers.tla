---------------------------- MODULE InputPickers ----------------------------
(***************************************************************************)
(* solve and the input pickers (src/src/input_pickers/), as they compute:  *)
(* a downset is kept as its elements, the picker goes through them one by  *)
(* one, tries the inputs in an order of its own and, for each, the outputs *)
(* in a list whose last success is moved to the front; cpre_inplace then   *)
(* works on the elements.  KBoundedSafety, in which a turn of the loop is  *)
(* one step and any critical input may be picked, is what this implements. *)
(***************************************************************************)
EXTENDS KBoundedGame, SequencesExt

CONSTANTS
  Kfrom, Kto, Kinc, EltHalf,  \* as in KBoundedSafety
  Pickers                     \* the pickers considered

(***************************************************************************)
(* K and its bounds are as in KBoundedSafety.  Automata and alphabets are  *)
(* finite, and a start region is a downset, which is never empty.          *)
(***************************************************************************)
ASSUME PickersAssumption ==
  /\ Pickers \subseteq {"critical", "critical_rnd", "critical_fullrnd", "critical_pq"}
  /\ IsFiniteSet(States) /\ IsFiniteSet(Outputs)
  /\ IsFiniteSet(Inputs) /\ Inputs # {}
  /\ \A a \in Automata : a.start = Down(a.start) /\ a.start # {}

ASSUME KAssumption ==
  /\ Kfrom \in Nat \ {0} /\ Kto \in Nat /\ Kinc \in Nat
  /\ EltHalf \in Nat \ {0}
  /\ Kfrom =< Kto
  /\ Kfrom < Kto => Kinc > 0
  /\ TopK >= Kto
  /\ Kfrom < Kto => TopK >= Kto + Kinc - 1

VARIABLES
  aut, K, result,   \* as in KBoundedSafety
  elements,         \* the maximal elements of F
  picker,           \* the picker the program was built with; never changes
  fwd_actions,      \* the inputs in the order of the actioner; never changes
  lists,            \* the outputs of each input, in the order they are tried
  order,            \* Cbar, or fwd_actions_pq: the inputs in the order they are tried
  priority,         \* the priorities in fwd_actions_pq
  pc,               \* "turn", "scan" (the picker runs), "cpre"
  f, left,          \* the element that is scanned, those that are still to be
  pos,              \* the input that is tried is order[pos]
  critical          \* the input that was picked last

Solver == INSTANCE KBoundedSafety WITH F <- Down(elements)

built == <<aut, picker, fwd_actions>>
scan == <<f, left, pos>>
loop == <<K, result, elements>>
pq == <<order, priority>>
vars == <<built, loop, pq, lists, pc, scan, critical>>

-----------------------------------------------------------------------------
(***************************************************************************)
(* Downsets by their elements.                                             *)
(***************************************************************************)
Maximal(S) == {m \in S : \A w \in S : Leq(m, w) => m = w}

Covered(S, v) == \E m \in S : Leq(v, m)

Meet(v, w) == [q \in States |-> IF v[q] =< w[q] THEN v[q] ELSE w[q]]

Intersect(S, T) == Maximal({Meet(v, w) : v \in S, w \in T})

(***************************************************************************)
(* The orders in which a picker may try the inputs: "critical" that of the *)
(* actioner, the random ones any order, or any whose first positions hold  *)
(* some of the first five inputs, "critical_pq" that of the priorities.    *)
(***************************************************************************)
First(n) == {fwd_actions[m] : m \in 1 .. n}

Orders ==
  LET N == Min({Len(fwd_actions), 5})
  IN  CASE picker = "critical" -> {fwd_actions}
        [] picker = "critical_rnd" ->
             {s \in SetToSeqs(ToSet(fwd_actions)) : \A n \in 1 .. N \div 2 : s[n] \in First(N)}
        [] picker = "critical_fullrnd" -> SetToSeqs(ToSet(fwd_actions))
        [] picker = "critical_pq" -> {order}

(* Mutant of ToFront: the output stays where it was, too. *)
ToFrontCopies(s, n) == <<s[n]>> \o s

(* actions.splice: the output that kept f in F is tried first next time. *)
ToFront(s, n) == <<s[n]>> \o RemoveAt(s, n)

(***************************************************************************)
(* fwd_actions_pq is a multimap: the input at n is taken out and comes     *)
(* back with a lower priority, behind those that have it already.          *)
(***************************************************************************)
Requeue(n) ==
  LET others == RemoveAt(order, n)
      ahead == Cardinality({j \in ToSet(others) : priority[j] =< priority[order[n]] - 1})
  IN  InsertAt(others, ahead + 1, order[n])

(* The elements of s that are in A, in the order of s. *)
InOrder(s, A) ==
  {t \in SetToSeqs(A) :
     \A m, n \in DOMAIN t : m < n => \E k, l \in DOMAIN s : s[k] = t[m] /\ s[l] = t[n] /\ k < l}

-----------------------------------------------------------------------------

Init ==
  /\ aut \in Automata /\ picker \in Pickers
  /\ fwd_actions \in SetToSeqs(Inputs)
  /\ \E s \in SetToSeqs(Outputs) :
       lists \in {l \in [Inputs -> UNION {SetToSeqs(A) : A \in SUBSET Outputs}] :
                   \A i \in Inputs : l[i] \in InOrder(s, Answers(aut, i))}
  /\ order = fwd_actions
  /\ priority = [i \in Inputs |-> (CHOOSE n \in DOMAIN fwd_actions : fwd_actions[n] = i) - 1]
  /\ K = Kfrom /\ result = "running" /\ elements = Maximal(aut.start)
  /\ pc = "turn" /\ f = Bottom /\ left = {} /\ pos = 1
  /\ critical = CHOOSE i \in Inputs : TRUE

(* Take the next element of S, and the inputs from the first one. *)
Scan(S) ==
  \E e \in S : f' = e /\ left' = S \ {e} /\ pos' = 1

(* The picker is called. *)
StartTurn ==
  /\ pc = "turn" /\ result = "running"
  /\ order' \in Orders
  /\ Scan(elements)
  /\ pc' = "scan"
  /\ UNCHANGED <<built, loop, priority, lists, critical>>

Trying == pc = "scan" /\ pos =< Len(order)

Stays(n) == Covered(elements, Solver!Fwd(f, order[pos], lists[order[pos]][n]))

(* The first output of the list that keeps f in F. *)
Pass ==
  /\ Trying
  /\ \E n \in DOMAIN lists[order[pos]] :
       /\ Stays(n) /\ \A k \in 1 .. n - 1 : ~Stays(k)
       /\ lists' = [lists EXCEPT ![order[pos]] = ToFront(@, n)]
  /\ pos' = pos + 1
  /\ UNCHANGED <<built, loop, pq, pc, f, left, critical>>

(* There is none: the input is critical. *)
Hit ==
  /\ Trying
  /\ \A n \in DOMAIN lists[order[pos]] : ~Stays(n)
  /\ critical' = order[pos]
  /\ IF picker = "critical_pq"
     THEN order' = Requeue(pos) /\ priority' = [priority EXCEPT ![order[pos]] = @ - 1]
     ELSE UNCHANGED pq
  /\ pc' = "cpre"
  /\ UNCHANGED <<built, loop, lists, scan>>

ScannedElement == pc = "scan" /\ pos > Len(order)

(* Mutant of NextElement: the scan starts over. *)
NextElementAgain ==
  /\ ScannedElement /\ Scan(elements)
  /\ UNCHANGED <<built, loop, pq, lists, pc, critical>>

NextElement ==
  /\ ScannedElement /\ Scan(left)
  /\ UNCHANGED <<built, loop, pq, lists, pc, critical>>

(* No critical input: solve returns F. *)
Return ==
  /\ ScannedElement /\ left = {}
  /\ result' = "region" /\ pc' = "turn"
  /\ UNCHANGED <<built, K, elements, pq, lists, scan, critical>>

(* Mutant of F1i: each output's image takes the place of the previous one. *)
F1iLast ==
  IF lists[critical] = << >> THEN {Bottom}
  ELSE {Solver!Bwd(m, critical, Last(lists[critical])) : m \in elements}

(***************************************************************************)
(* cpre_inplace: F1i is the union of the images of F for the outputs, or   *)
(* what it was initialised with when there is none.                        *)
(***************************************************************************)
F1i ==
  IF lists[critical] = << >> THEN {Bottom}
  ELSE {Solver!Bwd(m, critical, o) : m \in elements, o \in ToSet(lists[critical])}

CPre ==
  /\ pc = "cpre"
  /\ \E G \in {Intersect(elements, F1i)} :
       \/ /\ Covered(G, aut.init)
          /\ elements' = G /\ UNCHANGED <<K, result>>
       \/ /\ ~Covered(G, aut.init) /\ K < Kto
          /\ K' = K + Kinc
          /\ elements' = Maximal({Solver!AddKinc(s) : s \in G}) /\ UNCHANGED result
       \/ /\ ~Covered(G, aut.init) /\ K >= Kto
          /\ result' = "nullopt"
          /\ elements' = G /\ UNCHANGED K
  /\ pc' = "turn"
  /\ UNCHANGED <<built, pq, lists, scan, critical>>

Step == StartTurn \/ Pass \/ Hit \/ NextElement \/ Return \/ CPre

Done == result # "running" /\ UNCHANGED vars

Next == Step \/ Done

Spec == Init /\ [][Next]_vars

(* Sequential code. *)
FairSpec == Spec /\ WF_vars(Step)

-----------------------------------------------------------------------------

TypeOK ==
  /\ aut \in Automata /\ picker \in Pickers
  /\ K \in Kfrom .. TopK /\ result \in {"running", "region", "nullopt"}
  /\ elements # {} /\ elements \subseteq Vectors
  /\ fwd_actions \in SetToSeqs(Inputs) /\ order \in SetToSeqs(Inputs)
  /\ DOMAIN lists = Inputs /\ \A i \in Inputs : lists[i] \in SetToSeqs(Answers(aut, i))
  /\ priority \in [Inputs -> Int]
  /\ pc \in {"turn", "scan", "cpre"}
  /\ f \in Vectors /\ left \subseteq Vectors
  /\ pos \in 1 .. Len(order) + 1 /\ critical \in Inputs

(***************************************************************************)
(* Element by element and input by input, in whatever order, the program   *)
(* does what the fixpoint over downsets does: it picks an input only when  *)
(* it is critical for F, returns only when no input is, and its elements   *)
(* stand for the downset that cpre and the raise of K give.                *)
(***************************************************************************)
ImplementsSolver == Solver!Spec

(***************************************************************************)
(* solve returns: no picker goes over elements and inputs, or over the     *)
(* same critical input, for ever.                                          *)
(***************************************************************************)
Termination == Solver!Termination
=============================================================================
