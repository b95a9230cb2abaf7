-------------------------------- MODULE Pipes --------------------------------
(***************************************************************************)
(* How master and workers talk (src/src/composition/pipes.hh, and the      *)
(* calls of it in run and be_child, composition_mt.hh).  A message is a    *)
(* sequence of objects of basic types, each of which is written and read   *)
(* as sizeof (T) bytes, with no tags: reader and writer have to agree on   *)
(* every type, count and order.  A pipe holds few bytes, so both sides     *)
(* wait for each other in the middle of messages.  The debug build puts    *)
(* guards around the parts of a message.                                   *)
(*                                                                         *)
(* A formula, and a BDD, is the text it is written as (that parsing undoes *)
(* printing is Spot's promise).  What the processes do with messages is    *)
(* module Composition's subject: here any job follows any result.          *)
(***************************************************************************)
EXTENDS Integers, SequencesExt, FiniteSets

CONSTANTS
  WorkerCount,
  Capacity,      \* bytes that a pipe holds
  MoreJobs,      \* how many jobs there are after the first of each worker
  Builds,        \* the values of debug: TRUE is the build without NDEBUG
  Texts,         \* formulas, as sequences of character codes
  Games          \* the games that are sent, see IsGame

(***************************************************************************)
(* aut->edges () after merge_edges; an absent part is <<>>, a present one  *)
(* <<x>>.                                                                  *)
(***************************************************************************)
IsGame(g) ==
  /\ \A a \in Range(g.aut) :
       /\ \A e \in Range(a.edges) : {e[1], e[2]} \subseteq 0 .. a.states - 1 /\ e[3] \in Texts
       /\ a.init \in 0 .. a.states - 1 /\ a.acc \subseteq {e[1] : e \in Range(a.edges)}
       /\ \A d \in Range(g.safe) : d # <<>> /\ \A v \in Range(d) : Len(v) = a.states
  /\ g.invariant \in Texts

Size == [char |-> 1, int |-> 4, unsigned |-> 4, enum |-> 4, size_t |-> 8]

ASSUME PipesAssumption ==
  /\ WorkerCount \in 1 .. 127 /\ MoreJobs \in Nat
  /\ Capacity \in Nat /\ \A t \in DOMAIN Size : Size[t] =< Capacity
  /\ Builds \subseteq BOOLEAN
  /\ \A g \in Games : IsGame(g)

Workers == 0 .. WorkerCount - 1
Main == -1
Processes == Workers \cup {Main}

Shared == <<"shared", Main>>
FromMain(w) == <<"from_main", w>>
ToMain(w) == <<"to_main", w>>
Pipes == {Shared} \cup {FromMain(w) : w \in Workers} \cup {ToMain(w) : w \in Workers}

VARIABLES
  debug,   \* the build
  bytes,   \* what each pipe holds
  posted,  \* history: per pipe, the messages begun to be written and not completely read
  proc,    \* each process: where it is, what it still has to write and to read
  wid,     \* the master's wid; while it spawns workers, the next one
  left     \* the jobs the master still has

vars == <<debug, bytes, posted, proc, wid, left>>

-----------------------------------------------------------------------------
(***************************************************************************)
(* Messages.  A job is [type, text, game] and so is a result; type is the  *)
(* value of the enumeration.                                               *)
(***************************************************************************)
job_type == [solve |-> 0, formula |-> 1, done |-> 2]
result_type == [game |-> 0, invariant |-> 1, null |-> 2]

DoneJob == [type |-> job_type.done, text |-> <<>>, game |-> <<>>]
FormulaJobs == {[type |-> job_type.formula, text |-> t, game |-> <<>>] : t \in Texts}
SolveJobs == {[type |-> job_type.solve, text |-> t, game |-> <<g>>] : t \in Texts,
                g \in {g \in Games : ~g.solved}}

(* What be_child sends for a job. *)
ResultsOf(j) ==
  {[type |-> result_type.game, text |-> <<>>, game |-> <<g>>] :
     g \in {g \in Games : g.solved = (j = job_type.solve)}}
  \cup IF j = job_type.solve THEN {}
       ELSE {[type |-> result_type.null, text |-> <<>>, game |-> <<>>]}
            \cup {[type |-> result_type.invariant, text |-> t, game |-> <<>>] : t \in Texts}

IdMessage(w) == [type |-> w, text |-> <<>>, game |-> <<>>]

-----------------------------------------------------------------------------
(***************************************************************************)
(* Writing: the objects of a message, in order.                            *)
(***************************************************************************)
Guards == [message   |-> <<1174651696, 1910141957>>, downset     |-> <<305419896, 466480906>>,
           bdd       |-> <<1640302720, 1001926485>>, automaton   |-> <<327272234, 1549607716>>,
           formula   |-> <<704986898, 428520209>>,   safety_game |-> <<1805272256, 146436353>>,
           string    |-> <<154240205, 1578646482>>]

Obj(t, v) == <<[type |-> t, value |-> v]>>

(* write_guard at both ends. *)
Guarded(name, objects) ==
  IF debug THEN Obj("int", Guards[name][1]) \o objects \o Obj("int", Guards[name][2])
  ELSE objects

CharOf(b) == IF b THEN 1 ELSE 0

WriteString(s) ==
  Guarded("string", Obj("size_t", Len(s)) \o FlattenSeq([n \in DOMAIN s |-> Obj("char", s[n])]))

WriteFormula(s) == Guarded("formula", WriteString(s))

WriteBdd(s) == Guarded("bdd", WriteFormula(s))

WriteDownset(d) ==
  Guarded("downset",
    Obj("int", Len(d)) \o Obj("int", Len(d[1]))
      \o FlattenSeq([n \in DOMAIN d |-> FlattenSeq([i \in DOMAIN d[n] |-> Obj("char", d[n][i])])]))

(* Mutant of WriteEdge: destination first. *)
WriteEdgeBackwards(e) == Obj("unsigned", e[2]) \o Obj("unsigned", e[1]) \o WriteBdd(e[3])

WriteEdge(e) == Obj("unsigned", e[1]) \o Obj("unsigned", e[2]) \o WriteBdd(e[3])

WriteAutomaton(a) ==
  Guarded("automaton",
    Obj("unsigned", a.states) \o Obj("unsigned", Len(a.edges)) \o Obj("unsigned", a.init)
      \o FlattenSeq([n \in 1 .. a.states |-> Obj("char", CharOf(n - 1 \in a.acc))])
      \o FlattenSeq([n \in DOMAIN a.edges |-> WriteEdge(a.edges[n])]))

WriteSafetyGame(g) ==
  Guarded("safety_game",
    Obj("char", Len(g.aut))
      \o FlattenSeq([n \in DOMAIN g.aut |-> WriteAutomaton(g.aut[n]) \o WriteBdd(g.invariant)])
      \o Obj("size_t", g.bool_threshold)
      \o Obj("char", Len(g.safe))
      \o FlattenSeq([n \in DOMAIN g.safe |-> WriteDownset(g.safe[n])])
      \o Obj("char", CharOf(g.solved)))

(* to_pipe of the jobs; j_done in run. *)
WriteJob(j) ==
  Obj("enum", j.type)
    \o CASE j.type = job_type.solve   -> WriteBdd(j.text) \o WriteSafetyGame(j.game[1])
         [] j.type = job_type.formula -> WriteFormula(j.text)
         [] j.type = job_type.done    -> <<>>

WriteResult(r) ==
  Guarded("message",
    Obj("enum", r.type)
      \o CASE r.type = result_type.game      -> WriteSafetyGame(r.game[1])
           [] r.type = result_type.invariant -> WriteBdd(r.text)
           [] r.type = result_type.null      -> <<>>)

-----------------------------------------------------------------------------
(***************************************************************************)
(* Reading: the fields to be read next.  What follows some of the fields   *)
(* depends on the value that was read.                                     *)
(***************************************************************************)
Field(f) == <<[field |-> f, expected |-> 0]>>
Guard(v) == <<[field |-> "guard", expected |-> v]>>

(* Mutant of TypeOf: the threshold is read as unsigned. *)
TypeOfNarrow(f) ==
  CASE f = "guard" -> "int"
    [] f \in {"job", "result"} -> "enum"
    [] f \in {"states", "edges", "init", "src", "dst", "bool_threshold"} -> "unsigned"
    [] f \in {"elements", "element_size"} -> "int"
    [] f = "size" -> "size_t"
    [] OTHER -> "char"

TypeOf(f) ==
  CASE f = "guard" -> "int"
    [] f \in {"job", "result"} -> "enum"
    [] f \in {"states", "edges", "init", "src", "dst"} -> "unsigned"
    [] f \in {"elements", "element_size"} -> "int"
    [] f \in {"size", "bool_threshold"} -> "size_t"
    [] OTHER -> "char"

(* read_guard at both ends. *)
Expect(name, fields) ==
  IF debug THEN Guard(Guards[name][1]) \o fields \o Guard(Guards[name][2]) ELSE fields

Times(n, fields) == FlattenSeq([i \in 1 .. n |-> fields])

ReadString == Expect("string", Field("size"))
ReadFormula == Expect("formula", ReadString)
ReadBdd == Expect("bdd", ReadFormula)
ReadDownset == Expect("downset", Field("elements") \o Field("element_size"))
ReadAutomaton == Expect("automaton", Field("states") \o Field("edges") \o Field("init"))
ReadEdge == Field("src") \o Field("dst") \o ReadBdd
ReadSafetyGame ==
  Expect("safety_game",
    Field("has_aut") \o Field("bool_threshold") \o Field("has_safe") \o Field("solved"))
ReadResult == Expect("message", Field("result"))

(* What is read after v was read for f; got is what was read before. *)
Follow(f, v, got) ==
  CASE f = "size" -> Times(v, Field("char"))
    [] f = "init" -> Times(got.states[1], Field("acc")) \o Times(got.edges[1], ReadEdge)
    [] f = "has_aut" /\ v # 0 -> ReadAutomaton \o ReadBdd
    [] f = "has_safe" /\ v # 0 -> ReadDownset
    [] f = "element_size" -> Times(got.elements[1] * v, Field("value"))
    [] f = "job" /\ v = job_type.solve -> ReadBdd \o ReadSafetyGame
    [] f = "job" /\ v = job_type.formula -> ReadFormula
    [] f = "result" /\ v = result_type.game -> ReadSafetyGame
    [] f = "result" /\ v = result_type.invariant -> ReadBdd
    [] OTHER -> <<>>

(* The values read for each field; texts are collected one by one. *)
Nothing ==
  [f \in {"id", "job", "result", "has_aut", "states", "edges", "init", "acc", "src", "dst",
          "bool_threshold", "has_safe", "elements", "element_size", "value", "solved", "texts"}
     |-> <<>>]

Store(f, v, got) ==
  CASE f = "guard" -> got
    [] f = "size" -> [got EXCEPT !.texts = Append(@, <<>>)]
    [] f = "char" -> [got EXCEPT !.texts[Len(got.texts)] = Append(@, v)]
    [] OTHER -> [got EXCEPT ![f] = Append(@, v)]

(* read_automaton: edges out of an accepting state are accepting. *)
AutomatonOf(got, conds) ==
  LET edges == [n \in 1 .. got.edges[1] |-> <<got.src[n], got.dst[n], conds[n]>>]
  IN  [states |-> got.states[1], init |-> got.init[1], edges |-> edges,
       acc |-> {e[1] : e \in {e \in Range(edges) : got.acc[e[1] + 1] # 0}}]

DownsetOf(got) ==
  [n \in 1 .. got.elements[1] |->
     [i \in 1 .. got.element_size[1] |-> got.value[(n - 1) * got.element_size[1] + i]]]

GameOf(got, texts) ==
  [aut |-> IF got.has_aut = <<0>> THEN <<>> ELSE <<AutomatonOf(got, texts)>>,
   invariant |-> texts[Len(texts)],
   bool_threshold |-> got.bool_threshold[1],
   safe |-> IF got.has_safe = <<0>> THEN <<>> ELSE <<DownsetOf(got)>>,
   solved |-> got.solved # <<0>>]

JobOf(got) ==
  CASE got.job[1] = job_type.solve ->
         [type |-> got.job[1], text |-> got.texts[1], game |-> <<GameOf(got, Tail(got.texts))>>]
    [] got.job[1] = job_type.formula -> [type |-> got.job[1], text |-> got.texts[1], game |-> <<>>]
    [] OTHER -> DoneJob

ResultOf(got) ==
  [type |-> got.result[1],
   text |-> IF got.result[1] = result_type.invariant THEN got.texts[1] ELSE <<>>,
   game |-> IF got.result[1] = result_type.game THEN <<GameOf(got, got.texts)>> ELSE <<>>]

-----------------------------------------------------------------------------
(***************************************************************************)
(* A process first writes the letters of out, then reads todo from the     *)
(* pipe from into got, and then goes on from at.                           *)
(***************************************************************************)
Waiting(at, from, todo) ==
  [at |-> at, out |-> <<>>, todo |-> todo, from |-> from, got |-> Nothing]

Letter(b, m, objects) == [to |-> b, message |-> m, objects |-> objects, begun |-> FALSE]

Ready(p) == proc[p].out = <<>> /\ proc[p].todo = <<>>

Init ==
  /\ debug \in Builds
  /\ bytes = [b \in Pipes |-> <<>>]
  /\ posted = [b \in Pipes |-> <<>>]
  /\ wid = 0 /\ left = MoreJobs
  /\ proc = [p \in Processes |-> IF p = Main THEN Waiting("spawn", Shared, <<>>)
                                 ELSE Waiting("job", FromMain(p), Field("job"))]

HasRoom(b, o) == Len(bytes[b]) + Size[o.type] =< Capacity

(* write_obj: write () of a few bytes waits for room for all of them. *)
WriteObj(p) ==
  /\ proc[p].out # <<>>
  /\ LET l == Head(proc[p].out)
         o == Head(l.objects)
     IN  /\ HasRoom(l.to, o)
         /\ bytes' = [bytes EXCEPT ![l.to] = @ \o [n \in 1 .. Size[o.type] |-> <<o, n>>]]
         /\ posted' = IF l.begun THEN posted ELSE [posted EXCEPT ![l.to] = Append(@, l.message)]
         /\ proc' = [proc EXCEPT ![p].out =
              IF Len(l.objects) = 1 THEN Tail(@)
              ELSE <<[l EXCEPT !.objects = Tail(@), !.begun = TRUE]>> \o Tail(@)]
  /\ UNCHANGED <<debug, wid, left>>

(***************************************************************************)
(* read_obj: read () waits for a byte and returns what there is, up to     *)
(* sizeof (T) bytes.  Bytes that are not those of one object of the type   *)
(* are a garbled value: the process is lost, as it is after a wrong guard. *)
(***************************************************************************)
ReadObj(p) ==
  /\ proc[p].out = <<>> /\ proc[p].todo # <<>>
  /\ LET b == proc[p].from
         f == Head(proc[p].todo)
         size == Size[TypeOf(f.field)]
         n == IF size =< Len(bytes[b]) THEN size ELSE Len(bytes[b])
         o == bytes[b][1][1]
         whole == /\ SubSeq(bytes[b], 1, n) = [i \in 1 .. size |-> <<o, i>>]
                  /\ o.type = TypeOf(f.field)
         todo == Follow(f.field, o.value, proc[p].got) \o Tail(proc[p].todo)
     IN  /\ bytes[b] # <<>>
         /\ bytes' = [bytes EXCEPT ![b] = SubSeq(@, n + 1, Len(@))]
         /\ \/ /\ whole /\ (f.field = "guard" => o.value = f.expected)
               /\ proc' = [proc EXCEPT ![p].todo = todo,
                                       ![p].got = Store(f.field, o.value, @)]
               /\ posted' = IF todo = <<>> THEN [posted EXCEPT ![b] = Tail(@)] ELSE posted
            \/ /\ ~(whole /\ (f.field = "guard" => o.value = f.expected))
               /\ proc' = [proc EXCEPT ![p] = Waiting("lost", b, <<>>)]
               /\ UNCHANGED posted
  /\ UNCHANGED <<debug, wid, left>>

-----------------------------------------------------------------------------
(***************************************************************************)
(* run, the master.                                                        *)
(***************************************************************************)
(* to_pipe, or j_done. *)
SendJob(j, next) ==
  proc' = [proc EXCEPT ![Main] = [next EXCEPT !.out = <<Letter(FromMain(wid), j, WriteJob(j))>>]]

AwaitId == Waiting("id", Shared, Field("id"))

Spawn ==
  /\ proc[Main].at = "spawn" /\ Ready(Main)
  /\ \E j \in FormulaJobs :
       SendJob(j, IF wid + 1 \in Workers THEN Waiting("spawn", Shared, <<>>) ELSE AwaitId)
  /\ wid' = wid + 1
  /\ UNCHANGED <<debug, bytes, posted, left>>

GotId ==
  /\ proc[Main].at = "id" /\ Ready(Main)
  /\ wid' = proc[Main].got.id[1]
  /\ proc' = [proc EXCEPT ![Main] = IF wid' \in Workers
                                    THEN Waiting("result", ToMain(wid'), ReadResult)
                                    ELSE Waiting("lost", Shared, <<>>)]
  /\ UNCHANGED <<debug, bytes, posted, left>>

GotResult ==
  /\ proc[Main].at = "result" /\ Ready(Main)
  /\ \/ /\ left > 0
        /\ left' = left - 1
        /\ \E j \in FormulaJobs \cup SolveJobs : SendJob(j, AwaitId)
     \/ /\ left = 0
        /\ SendJob(DoneJob, Waiting("reap", Shared, <<>>))
        /\ UNCHANGED left
  /\ UNCHANGED <<debug, bytes, posted, wid>>

Reap ==
  /\ proc[Main].at = "reap" /\ Ready(Main)
  /\ proc[wid].at = "exited"
  /\ proc' = [proc EXCEPT ![Main] = IF \A w \in Workers : proc[w].at = "exited"
                                    THEN Waiting("end", Shared, <<>>)
                                    ELSE AwaitId]
  /\ UNCHANGED <<debug, bytes, posted, wid, left>>

-----------------------------------------------------------------------------
(***************************************************************************)
(* be_child, a worker.                                                     *)
(***************************************************************************)
GotDone(w) ==
  /\ proc[w].at = "job" /\ Ready(w) /\ proc[w].got.job[1] = job_type.done
  /\ proc' = [proc EXCEPT ![w] = Waiting("exited", Shared, <<>>)]
  /\ UNCHANGED <<debug, bytes, posted, wid, left>>

(* Mutant of AnswerLetters: the result is written first. *)
AnswerLettersLate(w, r) ==
  <<Letter(ToMain(w), r, WriteResult(r)), Letter(Shared, IdMessage(w), Obj("char", w))>>

(* First tell the master whose result comes, then write it. *)
AnswerLetters(w, r) ==
  <<Letter(Shared, IdMessage(w), Obj("char", w)), Letter(ToMain(w), r, WriteResult(r))>>

Answer(w) ==
  /\ proc[w].at = "job" /\ Ready(w) /\ proc[w].got.job[1] # job_type.done
  /\ \E r \in ResultsOf(proc[w].got.job[1]) :
       proc' = [proc EXCEPT ![w] = [Waiting("job", FromMain(w), Field("job"))
                                      EXCEPT !.out = AnswerLetters(w, r)]]
  /\ UNCHANGED <<debug, bytes, posted, wid, left>>

-----------------------------------------------------------------------------

Step(p) ==
  \/ WriteObj(p) \/ ReadObj(p)
  \/ p = Main /\ (Spawn \/ GotId \/ GotResult \/ Reap)
  \/ p \in Workers /\ (GotDone(p) \/ Answer(p))

Finished == proc[Main].at = "end" /\ UNCHANGED vars

Next == (\E p \in Processes : Step(p)) \/ Finished

(* Every process is scheduled. *)
FairSpec == Init /\ [][Next]_vars /\ \A p \in Processes : WF_vars(Step(p))

-----------------------------------------------------------------------------

(***************************************************************************)
(* Reader and writer stay in step: every read_obj returns one object, all  *)
(* of it, of the type it was written as, and guards are where they are     *)
(* expected - in the build without guards too.                             *)
(***************************************************************************)
Aligned == \A p \in Processes : proc[p].at # "lost"

(* The message a process has just read from pipe b. *)
Received(b) ==
  LET p == IF b[1] = "from_main" THEN b[2] ELSE Main
      got == proc[p].got
  IN  IF proc[p].from # b \/ ~Ready(p) \/ got = Nothing THEN <<>>
      ELSE CASE b[1] = "shared"    -> <<IdMessage(got.id[1])>>
             [] b[1] = "from_main" -> <<JobOf(got)>>
             [] b[1] = "to_main"   -> <<ResultOf(got)>>

Messages ==
  {DoneJob} \cup FormulaJobs \cup SolveJobs \cup UNION {ResultsOf(j) : j \in Range(job_type)}
  \cup {IdMessage(w) : w \in Workers}

Queues == INSTANCE Mailboxes WITH
  Boxes <- Pipes, queue <- posted, taken <- [b \in Pipes |-> Received(b)]

(***************************************************************************)
(* The pipes are queues of whole messages: what is read is the message     *)
(* that was written, in order, and every message is read although pipes    *)
(* fill up in the middle of one.                                           *)
(***************************************************************************)
ImplementsMailboxes == Queues!FairSpec
==============================================================================
