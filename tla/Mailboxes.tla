------------------------------ MODULE Mailboxes ------------------------------
(***************************************************************************)
(* What pipe_t (src/src/composition/pipes.hh) promises to the master and   *)
(* the workers: each pipe is a queue of whole messages, which are taken in *)
(* the order and with the content they were put in, and none is left       *)
(* unread for ever.  Module Composition uses pipes this way, and module    *)
(* Pipes implements this one by bytes.                                     *)
(***************************************************************************)
EXTENDS Sequences

CONSTANTS Boxes, Messages

VARIABLES
  queue,  \* the messages of each box
  taken   \* what was last taken out of each box, <<m>>, or <<>>

vars == <<queue, taken>>

Init ==
  /\ queue = [b \in Boxes |-> <<>>]
  /\ taken = [b \in Boxes |-> <<>>]

(* A message that was taken is forgotten when it is not needed any more. *)
Forgets(b) == taken'[b] \in {taken[b], <<>>}

Put(b) ==
  /\ \E m \in Messages : queue' = [queue EXCEPT ![b] = Append(@, m)]
  /\ DOMAIN taken' = Boxes /\ \A c \in Boxes : Forgets(c)

Take(b) ==
  /\ queue[b] # <<>>
  /\ queue' = [queue EXCEPT ![b] = Tail(@)]
  /\ DOMAIN taken' = Boxes /\ \A c \in Boxes \ {b} : Forgets(c)
  /\ taken'[b] = <<Head(queue[b])>>

Forget ==
  /\ DOMAIN taken' = Boxes /\ \A c \in Boxes : Forgets(c)
  /\ UNCHANGED queue

Next == Forget \/ \E b \in Boxes : Put(b) \/ Take(b)

(* Whatever was put is taken: Take (b) is fair, and possible while box b is not empty. *)
FairSpec ==
  /\ Init /\ [][Next]_vars
  /\ \A b \in Boxes : []<>(queue[b] = <<>>) \/ []<><<Take(b)>>_vars
==============================================================================
