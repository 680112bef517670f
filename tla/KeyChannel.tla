----------------------------- MODULE KeyChannel -----------------------------
(***************************************************************************)
(* What a client relies on when it sends its keys away: the server handles *)
(* them one by one in the order they were typed, whatever else the two say *)
(* to each other meanwhile, and loses none as long as they are connected.  *)
(* lib/IMdkit implements it with a queue of its own beside the connection. *)
(***************************************************************************)
EXTENDS Naturals, Sequences

CONSTANT App            \* the clients

VARIABLES queue,        \* the keys of a client not yet handled, by number
          handled       \* the number of the last key handled

channel == <<queue, handled>>

Init == queue = [a \in App |-> <<>>] /\ handled = [a \in App |-> 0]

Type(a) == /\ queue' = [queue EXCEPT ![a] = Append(@, handled[a] + Len(@) + 1)]
           /\ UNCHANGED handled

Handle(a) == /\ queue[a] # <<>>
             /\ handled' = [handled EXCEPT ![a] = Head(queue[a])]
             /\ queue' = [queue EXCEPT ![a] = Tail(@)]

\* A client that hangs up gives up the keys it still has in the server.
HangUp(a) == /\ queue[a] # <<>>
             /\ queue' = [queue EXCEPT ![a] = <<>>]
             /\ UNCHANGED handled

Next == \E a \in App : Type(a) \/ Handle(a) \/ HangUp(a)

Spec == Init /\ [][Next]_channel
=============================================================================
