-------------------------------- MODULE Pipe --------------------------------
(* What one direction of the packet relay promises: a bounded pipe that    *)
(* hands packets on in the order it took them in, each once, none skipped. *)
(* Packets are numbered as they come in.                                   *)
EXTENDS Naturals, Sequences

CONSTANT Depth        \* how many packets it may hold
VARIABLES taken,      \* number of packets taken in
          given       \* the packets handed on

pipeVars == <<taken, given>>

Init == taken = 0 /\ given = << >>

Take(n) == taken' = taken + n /\ taken' - Len(given) <= Depth /\ UNCHANGED given

Give == /\ Len(given) < taken
        /\ given' = Append(given, Len(given) + 1)
        /\ UNCHANGED taken

Next == Give \/ \E n \in 1..Depth : Take(n)

Spec == Init /\ [][Next]_pipeVars
=============================================================================
