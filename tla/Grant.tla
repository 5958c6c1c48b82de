-------------------------------- MODULE Grant --------------------------------
(* What an option negotiation promises: it ends with options the peer has  *)
(* granted, an address among them, or it fails.  Module Ipcp implements it. *)
CONSTANTS Options, Usable(_), Nothing

VARIABLES granted,   \* option lists the peer has granted so far
          status,    \* negotiating, opened, failed
          adopted    \* the options adopted, Nothing before

grantVars == <<granted, status, adopted>>

Init == granted = {} /\ status = "negotiating" /\ adopted = Nothing

Grant == /\ \E o \in Options : granted' = granted \cup {o}
         /\ UNCHANGED <<status, adopted>>

Adopt == /\ status = "negotiating" /\ status' = "opened"
         /\ adopted' \in granted /\ Usable(adopted')
         /\ UNCHANGED granted

Fail == /\ status = "negotiating" /\ status' = "failed"
        /\ UNCHANGED <<granted, adopted>>

Next == Grant \/ Adopt \/ Fail

Spec == Init /\ [][Next]_grantVars
=============================================================================
