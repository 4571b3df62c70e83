--------------------------- MODULE SSCClientLife ---------------------------
(***************************************************************************)
(* What an SSCClient promises to whoever creates one: a creation ends with *)
(* a client or without; a client stays up while somebody owns it or one of *)
(* its requests has not returned, is disposed once neither is the case,    *)
(* and takes no new request from then on.                                  *)
(***************************************************************************)
VARIABLES
    life,   \* "none", "creating", "failed", "up", "disposing", "gone"
    owned,  \* somebody holds the client
    busy    \* one of its requests has not returned

vars == <<life, owned, busy>>

Init == life = "none" /\ owned = FALSE /\ busy = FALSE

Create == life = "none" /\ life' = "creating" /\ UNCHANGED <<owned, busy>>

\* The new client may be used at once, by the one who receives it.
Created ==
    /\ life = "creating"
    /\ \/ life' = "up" /\ owned' = TRUE /\ busy' \in BOOLEAN
       \/ life' = "failed" /\ UNCHANGED <<owned, busy>>

\* Its owner sends requests or lets go, requests return.
Use ==
    /\ life = "up"
    /\ owned' \in {owned, FALSE}
    /\ busy' \in {owned, busy, FALSE}
    /\ life' = IF owned' \/ busy' THEN "up" ELSE "disposing"

Disposed == life = "disposing" /\ life' = "gone" /\ UNCHANGED <<owned, busy>>

Next == Create \/ Created \/ Use \/ Disposed

Spec == Init /\ [][Next]_vars

\* A creation ends and so does a disposal.
FairSpec == Spec /\ WF_vars(Created) /\ WF_vars(Disposed)

=============================================================================
