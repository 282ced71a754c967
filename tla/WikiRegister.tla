------------------------------ MODULE WikiRegister ------------------------------
(***************************************************************************)
(* What the publication of a knowledge space promises: the published wiki  *)
(* is one register.  A publication adds its changes to what is published,  *)
(* in one step, at most once, and nothing published is taken back.  The    *)
(* promise ends with `harmed`.                                             *)
(***************************************************************************)
CONSTANT Ops

VARIABLES content, harmed

vars == <<content, harmed>>

Init == content = {} /\ harmed = FALSE

Publish(p) ==
    /\ p \notin content
    /\ content' = content \cup {p}
    /\ UNCHANGED harmed

Harm == harmed' = TRUE /\ content' \subseteq Ops

Next == Harm \/ \E p \in Ops : Publish(p)

Spec == Init /\ [][Next]_vars
===============================================================================
