----------------------------- MODULE PayloadStore -----------------------------
(***************************************************************************)
(* What the FDv2 data system promises to those who read flag data: at any  *)
(* time they see nothing, or exactly one payload of the service, whole,    *)
(* and never an older one than before.                                     *)
(***************************************************************************)
EXTENDS Naturals, Sequences

CONSTANT Payloads           \* the data sets that the service may have

VARIABLES
    history,        \* the service's payloads so far
    seen            \* what readers see: no payload or one

Init ==
    /\ history \in {<<p>> : p \in Payloads}
    /\ seen = {}

Publish ==
    /\ \E p \in Payloads : history' = Append(history, p)
    /\ UNCHANGED seen

Serve ==
    /\ \E n \in DOMAIN history :
          /\ seen = {} \/ \E m \in 1 .. n : seen = {history[m]}
          /\ seen' = {history[n]}
    /\ UNCHANGED history

Next == Publish \/ Serve

Spec == Init /\ [][Next]_<<history, seen>>
=============================================================================
