------------------------------- MODULE Front --------------------------------
(***************************************************************************)
(* The request side of the server: the gate every request passes, the      *)
(* paged list of codes and the rendering of images.  They share no state,  *)
(* so a behaviour is about one of them and their steps are not interleaved *)
(* with each other, only their own actors' are.                            *)
(***************************************************************************)
EXTENDS Gate, CodeList, QrApi

VARIABLE subject    \* what the behaviour is about

frontVars == <<gateVars, listVars, qr, subject>>

FrontInit ==
    /\ GateInit /\ ListInit /\ QrInit
    /\ subject \in {"gate", "list", "image"}

Gating == subject = "gate" /\ UNCHANGED <<listVars, qr, subject>>

Listing == subject = "list" /\ UNCHANGED <<gateVars, qr, subject>>

Imaging == subject = "image" /\ UNCHANGED <<gateVars, listVars, subject>>

FrontNext ==
    \/ Gating /\ GateNext
    \/ Listing /\ ListNext
    \/ Imaging /\ QrNext

\* The scheduler runs a worker that can go on, and a select that is ready.
FrontSpec ==
    /\ FrontInit /\ [][FrontNext]_frontVars
    /\ WF_frontVars(Worker /\ Imaging)
    /\ WF_frontVars(Select /\ Imaging)
=============================================================================
