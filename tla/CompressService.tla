--------------------------- MODULE CompressService ---------------------------
(***************************************************************************)
(* What hw_compress promises its caller (linux_program/src/handlers.c):    *)
(* each thread that asks for a file to be compressed gets, once, the .hfc  *)
(* file of its own text.                                                   *)
(***************************************************************************)
EXTENDS HfcFormat

CONSTANTS Threads, Jobs

VARIABLES phase, request, reply

serviceVars == <<phase, request, reply>>

NoReply == <<>>

-----------------------------------------------------------------------------
(* The service *)

ServiceInit ==
    /\ phase = [t \in Threads |-> "idle"]
    /\ request \in [Threads -> Jobs]
    /\ reply = [t \in Threads |-> NoReply]

Ask(t, job) ==
    /\ phase[t] = "idle"
    /\ phase' = [phase EXCEPT ![t] = "busy"]
    /\ request' = [request EXCEPT ![t] = job]
    /\ reply' = [reply EXCEPT ![t] = NoReply]

Answer(t) ==
    /\ phase[t] = "busy"
    /\ phase' = [phase EXCEPT ![t] = "idle"]
    /\ reply' = [reply EXCEPT ![t] = HfcFile(request[t])]
    /\ UNCHANGED request

ServiceNext == \E t \in Threads : Answer(t) \/ \E job \in Jobs : Ask(t, job)

ServiceSpec ==
    /\ ServiceInit
    /\ [][ServiceNext]_serviceVars
    /\ \A t \in Threads : WF_serviceVars(Answer(t))
=============================================================================
