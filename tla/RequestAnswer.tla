---------------------------- MODULE RequestAnswer ----------------------------
(***************************************************************************)
(* What a Modbus master may expect of a slave: it asks, the slave carries  *)
(* the request out, once, and answers it, once, before the next request;   *)
(* a broadcast is carried out and not answered; frames that are damaged,   *)
(* of an impossible length or for another slave have no effect.            *)
(***************************************************************************)
EXTENDS Naturals, Sequences

CONSTANTS
    Frames,        \* frames a master may send: [to, len, good]
    Lengths,       \* the lengths a frame may have
    MaxRequests    \* bound: frames the master sends

VARIABLES
    asked,     \* the frames sent
    done,      \* how often each was carried out
    replied,   \* how often each was answered
    spurious   \* effects that belong to no request

vars == <<asked, done, replied, spurious>>

Requests == 1..MaxRequests
Last == Len(asked)

Serviceable(f) == f.good /\ f.to \in {"us", "broadcast"} /\ f.len \in Lengths

\* Nothing is left to do for the last request.
Finished ==
    asked # << >> /\ Serviceable(asked[Last]) =>
        /\ done[Last] = 1
        /\ asked[Last].to = "us" => replied[Last] = 1

Init ==
    /\ asked = << >> /\ spurious = {}
    /\ done = [n \in Requests |-> 0] /\ replied = [n \in Requests |-> 0]

Ask ==
    /\ Finished /\ Last < MaxRequests
    /\ \E f \in Frames : asked' = Append(asked, f)
    /\ UNCHANGED <<done, replied, spurious>>

CarryOut ==
    /\ asked # << >> /\ Serviceable(asked[Last]) /\ done[Last] = 0
    /\ done' = [done EXCEPT ![Last] = 1]
    /\ UNCHANGED <<asked, replied, spurious>>

Reply ==
    /\ asked # << >> /\ asked[Last].to = "us"
    /\ done[Last] = 1 /\ replied[Last] = 0
    /\ replied' = [replied EXCEPT ![Last] = 1]
    /\ UNCHANGED <<asked, done, spurious>>

Next == Ask \/ CarryOut \/ Reply

\* Every request is carried out and answered in the end.
Finishes == ~ Finished ~> Finished

\* What a slave may do, without the promise that it does it.
Safety == Init /\ [][Next]_vars

Spec == Safety /\ Finishes
=============================================================================
