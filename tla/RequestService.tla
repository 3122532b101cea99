--------------------------- MODULE RequestService ---------------------------
(***************************************************************************)
(* What the server promises about requests, without rings, sizes and       *)
(* slots.  They arrive in packets of one or more.  Packets are served in   *)
(* the order they arrive, and in the end: the first request of a packet    *)
(* gets one reply if its handler gives one, the requests behind it are     *)
(* dropped.  A packet whose first request has no handler halts the server. *)
(* The promise ends when a request arrives damaged (broken).               *)
(***************************************************************************)
EXTENDS Sequences

VARIABLES inbox, answered, dropped, halted, broken

vars == <<inbox, answered, dropped, halted, broken>>

Init == inbox = <<>> /\ answered = <<>> /\ dropped = {} /\ ~ halted /\ ~ broken

Arrive ==
  /\ \E packet \in {inbox'[k] : k \in DOMAIN inbox'} : inbox' = Append(inbox, packet)
  /\ UNCHANGED <<answered, dropped, halted, broken>>

Due(handler) ==
  /\ inbox # <<>> /\ Head(inbox).handler = handler
  /\ ~ halted /\ ~ broken /\ UNCHANGED broken

Taken ==
  /\ inbox' = Tail(inbox)
  /\ dropped' = dropped \cup Head(inbox).behind
  /\ UNCHANGED halted

Answer == Due("replies") /\ Taken /\ answered' = Append(answered, Head(inbox).first)

Note == Due("silent") /\ Taken /\ UNCHANGED answered

Halt == Due("none") /\ halted' = TRUE /\ UNCHANGED <<inbox, answered, dropped>>

Break == broken'

Serve == Answer \/ Note \/ Halt

Next == Arrive \/ Serve \/ Break

Spec == Init /\ [][Next]_vars

FairSpec == Spec /\ WF_vars(Serve)
=============================================================================
