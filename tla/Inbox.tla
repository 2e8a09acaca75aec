-------------------------------- MODULE Inbox --------------------------------
(***************************************************************************)
(* What a directory promises a peer about the envelopes it signs, and all  *)
(* that the peer's queue relies on: each is worked on by one call at a     *)
(* time, and once it has been applied, or its call has died with the       *)
(* claim, nothing works on it again. DirectoryReceiver implements it, and  *)
(* Federation puts it at the other end of FederationSender's requests.     *)
(***************************************************************************)

CONSTANT Envelopes

VARIABLE phase  \* "new", "working", "applied" or "abandoned"

Init == phase = [i \in Envelopes |-> "new"]

Take(i) == phase[i] = "new" /\ phase' = [phase EXCEPT ![i] = "working"]

\* Every event of the batch was dealt with.
Apply(i) == phase[i] = "working" /\ phase' = [phase EXCEPT ![i] = "applied"]

\* Something was refused for rate, or failed: the peer may try again.
GiveBack(i) == phase[i] = "working" /\ phase' = [phase EXCEPT ![i] = "new"]

\* The call ended without being able to give it back.
Abandon(i) == phase[i] = "working" /\ phase' = [phase EXCEPT ![i] = "abandoned"]

Next == \E i \in Envelopes : Take(i) \/ Apply(i) \/ GiveBack(i) \/ Abandon(i)

Spec == Init /\ [][Next]_phase
=============================================================================
