------------------------------ MODULE Peering ------------------------------
(***************************************************************************)
(* Who may deliver to this instance, and whom it publishes to: the         *)
(* federation_peers rows, the administrators who write them and the peers  *)
(* who ask to be accepted (api/internal/csilservices/federation.go), and   *)
(* the check of a delivery against the row.                                *)
(*                                                                         *)
(* An address may pass from one account to another; an identity is an      *)
(* account and its application, all four columns as one. A caller proves   *)
(* the identity it claims, so it is given as it is. What a delivery brings *)
(* is the module DirectoryReceiver's, how one is sent FederationSender's.  *)
(***************************************************************************)
EXTENDS Naturals

CONSTANTS
    Addresses, Identities,
    Rows,               \* identifiers of rows, each given out once
    NoPeer, Unknown,    \* no row, and the identity of a row that has none
    Calls,              \* service calls that may be at work at once
    \* Bounds of the model, none of them the code's
    MaxDecisions,       \* requests of administrators about a row
    MaxFaults           \* calls that break off

Statuses == {"none", "pending", "approved", "blocked"}
Peer == [address : Addresses, identity : Identities \cup {Unknown},
         inbound : Statuses, outbound : Statuses]

ASSUME BoundsAssumption == MaxDecisions \in Nat /\ MaxFaults \in Nat
ASSUME AbsentAssumption == NoPeer \notin Peer /\ Unknown \notin Identities

\* An argument that leaves its column as it is.
Keep == "keep"
ASSUME KeepAssumption == Keep \notin Identities \cup {Unknown}

VARIABLES
    peer, made,         \* the table federation_peers, and the identifiers given out
    heard,              \* by row, the identities whose deliveries were stored under it
    call,               \* what each call has left to do
    decisions, faults,
    \* History, read by properties only
    vouched,            \* by row, the identities an administrator accepted it under
    overtaken           \* calls with a row to make pending that was decided on since

vars == <<peer, made, heard, call, decisions, faults, vouched, overtaken>>

Idle == [at |-> "idle"]
Begin(c, k) == call[c] = Idle /\ call' = [call EXCEPT ![c] = k]
GoOn(c, k) == call' = [call EXCEPT ![c] = k]
Return(c) == GoOn(c, Idle)

Init ==
    /\ peer = [r \in Rows |-> NoPeer] /\ made = {}
    /\ heard = [r \in Rows |-> {}]
    /\ call = [c \in Calls |-> Idle]
    /\ decisions = 0 /\ faults = 0
    /\ vouched = [r \in Rows |-> {}] /\ overtaken = {}

\* PeerByAddress; the address is UNIQUE.
Recorded(a) == \E r \in Rows : peer[r] # NoPeer /\ peer[r].address = a
At(r, a) == peer[r] # NoPeer /\ peer[r].address = a

----------------------------------------------------------------------------
(* A new row *)

\* AddPeer, by an administrator, who knows an address and no identity.
AddPeer(c, a) ==
    /\ ~Recorded(a)
    /\ Begin(c, [at |-> "insert", address |-> a, identity |-> Unknown])
    /\ UNCHANGED <<peer, made, heard, decisions, faults, vouched, overtaken>>

\* RequestPeering of an address that is not recorded, by whoever holds it now.
Introduce(c, a, i) ==
    /\ ~Recorded(a)
    /\ Begin(c, [at |-> "insert", address |-> a, identity |-> i])
    /\ UNCHANGED <<peer, made, heard, decisions, faults, vouched, overtaken>>

\* Mutant of CreatePeer: the address is not unique, and a row comes to stand twice.
CreatePeer_Twice(c, r) ==
    /\ call[c].at = "insert" /\ r \notin made
    /\ peer' = [peer EXCEPT ![r] = [address |-> call[c].address, identity |-> call[c].identity,
                                    inbound |-> "none", outbound |-> "none"]]
    /\ made' = made \cup {r}
    /\ GoOn(c, [at |-> "reread", row |-> r, asked |-> call[c].identity # Unknown])
    /\ UNCHANGED <<heard, decisions, faults, vouched, overtaken>>

\* The insert of CreatePeer. It fails if the address has been recorded since.
CreatePeer(c, r) ==
    /\ call[c].at = "insert" /\ r \notin made
    /\ IF Recorded(call[c].address) THEN Return(c) /\ UNCHANGED <<peer, made>>
       ELSE /\ peer' = [peer EXCEPT ![r] = [address |-> call[c].address,
                                            identity |-> call[c].identity,
                                            inbound |-> "none", outbound |-> "none"]]
            /\ made' = made \cup {r}
            /\ GoOn(c, [at |-> "reread", row |-> r, asked |-> call[c].identity # Unknown])
    /\ UNCHANGED <<heard, decisions, faults, vouched, overtaken>>

Set(r, by, in, out, i) ==
    [at |-> "set", row |-> r, by |-> by, inbound |-> in, outbound |-> out, identity |-> i]
AskIn(r) == Set(r, "peer", "pending", Keep, Keep)

\* CreatePeer reads the row again: AddPeer goes on to the outbound direction,
\* RequestPeering to the inbound one if nobody has decided on it.
ReadNewPeer(c) ==
    /\ call[c].at = "reread"
    /\ LET r == call[c].row IN
       IF peer[r] = NoPeer \/ (call[c].asked /\ peer[r].inbound # "none") THEN Return(c)
       ELSE GoOn(c, IF call[c].asked THEN AskIn(r) ELSE Set(r, "adder", Keep, "pending", Keep))
    /\ overtaken' = overtaken \ {c}
    /\ UNCHANGED <<peer, made, heard, decisions, faults, vouched>>

----------------------------------------------------------------------------
(* A row that is there *)

\* Mutant of RequestPeering: the row takes the identity of whoever asks.
RequestPeering_Introduces(c, r, i) ==
    /\ peer[r] # NoPeer
    /\ Begin(c, [AskIn(r) EXCEPT !.identity = i,
                                 !.inbound = IF peer[r].inbound = "none" THEN @ ELSE Keep])
    /\ overtaken' = overtaken \ {c}
    /\ UNCHANGED <<peer, made, heard, decisions, faults, vouched>>

\* Mutant of RequestPeering: only a block stands in the way of asking again.
RequestPeering_AsksAgain(c, r, i) ==
    /\ peer[r] # NoPeer /\ peer[r].inbound # "blocked"
    /\ Begin(c, AskIn(r))
    /\ overtaken' = overtaken \ {c}
    /\ UNCHANGED <<peer, made, heard, decisions, faults, vouched>>

\* RequestPeering of an address that is recorded, by whoever holds it now: it is
\* made pending if nothing has been said of it, and its identity is not touched.
RequestPeering(c, r, i) ==
    /\ peer[r] # NoPeer /\ peer[r].inbound = "none"
    /\ Begin(c, AskIn(r))
    /\ overtaken' = overtaken \ {c}
    /\ UNCHANGED <<peer, made, heard, decisions, faults, vouched>>

\* To approve a row inbound takes an identity, in the request or read in the row.
Approvable(r, in, i) ==
    in = "approved" /\ i = Keep => peer[r] # NoPeer /\ peer[r].identity # Unknown

\* SetPeerStatus, by an administrator: any of the two directions and the identity.
SetPeerStatus(c, r, in, out, i) ==
    /\ r \in made /\ decisions < MaxDecisions
    /\ decisions' = decisions + 1
    /\ <<in, out, i>> # <<Keep, Keep, Keep>>
    /\ Approvable(r, in, i)
    /\ Begin(c, Set(r, "admin", in, out, i))
    /\ UNCHANGED <<peer, made, heard, faults, vouched, overtaken>>

Coalesce(new, old) == IF new = Keep THEN old ELSE new
\* Calls that are to make row r pending on what they read of it.
Asking(r) == {d \in Calls : call[d].at = "set" /\ call[d].by = "peer" /\ call[d].row = r}

\* The store's update by identifier: NULL leaves a column as it is.
StorePeerStatus(c) ==
    /\ call[c].at = "set"
    /\ LET k == call[c]
           old == peer[k.row]
           new == [old EXCEPT !.inbound = Coalesce(k.inbound, @),
                              !.outbound = Coalesce(k.outbound, @),
                              !.identity = Coalesce(k.identity, @)] IN
       IF old = NoPeer THEN UNCHANGED <<peer, vouched, overtaken>>
       ELSE /\ peer' = [peer EXCEPT ![k.row] = new]
            /\ vouched' = IF k.by = "admin" /\ (k.inbound = "approved" \/ k.identity # Keep)
                          THEN [vouched EXCEPT ![k.row] = @ \cup ({new.identity} \ {Unknown})]
                          ELSE vouched
            /\ overtaken' = IF k.by = "admin" /\ k.inbound # Keep
                            THEN overtaken \cup Asking(k.row) ELSE overtaken
    /\ Return(c)
    /\ UNCHANGED <<made, heard, decisions, faults>>

\* RemovePeer: what was stored under the row goes with it.
RemovePeer(r) ==
    /\ peer[r] # NoPeer /\ decisions < MaxDecisions
    /\ peer' = [peer EXCEPT ![r] = NoPeer]
    /\ heard' = [heard EXCEPT ![r] = {}]
    /\ decisions' = decisions + 1
    /\ UNCHANGED <<made, call, faults, vouched, overtaken>>

----------------------------------------------------------------------------
(* A delivery *)

\* verifiedPeer: the row of the address the sender gives, whose identity the
\* signature must be of; and it must be approved.
Verify(c, a, i) ==
    \E r \in Rows :
        /\ At(r, a) /\ peer[r].identity = i /\ peer[r].inbound = "approved"
        /\ Begin(c, [at |-> "store", row |-> r, from |-> i])
        /\ UNCHANGED <<peer, made, heard, decisions, faults, vouched, overtaken>>

\* remote_events has a foreign key: under a row that is gone nothing is stored.
StoreDelivery(c) ==
    /\ call[c].at = "store"
    /\ LET r == call[c].row IN
       heard' = IF peer[r] = NoPeer THEN heard
                ELSE [heard EXCEPT ![r] = @ \cup {call[c].from}]
    /\ Return(c)
    /\ UNCHANGED <<peer, made, decisions, faults, vouched, overtaken>>

\* A statement fails, or the process stops.
BreakOff(c) ==
    /\ call[c] # Idle /\ faults < MaxFaults
    /\ faults' = faults + 1
    /\ Return(c)
    /\ UNCHANGED <<peer, made, heard, decisions, vouched, overtaken>>

Administer(c) ==
    \/ \E a \in Addresses : AddPeer(c, a)
    \/ \E r \in Rows, in, out \in Statuses \cup {Keep}, i \in Identities \cup {Keep} :
            SetPeerStatus(c, r, in, out, i)

Ask(c, i) ==
    \/ \E a \in Addresses : Introduce(c, a, i) \/ Verify(c, a, i)
    \/ \E r \in Rows : RequestPeering(c, r, i)

GoAhead(c) ==
    \/ \E r \in Rows : CreatePeer(c, r)
    \/ ReadNewPeer(c) \/ StorePeerStatus(c) \/ StoreDelivery(c) \/ BreakOff(c)

Next ==
    \/ \E c \in Calls : Administer(c) \/ GoAhead(c) \/ \E i \in Identities : Ask(c, i)
    \/ \E r \in Rows : RemovePeer(r)

Spec == Init /\ [][Next]_vars

----------------------------------------------------------------------------
(* Properties *)

Work ==
    {Idle}
    \cup [at : {"insert"}, address : Addresses, identity : Identities \cup {Unknown}]
    \cup [at : {"reread"}, row : Rows, asked : BOOLEAN]
    \cup [at : {"set"}, row : Rows, by : {"admin", "adder", "peer"},
          inbound : Statuses \cup {Keep}, outbound : Statuses \cup {Keep},
          identity : Identities \cup {Keep}]
    \cup [at : {"store"}, row : Rows, from : Identities]

\* The rows are rows of the schema, and no two of them have one address.
TypeOK ==
    /\ peer \in [Rows -> Peer \cup {NoPeer}] /\ made \subseteq Rows
    /\ heard \in [Rows -> SUBSET Identities] /\ vouched \in [Rows -> SUBSET Identities]
    /\ call \in [Calls -> Work]
    /\ decisions \in 0..MaxDecisions /\ faults \in 0..MaxFaults
    /\ overtaken \subseteq Calls
    /\ \A r \in Rows : peer[r] # NoPeer => r \in made
    /\ \A r, q \in Rows : peer[r] # NoPeer /\ At(q, peer[r].address) => q = r

\* A row is approved under an identity an administrator accepted it under, and
\* only deliveries of such identities are stored under it: neither an address
\* that passes to another account nor a request that account makes transfers
\* trust (federation.go:171-182, 584-589 and 735-743).
OnlyTheVouchedAreHeard ==
    \A r \in Rows :
        /\ peer[r] # NoPeer /\ peer[r].inbound = "approved" => peer[r].identity \in vouched[r]
        /\ heard[r] \subseteq vouched[r]

\* Only an administrator answers: a request to be accepted does not change what
\* was decided on the row, unless it read the row before (federation.go:604).
AskingAgainIsNoWayOut ==
    [][\A r \in Rows :
          peer[r] # NoPeer /\ peer'[r] # NoPeer /\ peer[r].inbound \in {"approved", "blocked"} =>
              \/ peer'[r].inbound = peer[r].inbound
              \/ \E c \in Calls : /\ call[c].at = "set" /\ call'[c] = Idle /\ call[c].row = r
                                  /\ call[c].by = "admin" \/ c \in overtaken]_vars
=============================================================================
