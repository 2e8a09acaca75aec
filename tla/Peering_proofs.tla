--------------------------- MODULE Peering_proofs ---------------------------
(***************************************************************************)
(* The rows are rows of the schema, trust is not transferred, and asking   *)
(* again is no way out, for every value of the constants.                  *)
(***************************************************************************)
EXTENDS Peering, TLAPS

Sets == [at : {"set"}, row : Rows, by : {"admin", "adder", "peer"},
         inbound : Statuses \cup {Keep}, outbound : Statuses \cup {Keep},
         identity : Identities \cup {Keep}]

\* What a call at each point has in hand.
LEMMA CallShapes ==
    ASSUME TypeOK, NEW c \in Calls
    PROVE  /\ call[c].at = "insert" => /\ call[c].address \in Addresses
                                       /\ call[c].identity \in Identities \cup {Unknown}
           /\ call[c].at = "reread" => call[c].row \in Rows /\ call[c].asked \in BOOLEAN
           /\ call[c].at = "set" => call[c] \in Sets
           /\ call[c].at = "store" => call[c].row \in Rows /\ call[c].from \in Identities
  BY DEF TypeOK, Work, Idle, Sets

LEMMA SetIsWork ==
    ASSUME NEW r \in Rows, NEW by \in {"admin", "adder", "peer"}, NEW in \in Statuses \cup {Keep},
           NEW out \in Statuses \cup {Keep}, NEW i \in Identities \cup {Keep}
    PROVE  Set(r, by, in, out, i) \in Work /\ Set(r, by, in, out, i) \in Sets
  BY DEF Set, Sets, Work

----------------------------------------------------------------------------
(* Types *)

LEMMA TypeInit == Init => TypeOK
  BY BoundsAssumption, AbsentAssumption DEF Init, TypeOK, Work, At

\* A call begins, goes on or returns, and no row changes.
LEMMA TypeCall ==
    ASSUME TypeOK, NEW c \in Calls, NEW k \in Work, GoOn(c, k),
           UNCHANGED <<peer, made, heard, vouched>>, overtaken' \subseteq Calls,
           decisions' \in 0..MaxDecisions, faults' \in 0..MaxFaults
    PROVE  TypeOK'
  BY DEF TypeOK, GoOn, At

LEMMA TypeStep == TypeOK /\ [Next]_vars => TypeOK'
<1> SUFFICES ASSUME TypeOK, [Next]_vars
             PROVE  TypeOK'
  OBVIOUS
<1> USE BoundsAssumption, AbsentAssumption, KeepAssumption
<1>0. Idle \in Work /\ "pending" \in Statuses
  BY DEF Work, Statuses
<1>1. ASSUME NEW c \in Calls, Administer(c)
      PROVE  TypeOK'
  <2>1. ASSUME NEW a \in Addresses, AddPeer(c, a)
        PROVE  TypeOK'
    <3>1. [at |-> "insert", address |-> a, identity |-> Unknown] \in Work
      BY DEF Work
    <3>2. QED
      BY <2>1, <3>1, TypeCall DEF AddPeer, Begin, GoOn, TypeOK
  <2>2. ASSUME NEW r \in Rows, NEW in \in Statuses \cup {Keep}, NEW out \in Statuses \cup {Keep},
               NEW i \in Identities \cup {Keep}, SetPeerStatus(c, r, in, out, i)
        PROVE  TypeOK'
    <3>1. Set(r, "admin", in, out, i) \in Work
      BY SetIsWork
    <3>2. decisions' \in 0..MaxDecisions
      BY <2>2 DEF SetPeerStatus, TypeOK
    <3>3. QED
      BY <2>2, <3>1, <3>2, TypeCall DEF SetPeerStatus, Begin, GoOn, TypeOK
  <2>3. QED
    BY <1>1, <2>1, <2>2 DEF Administer
<1>2. ASSUME NEW c \in Calls, NEW i \in Identities, Ask(c, i)
      PROVE  TypeOK'
  <2>1. ASSUME NEW a \in Addresses, Introduce(c, a, i)
        PROVE  TypeOK'
    <3>1. [at |-> "insert", address |-> a, identity |-> i] \in Work
      BY DEF Work
    <3>2. QED
      BY <2>1, <3>1, TypeCall DEF Introduce, Begin, GoOn, TypeOK
  <2>2. ASSUME NEW a \in Addresses, NEW r \in Rows,
               Begin(c, [at |-> "store", row |-> r, from |-> i]),
               UNCHANGED <<peer, made, heard, decisions, faults, vouched, overtaken>>
        PROVE  TypeOK'
    <3>1. [at |-> "store", row |-> r, from |-> i] \in Work
      BY DEF Work
    <3>2. QED
      BY <2>2, <3>1, TypeCall DEF Begin, GoOn, TypeOK
  <2>3. ASSUME NEW r \in Rows, RequestPeering(c, r, i)
        PROVE  TypeOK'
    <3>1. AskIn(r) \in Work
      BY <1>0, SetIsWork DEF AskIn
    <3>2. QED
      BY <2>3, <3>1, TypeCall DEF RequestPeering, Begin, GoOn, TypeOK
  <2>4. QED
    BY <1>2, <2>1, <2>2, <2>3 DEF Ask, Verify
<1>3. ASSUME NEW c \in Calls, GoAhead(c)
      PROVE  TypeOK'
  <2>1. ASSUME NEW r \in Rows, CreatePeer(c, r)
        PROVE  TypeOK'
    <3>1. CASE Recorded(call[c].address)
      BY <2>1, <3>1, <1>0, TypeCall DEF CreatePeer, Return, TypeOK
    <3>2. CASE ~Recorded(call[c].address)
      <4> DEFINE new == [address |-> call[c].address, identity |-> call[c].identity,
                         inbound |-> "none", outbound |-> "none"]
                 k == [at |-> "reread", row |-> r, asked |-> call[c].identity # Unknown]
      <4>1. new \in Peer /\ new # NoPeer /\ k \in Work
        BY <2>1, CallShapes DEF CreatePeer, Peer, Statuses, Work
      <4>2. /\ peer' = [peer EXCEPT ![r] = new] /\ made' = made \cup {r}
            /\ call' = [call EXCEPT ![c] = k]
            /\ UNCHANGED <<heard, decisions, faults, vouched, overtaken>>
        BY <2>1, <3>2 DEF CreatePeer, GoOn
      <4>3. \A q \in Rows : peer'[q] # NoPeer => q \in made'
        BY <4>2 DEF TypeOK
      <4>4. ASSUME NEW p \in Rows, NEW q \in Rows, peer'[p] # NoPeer, At(q, peer[p].address)'
            PROVE  q = p
        <5>1. \A s \in Rows : s # r => peer'[s] = peer[s]
          BY <4>2 DEF TypeOK
        <5>2. peer'[r] = new
          BY <4>2 DEF TypeOK
        <5>3. CASE p # r /\ q # r
          BY <4>4, <5>1, <5>3 DEF TypeOK, At
        <5>4. \A s \in Rows : s # r /\ peer'[s] # NoPeer => peer'[s].address # new.address
          BY <3>2, <5>1 DEF Recorded
        <5>5. peer'[q] # NoPeer /\ peer'[q].address = peer'[p].address
          BY <4>4 DEF At
        <5>6. QED
          BY <4>4, <5>2, <5>3, <5>4, <5>5
      <4>5. QED
        BY <4>1, <4>2, <4>3, <4>4 DEF TypeOK
    <3>3. QED
      BY <3>1, <3>2
  <2>2. CASE ReadNewPeer(c)
    <3> DEFINE r == call[c].row
               k == IF call[c].asked THEN AskIn(r) ELSE Set(r, "adder", Keep, "pending", Keep)
    <3>1. k \in Work
      BY <2>2, <1>0, CallShapes, SetIsWork DEF ReadNewPeer, AskIn
    <3>2. GoOn(c, k) \/ GoOn(c, Idle)
      BY <2>2 DEF ReadNewPeer, Return
    <3>3. QED
      BY <2>2, <3>1, <3>2, <1>0, TypeCall DEF ReadNewPeer, TypeOK
  <2>3. CASE StorePeerStatus(c)
    <3> DEFINE k == call[c]
               old == peer[k.row]
               new == [old EXCEPT !.inbound = Coalesce(k.inbound, @),
                                  !.outbound = Coalesce(k.outbound, @),
                                  !.identity = Coalesce(k.identity, @)]
    <3>1. k \in Sets
      BY <2>3, CallShapes DEF StorePeerStatus
    <3>2. CASE old = NoPeer
      BY <2>3, <3>2, <1>0, TypeCall DEF StorePeerStatus, Return, TypeOK
    <3>3. CASE old # NoPeer
      <4>1. k.row \in Rows /\ old \in Peer
        BY <3>1, <3>3 DEF Sets, TypeOK
      <4>2. new \in Peer /\ new.address = old.address /\ new # NoPeer
        BY <3>1, <4>1 DEF Sets, Peer, Coalesce
      <4>3. peer' = [peer EXCEPT ![k.row] = new] /\ call' = [call EXCEPT ![c] = Idle]
        BY <2>3, <3>3 DEF StorePeerStatus, Return, GoOn
      <4>4. vouched' \in [Rows -> SUBSET Identities]
        <5>1. {new.identity} \ {Unknown} \subseteq Identities
          BY <4>2 DEF Peer
        <5>2. vouched' = vouched \/ vouched' = [vouched EXCEPT ![k.row] = @ \cup ({new.identity} \ {Unknown})]
          BY <2>3, <3>3 DEF StorePeerStatus
        <5>3. QED
          BY <4>1, <5>1, <5>2 DEF TypeOK
      <4>5. overtaken' \subseteq Calls
        BY <2>3, <3>3 DEF StorePeerStatus, Asking, TypeOK
      <4>6. UNCHANGED <<made, heard, decisions, faults>>
        BY <2>3 DEF StorePeerStatus
      <4>7. \A q \in Rows : /\ peer'[q] = NoPeer <=> peer[q] = NoPeer
                            /\ peer'[q] # NoPeer => peer'[q].address = peer[q].address
        BY <3>3, <4>1, <4>2, <4>3 DEF TypeOK
      <4>8. \A p, q \in Rows : peer'[p] # NoPeer /\ At(q, peer[p].address)' => q = p
        BY <4>7 DEF TypeOK, At
      <4>9. \A q \in Rows : peer'[q] # NoPeer => q \in made'
        BY <4>6, <4>7 DEF TypeOK
      <4>10. QED
        BY <1>0, <4>1, <4>2, <4>3, <4>4, <4>5, <4>6, <4>8, <4>9 DEF TypeOK
    <3>4. QED
      BY <3>2, <3>3
  <2>4. CASE StoreDelivery(c)
    <3>1. call[c].row \in Rows /\ call[c].from \in Identities
      BY <2>4, CallShapes DEF StoreDelivery
    <3>2. heard' \in [Rows -> SUBSET Identities]
      BY <2>4, <3>1 DEF StoreDelivery, TypeOK
    <3>3. QED
      BY <2>4, <3>2, <1>0 DEF StoreDelivery, Return, GoOn, TypeOK, At
  <2>5. CASE BreakOff(c)
    <3>1. faults' \in 0..MaxFaults
      BY <2>5 DEF BreakOff, TypeOK
    <3>2. QED
      BY <2>5, <3>1, <1>0, TypeCall DEF BreakOff, Return, TypeOK
  <2>6. QED
    BY <1>3, <2>1, <2>2, <2>3, <2>4, <2>5 DEF GoAhead
<1>4. ASSUME NEW r \in Rows, RemovePeer(r)
      PROVE  TypeOK'
  <2>1. \A q \in Rows : peer'[q] # NoPeer => peer'[q] = peer[q]
    BY <1>4 DEF RemovePeer, TypeOK
  <2>2. peer' \in [Rows -> Peer \cup {NoPeer}] /\ heard' \in [Rows -> SUBSET Identities]
    BY <1>4 DEF RemovePeer, TypeOK
  <2>3. \A p, q \in Rows : peer'[p] # NoPeer /\ At(q, peer[p].address)' => q = p
    BY <2>1 DEF TypeOK, At
  <2>4. QED
    BY <1>4, <2>1, <2>2, <2>3 DEF RemovePeer, TypeOK
<1>5. CASE UNCHANGED vars
  BY <1>5 DEF vars, TypeOK, At
<1>6. QED
  BY <1>1, <1>2, <1>3, <1>4, <1>5 DEF Next

\* The rows are rows of the schema: an address is recorded once, whatever two
\* administrators and a peer record at once.
THEOREM PeeringTypeOK == Spec => []TypeOK
  BY TypeInit, TypeStep, PTL DEF Spec

----------------------------------------------------------------------------
(* Trust *)

\* What a call is about to do was true of its row when it read it, and either
\* cannot have changed since or does not matter.
Meant(k) ==
    /\ k.at = "reread" => k.row \in made
    /\ k.at = "store" => k.row \in made /\ k.from \in vouched[k.row]
    /\ k.at = "set" =>
        /\ k.row \in made
        /\ k.by # "admin" => k.inbound # "approved" /\ k.identity = Keep
        /\ k.inbound = "approved" /\ k.identity = Keep /\ peer[k.row] # NoPeer =>
               peer[k.row].identity # Unknown
TrustInv == TypeOK /\ OnlyTheVouchedAreHeard /\ \A c \in Calls : Meant(call[c])

\* One call has something new in hand, and no row changes.
LEMMA TrustCall ==
    ASSUME TrustInv, TypeOK', NEW c \in Calls, NEW k \in Work, GoOn(c, k), Meant(k),
           UNCHANGED <<peer, made, heard, vouched>>
    PROVE  TrustInv'
<1>1. \A d \in Calls : call'[d] = IF d = c THEN k ELSE call[d]
  BY DEF TrustInv, TypeOK, GoOn
<1>2. \A d \in Calls : Meant(call[d])'
  BY <1>1 DEF TrustInv, Meant
<1>3. QED
  BY <1>2 DEF TrustInv, OnlyTheVouchedAreHeard

LEMMA TrustInit == Init => TrustInv
  BY TypeInit DEF Init, TrustInv, OnlyTheVouchedAreHeard, Meant, Idle

LEMMA TrustStep == TrustInv /\ [Next]_vars => TrustInv'
<1> SUFFICES ASSUME TrustInv, [Next]_vars
             PROVE  TrustInv'
  OBVIOUS
<1>0. TypeOK /\ TypeOK' /\ Idle \in Work /\ Meant(Idle)
  BY TypeStep DEF TrustInv, Work, Meant, Idle
<1>1. ASSUME NEW c \in Calls, Administer(c)
      PROVE  TrustInv'
  <2>1. ASSUME NEW a \in Addresses, AddPeer(c, a)
        PROVE  TrustInv'
    <3> DEFINE k == [at |-> "insert", address |-> a, identity |-> Unknown]
    <3>1. k \in Work /\ Meant(k)
      BY DEF Work, Meant
    <3>2. QED
      BY <1>0, <2>1, <3>1, TrustCall DEF AddPeer, Begin, GoOn
  <2>2. ASSUME NEW r \in Rows, NEW in \in Statuses \cup {Keep}, NEW out \in Statuses \cup {Keep},
               NEW i \in Identities \cup {Keep}, SetPeerStatus(c, r, in, out, i)
        PROVE  TrustInv'
    <3>1. Meant(Set(r, "admin", in, out, i)) /\ Set(r, "admin", in, out, i) \in Work
      BY <2>2, SetIsWork DEF SetPeerStatus, Approvable, Meant, Set
    <3>2. QED
      BY <1>0, <2>2, <3>1, TrustCall DEF SetPeerStatus, Begin, GoOn
  <2>3. QED
    BY <1>1, <2>1, <2>2 DEF Administer
<1>2. ASSUME NEW c \in Calls, NEW i \in Identities, Ask(c, i)
      PROVE  TrustInv'
  <2>1. ASSUME NEW a \in Addresses, Introduce(c, a, i)
        PROVE  TrustInv'
    <3> DEFINE k == [at |-> "insert", address |-> a, identity |-> i]
    <3>1. k \in Work /\ Meant(k)
      BY DEF Work, Meant
    <3>2. QED
      BY <1>0, <2>1, <3>1, TrustCall DEF Introduce, Begin, GoOn
  <2>2. ASSUME NEW r \in Rows, peer[r] # NoPeer, peer[r].identity = i, peer[r].inbound = "approved",
               Begin(c, [at |-> "store", row |-> r, from |-> i]),
               UNCHANGED <<peer, made, heard, decisions, faults, vouched, overtaken>>
        PROVE  TrustInv'
    <3> DEFINE k == [at |-> "store", row |-> r, from |-> i]
    <3>1. k \in Work /\ Meant(k)
      BY <2>2, <1>0 DEF Work, Meant, TrustInv, OnlyTheVouchedAreHeard, TypeOK
    <3>2. QED
      BY <1>0, <2>2, <3>1, TrustCall DEF Begin, GoOn
  <2>3. ASSUME NEW r \in Rows, RequestPeering(c, r, i)
        PROVE  TrustInv'
    <3>1. AskIn(r) \in Work /\ Meant(AskIn(r))
      BY <2>3, <1>0, SetIsWork DEF RequestPeering, AskIn, Set, Meant, Statuses, TypeOK
    <3>2. QED
      BY <1>0, <2>3, <3>1, TrustCall DEF RequestPeering, Begin, GoOn
  <2>4. QED
    BY <1>2, <2>1, <2>2, <2>3 DEF Ask, Verify, At
<1>3. ASSUME NEW c \in Calls, GoAhead(c)
      PROVE  TrustInv'
  <2>1. ASSUME NEW r \in Rows, CreatePeer(c, r)
        PROVE  TrustInv'
    <3>1. CASE Recorded(call[c].address)
      BY <1>0, <2>1, <3>1, TrustCall DEF CreatePeer, Return
    <3>2. CASE ~Recorded(call[c].address)
      <4> DEFINE k == [at |-> "reread", row |-> r, asked |-> call[c].identity # Unknown]
      <4>1. /\ \A q \in Rows : q # r => peer'[q] = peer[q]
            /\ peer'[r].inbound = "none"
            /\ made' = made \cup {r} /\ r \notin made
            /\ call' = [call EXCEPT ![c] = k]
            /\ UNCHANGED <<heard, vouched>>
        BY <2>1, <3>2, <1>0 DEF CreatePeer, GoOn, TypeOK
      <4>2. OnlyTheVouchedAreHeard'
        BY <4>1 DEF OnlyTheVouchedAreHeard, TrustInv
      <4>3. ASSUME NEW d \in Calls
            PROVE  Meant(call[d])'
        <5>1. CASE d = c
          BY <1>0, <4>1, <5>1 DEF Meant, TypeOK
        <5>2. CASE d # c
          <6>1. call'[d] = call[d] /\ Meant(call[d])
            BY <4>1, <5>2, <1>0 DEF TypeOK, TrustInv
          <6>2. call[d].at = "set" => call[d].row \in Rows
            BY <1>0, CallShapes DEF Sets
          <6>3. QED
            BY <4>1, <6>1, <6>2 DEF Meant
        <5>3. QED
          BY <5>1, <5>2
      <4>4. QED
        BY <1>0, <4>2, <4>3 DEF TrustInv
    <3>3. QED
      BY <3>1, <3>2
  <2>2. CASE ReadNewPeer(c)
    <3> DEFINE r == call[c].row
               k == IF call[c].asked THEN AskIn(r) ELSE Set(r, "adder", Keep, "pending", Keep)
    <3>1. r \in Rows /\ r \in made
      BY <2>2, <1>0, CallShapes DEF ReadNewPeer, TrustInv, Meant
    <3>2. "pending" \in Statuses /\ Keep # "approved" /\ "pending" # "approved"
      BY DEF Statuses, Keep
    <3>3. AskIn(r) \in Work /\ Set(r, "adder", Keep, "pending", Keep) \in Work
      BY <3>1, <3>2, SetIsWork DEF AskIn
    <3>4. Meant(AskIn(r)) /\ Meant(Set(r, "adder", Keep, "pending", Keep))
      BY <3>1, <3>2 DEF AskIn, Set, Meant
    <3>5. GoOn(c, k) \/ GoOn(c, Idle)
      BY <2>2 DEF ReadNewPeer, Return
    <3>6. UNCHANGED <<peer, made, heard, vouched>>
      BY <2>2 DEF ReadNewPeer
    <3>7. QED
      BY <1>0, <3>3, <3>4, <3>5, <3>6, TrustCall
  <2>3. CASE StorePeerStatus(c)
    <3> DEFINE k == call[c]
               old == peer[k.row]
               new == [old EXCEPT !.inbound = Coalesce(k.inbound, @),
                                  !.outbound = Coalesce(k.outbound, @),
                                  !.identity = Coalesce(k.identity, @)]
    <3>1. k \in Sets /\ Meant(k)
      BY <2>3, <1>0, CallShapes DEF StorePeerStatus, TrustInv
    <3>2. CASE old = NoPeer
      BY <2>3, <3>2, <1>0, TrustCall DEF StorePeerStatus, Return
    <3>3. CASE old # NoPeer
      <4>1. k.row \in Rows /\ old \in Peer
        BY <1>0, <3>1, <3>3 DEF Sets, TypeOK
      <4>2. /\ new.inbound = Coalesce(k.inbound, old.inbound)
            /\ new.identity = Coalesce(k.identity, old.identity)
        BY <4>1 DEF Peer
      <4>3. /\ peer'[k.row] = new /\ \A q \in Rows : q # k.row => peer'[q] = peer[q]
            /\ call' = [call EXCEPT ![c] = Idle]
            /\ UNCHANGED <<made, heard>>
        BY <1>0, <2>3, <3>3, <4>1 DEF StorePeerStatus, Return, GoOn, TypeOK
      <4>4. \A q \in Rows : vouched[q] \subseteq vouched'[q]
        BY <1>0, <2>3, <3>3, <4>1 DEF StorePeerStatus, TypeOK
      <4>5. (k.by = "admin" /\ (k.inbound = "approved" \/ k.identity # Keep)) =>
                ({new.identity} \ {Unknown}) \subseteq vouched'[k.row]
        BY <1>0, <2>3, <3>3, <4>1 DEF StorePeerStatus, TypeOK
      <4>6. old.identity # Unknown => new.identity # Unknown
        BY <3>1, <4>2, AbsentAssumption DEF Coalesce, Sets
      <4>7. k.identity # Keep => new.identity # Unknown
        BY <3>1, <4>2, AbsentAssumption DEF Coalesce, Sets
      <4>8. new.inbound = "approved" => new.identity \in vouched'[k.row]
        <5> SUFFICES ASSUME new.inbound = "approved"
                     PROVE  new.identity \in vouched'[k.row]
          OBVIOUS
        <5>1. CASE k.inbound = "approved"
          <6>1. k.by = "admin" /\ new.identity # Unknown
            BY <3>1, <3>3, <4>6, <4>7, <5>1 DEF Meant, Sets
          <6>2. QED
            BY <4>5, <5>1, <6>1
        <5>2. CASE k.identity # Keep
          BY <3>1, <4>5, <4>7, <5>2 DEF Meant, Sets
        <5>3. CASE k.inbound # "approved" /\ k.identity = Keep
          <6>1. old.inbound = "approved" /\ new.identity = old.identity
            BY <4>2, <5>3 DEF Coalesce
          <6>2. old.identity \in vouched[k.row]
            BY <3>3, <4>1, <6>1 DEF TrustInv, OnlyTheVouchedAreHeard
          <6>3. QED
            BY <4>1, <4>4, <6>1, <6>2
        <5>4. QED
          BY <5>1, <5>2, <5>3
      <4>9. OnlyTheVouchedAreHeard'
        <5> SUFFICES ASSUME NEW q \in Rows
                     PROVE  /\ peer'[q] # NoPeer /\ peer'[q].inbound = "approved"
                                 => peer'[q].identity \in vouched'[q]
                            /\ heard'[q] \subseteq vouched'[q]
          BY DEF OnlyTheVouchedAreHeard
        <5>1. heard'[q] \subseteq vouched'[q]
          BY <4>3, <4>4 DEF TrustInv, OnlyTheVouchedAreHeard
        <5>2. CASE q = k.row
          BY <4>3, <4>8, <5>1, <5>2
        <5>3. CASE q # k.row
          BY <4>3, <4>4, <5>1, <5>3 DEF TrustInv, OnlyTheVouchedAreHeard
        <5>4. QED
          BY <5>2, <5>3
      <4>10. ASSUME NEW d \in Calls
             PROVE  Meant(call[d])'
        <5>1. CASE d = c
          BY <1>0, <4>3, <5>1 DEF Meant, TypeOK, Idle
        <5>2. CASE d # c
          <6>1. call'[d] = call[d] /\ Meant(call[d])
            BY <4>3, <5>2, <1>0 DEF TypeOK, TrustInv
          <6>2. /\ call[d].at = "set" => call[d].row \in Rows
                /\ call[d].at = "store" => call[d].row \in Rows
            BY <1>0, CallShapes DEF Sets
          <6>3. \A q \in Rows : /\ peer'[q] # NoPeer => peer[q] # NoPeer
                                /\ peer[q].identity # Unknown => peer'[q].identity # Unknown
            BY <3>3, <4>3, <4>6
          <6>4. QED
            BY <4>3, <4>4, <6>1, <6>2, <6>3 DEF Meant
        <5>3. QED
          BY <5>1, <5>2
      <4>11. QED
        BY <1>0, <4>9, <4>10 DEF TrustInv
    <3>4. QED
      BY <3>2, <3>3
  <2>4. CASE StoreDelivery(c)
    <3> DEFINE r == call[c].row
    <3>1. r \in Rows /\ call[c].from \in vouched[r]
      BY <1>0, <2>4, CallShapes DEF StoreDelivery, TrustInv, Meant
    <3>2. UNCHANGED <<peer, made, vouched>> /\ call' = [call EXCEPT ![c] = Idle]
      BY <2>4 DEF StoreDelivery, Return, GoOn
    <3>3. \A q \in Rows : heard'[q] \subseteq heard[q] \cup (IF q = r THEN {call[c].from} ELSE {})
      BY <1>0, <2>4, <3>1 DEF StoreDelivery, TypeOK
    <3>4. OnlyTheVouchedAreHeard'
      BY <3>1, <3>2, <3>3 DEF TrustInv, OnlyTheVouchedAreHeard
    <3>5. \A d \in Calls : Meant(call[d])'
      BY <1>0, <3>2 DEF TrustInv, Meant, TypeOK
    <3>6. QED
      BY <1>0, <3>4, <3>5 DEF TrustInv
  <2>5. CASE BreakOff(c)
    BY <1>0, <2>5, TrustCall DEF BreakOff, Return
  <2>6. QED
    BY <1>3, <2>1, <2>2, <2>3, <2>4, <2>5 DEF GoAhead
<1>4. ASSUME NEW r \in Rows, RemovePeer(r)
      PROVE  TrustInv'
  <2>1. /\ peer'[r] = NoPeer /\ heard'[r] = {}
        /\ \A q \in Rows : q # r => peer'[q] = peer[q] /\ heard'[q] = heard[q]
        /\ UNCHANGED <<made, call, vouched>>
    BY <1>0, <1>4 DEF RemovePeer, TypeOK
  <2>2. OnlyTheVouchedAreHeard'
    BY <2>1 DEF TrustInv, OnlyTheVouchedAreHeard
  <2>3. ASSUME NEW d \in Calls
        PROVE  Meant(call[d])'
    <3>1. Meant(call[d]) /\ (call[d].at = "set" => call[d].row \in Rows)
      BY <1>0, CallShapes DEF TrustInv, Sets
    <3>2. QED
      BY <2>1, <3>1 DEF Meant
  <2>4. QED
    BY <1>0, <2>2, <2>3 DEF TrustInv
<1>5. CASE UNCHANGED vars
  BY <1>0, <1>5 DEF vars, TrustInv, OnlyTheVouchedAreHeard, Meant
<1>6. QED
  BY <1>1, <1>2, <1>3, <1>4, <1>5 DEF Next

\* A row is approved, and deliveries are stored under it, only under identities
\* an administrator accepted it under.
THEOREM PeeringTrust == Spec => []OnlyTheVouchedAreHeard
<1>1. TrustInv => OnlyTheVouchedAreHeard
  BY DEF TrustInv
<1>2. QED
  BY <1>1, TrustInit, TrustStep, PTL DEF Spec

----------------------------------------------------------------------------
(* Decisions *)

\* What the store's update makes of the inbound direction.
LEMMA StoreWrites ==
    ASSUME TypeOK, NEW c \in Calls, StorePeerStatus(c), peer[call[c].row] # NoPeer
    PROVE  /\ peer'[call[c].row].inbound = Coalesce(call[c].inbound, peer[call[c].row].inbound)
           /\ \A q \in Rows : q # call[c].row => peer'[q] = peer[q]
           /\ call' = [call EXCEPT ![c] = Idle]
<1> DEFINE k == call[c]
           old == peer[k.row]
           new == [old EXCEPT !.inbound = Coalesce(k.inbound, @),
                              !.outbound = Coalesce(k.outbound, @),
                              !.identity = Coalesce(k.identity, @)]
<1>1. k.row \in Rows /\ old \in Peer
  BY CallShapes DEF StorePeerStatus, Sets, TypeOK
<1>2. peer' = [peer EXCEPT ![k.row] = new] /\ call' = [call EXCEPT ![c] = Idle]
  BY DEF StorePeerStatus, Return, GoOn
<1>3. new.inbound = Coalesce(k.inbound, old.inbound)
  BY <1>1 DEF Peer
<1>4. peer'[k.row] = new /\ \A q \in Rows : q # k.row => peer'[q] = peer[q]
  BY <1>1, <1>2 DEF TypeOK
<1>5. QED
  BY <1>2, <1>3, <1>4

Undecided(r) == peer[r] = NoPeer \/ peer[r].inbound \in {"none", "pending"}

\* What AddPeer has to write leaves the inbound direction alone, and a request
\* writes on a row that nobody has decided on, or it has been overtaken.
Modest(c) ==
    call[c].at = "set" =>
        /\ call[c].by = "adder" => call[c].inbound = Keep
        /\ call[c].by = "peer" => call[c].inbound = "pending"
        /\ call[c].by = "peer" => c \in overtaken \/ Undecided(call[c].row)
DecisionInv == TrustInv /\ \A c \in Calls : Modest(c)

LEMMA DecisionInit == Init => DecisionInv
  BY TrustInit DEF Init, DecisionInv, Modest, Idle

\* Calls that have something to write stay as they were, and so do the rows.
LEMMA DecisionCall ==
    ASSUME DecisionInv, TrustInv', NEW c \in Calls, NEW k \in Work, GoOn(c, k),
           UNCHANGED peer, overtaken \subseteq overtaken' \cup {c},
           k.at = "set" => /\ k.by = "adder" => k.inbound = Keep
                           /\ k.by = "peer" => k.inbound = "pending" /\ Undecided(k.row)
    PROVE  DecisionInv'
<1>1. \A d \in Calls : call'[d] = IF d = c THEN k ELSE call[d]
  BY DEF DecisionInv, TrustInv, TypeOK, GoOn
<1>2. \A d \in Calls : Modest(d)'
  BY <1>1 DEF DecisionInv, Modest, Undecided
<1>3. QED
  BY <1>2 DEF DecisionInv

LEMMA DecisionStep == DecisionInv /\ [Next]_vars => DecisionInv'
<1> SUFFICES ASSUME DecisionInv, [Next]_vars
             PROVE  DecisionInv'
  OBVIOUS
<1>0. TypeOK /\ TrustInv' /\ TypeOK' /\ Idle \in Work /\ Idle.at # "set"
  BY TrustStep DEF DecisionInv, TrustInv, Work, Idle
<1>1. ASSUME NEW c \in Calls, Administer(c)
      PROVE  DecisionInv'
  <2>1. ASSUME NEW a \in Addresses, AddPeer(c, a)
        PROVE  DecisionInv'
    <3> DEFINE k == [at |-> "insert", address |-> a, identity |-> Unknown]
    <3>1. k \in Work /\ k.at # "set"
      BY DEF Work
    <3>2. QED
      BY <1>0, <2>1, <3>1, DecisionCall DEF AddPeer, Begin, GoOn
  <2>2. ASSUME NEW r \in Rows, NEW in \in Statuses \cup {Keep}, NEW out \in Statuses \cup {Keep},
               NEW i \in Identities \cup {Keep}, SetPeerStatus(c, r, in, out, i)
        PROVE  DecisionInv'
    <3>1. Set(r, "admin", in, out, i) \in Work /\ Set(r, "admin", in, out, i).by = "admin"
      BY SetIsWork DEF Set
    <3>2. QED
      BY <1>0, <2>2, <3>1, DecisionCall DEF SetPeerStatus, Begin, GoOn
  <2>3. QED
    BY <1>1, <2>1, <2>2 DEF Administer
<1>2. ASSUME NEW c \in Calls, NEW i \in Identities, Ask(c, i)
      PROVE  DecisionInv'
  <2>1. ASSUME NEW a \in Addresses, Introduce(c, a, i)
        PROVE  DecisionInv'
    <3> DEFINE k == [at |-> "insert", address |-> a, identity |-> i]
    <3>1. k \in Work /\ k.at # "set"
      BY DEF Work
    <3>2. QED
      BY <1>0, <2>1, <3>1, DecisionCall DEF Introduce, Begin, GoOn
  <2>2. ASSUME NEW a \in Addresses, Verify(c, a, i)
        PROVE  DecisionInv'
    <3>1. PICK r \in Rows : Begin(c, [at |-> "store", row |-> r, from |-> i])
      BY <2>2 DEF Verify
    <3> DEFINE k == [at |-> "store", row |-> r, from |-> i]
    <3>2. k \in Work /\ k.at # "set"
      BY DEF Work
    <3>3. QED
      BY <1>0, <2>2, <3>1, <3>2, DecisionCall DEF Verify, Begin, GoOn
  <2>3. ASSUME NEW r \in Rows, RequestPeering(c, r, i)
        PROVE  DecisionInv'
    <3>1. /\ AskIn(r) \in Work /\ AskIn(r).by = "peer" /\ AskIn(r).row = r
          /\ AskIn(r).inbound = "pending"
          /\ Undecided(r)
      BY <2>3, SetIsWork DEF RequestPeering, AskIn, Set, Statuses, Undecided
    <3>2. QED
      BY <1>0, <2>3, <3>1, DecisionCall DEF RequestPeering, Begin, GoOn
  <2>4. QED
    BY <1>2, <2>1, <2>2, <2>3 DEF Ask
<1>3. ASSUME NEW c \in Calls, GoAhead(c)
      PROVE  DecisionInv'
  <2>1. ASSUME NEW r \in Rows, CreatePeer(c, r)
        PROVE  DecisionInv'
    <3>1. CASE Recorded(call[c].address)
      BY <1>0, <2>1, <3>1, DecisionCall DEF CreatePeer, Return
    <3>2. CASE ~Recorded(call[c].address)
      <4> DEFINE k == [at |-> "reread", row |-> r, asked |-> call[c].identity # Unknown]
      <4>1. /\ \A q \in Rows : q # r => peer'[q] = peer[q]
            /\ peer'[r].inbound = "none"
            /\ call' = [call EXCEPT ![c] = k] /\ UNCHANGED overtaken
        BY <2>1, <3>2, <1>0 DEF CreatePeer, GoOn, TypeOK
      <4>2. \A q \in Rows : Undecided(q) => Undecided(q)'
        BY <4>1 DEF Undecided
      <4>3. ASSUME NEW d \in Calls
            PROVE  Modest(d)'
        <5>1. CASE d = c
          BY <1>0, <4>1, <5>1 DEF Modest, TypeOK
        <5>2. CASE d # c
          <6>1. call'[d] = call[d] /\ Modest(d) /\ (call[d].at = "set" => call[d].row \in Rows)
            BY <1>0, <4>1, <5>2, CallShapes DEF DecisionInv, TypeOK, Sets
          <6>2. QED
            BY <4>1, <4>2, <6>1 DEF Modest
        <5>3. QED
          BY <5>1, <5>2
      <4>4. QED
        BY <1>0, <4>3 DEF DecisionInv
    <3>3. QED
      BY <3>1, <3>2
  <2>2. CASE ReadNewPeer(c)
    <3> DEFINE r == call[c].row
               adder == Set(r, "adder", Keep, "pending", Keep)
    <3>1. r \in Rows
      BY <1>0, <2>2, CallShapes DEF ReadNewPeer
    <3>2. AskIn(r) \in Work /\ adder \in Work
      BY <3>1, SetIsWork DEF AskIn, Statuses
    <3>3. /\ AskIn(r).by = "peer" /\ AskIn(r).row = r /\ AskIn(r).inbound = "pending"
          /\ adder.by = "adder" /\ adder.inbound = Keep
      BY DEF AskIn, Set
    <3>4. \/ GoOn(c, Idle) \/ GoOn(c, adder)
          \/ GoOn(c, AskIn(r)) /\ Undecided(r)
      BY <2>2 DEF ReadNewPeer, Return, Undecided
    <3>5. UNCHANGED peer /\ overtaken \subseteq overtaken' \cup {c}
      BY <2>2 DEF ReadNewPeer
    <3>6. CASE GoOn(c, Idle)
      BY <1>0, <3>5, <3>6, DecisionCall
    <3>7. CASE GoOn(c, adder)
      BY <1>0, <3>2, <3>3, <3>5, <3>7, DecisionCall
    <3>8. CASE GoOn(c, AskIn(r)) /\ Undecided(r)
      BY <1>0, <3>2, <3>3, <3>5, <3>8, DecisionCall
    <3>9. QED
      BY <3>4, <3>6, <3>7, <3>8
  <2>3. CASE StorePeerStatus(c)
    <3> DEFINE k == call[c]
               r == k.row
    <3>1. k \in Sets /\ Modest(c) /\ Meant(k) /\ k.at = "set"
      BY <1>0, <2>3, CallShapes DEF StorePeerStatus, DecisionInv, TrustInv
    <3>2. CASE peer[r] = NoPeer
      BY <2>3, <3>2, <1>0, DecisionCall DEF StorePeerStatus, Return
    <3>3. CASE peer[r] # NoPeer
      <4>1. r \in Rows /\ peer[r] \in Peer
        BY <1>0, <3>1, <3>3 DEF Sets, TypeOK
      <4>2. /\ peer'[r] # NoPeer => peer'[r].inbound = Coalesce(k.inbound, peer[r].inbound)
            /\ \A q \in Rows : q # r => peer'[q] = peer[q]
            /\ call' = [call EXCEPT ![c] = Idle]
        BY <1>0, <2>3, <3>3, StoreWrites
      <4>3. overtaken \subseteq overtaken'
        BY <2>3, <3>3 DEF StorePeerStatus
      <4>4. k.by = "admin" /\ k.inbound # Keep => Asking(r) \subseteq overtaken'
        BY <2>3, <3>3 DEF StorePeerStatus
      <4>5. k.by # "admin" \/ k.inbound = Keep => \A q \in Rows : Undecided(q) => Undecided(q)'
        <5> SUFFICES ASSUME k.by # "admin" \/ k.inbound = Keep, NEW q \in Rows, Undecided(q)
                     PROVE  Undecided(q)'
          OBVIOUS
        <5>1. k.inbound \in {Keep, "pending"}
          BY <3>1 DEF Modest, Sets
        <5>2. CASE q = r
          BY <3>3, <4>2, <5>1, <5>2 DEF Undecided, Coalesce
        <5>3. CASE q # r
          BY <4>2, <5>3 DEF Undecided
        <5>4. QED
          BY <5>2, <5>3
      <4>6. ASSUME NEW d \in Calls
            PROVE  Modest(d)'
        <5>1. CASE d = c
          BY <1>0, <4>2, <5>1 DEF Modest, TypeOK
        <5>2. CASE d # c
          <6>1. call'[d] = call[d] /\ Modest(d) /\ (call[d].at = "set" => call[d].row \in Rows)
            BY <1>0, <4>2, <5>2, CallShapes DEF DecisionInv, TypeOK, Sets
          <6>2. CASE k.by # "admin" \/ k.inbound = Keep
            BY <4>3, <4>5, <6>1, <6>2 DEF Modest
          <6>3. CASE k.by = "admin" /\ k.inbound # Keep
            <7>1. d \in Asking(r) => d \in overtaken'
              BY <4>4, <6>3
            <7>2. call[d].at = "set" /\ call[d].by = "peer" /\ d \notin Asking(r) => call[d].row # r
              BY DEF Asking
            <7>3. \A q \in Rows : q # r /\ Undecided(q) => Undecided(q)'
              BY <4>2 DEF Undecided
            <7>4. QED
              BY <4>3, <6>1, <7>1, <7>2, <7>3 DEF Modest
          <6>4. QED
            BY <6>2, <6>3
        <5>3. QED
          BY <5>1, <5>2
      <4>7. QED
        BY <1>0, <4>6 DEF DecisionInv
    <3>4. QED
      BY <3>2, <3>3
  <2>4. CASE StoreDelivery(c)
    BY <1>0, <2>4, DecisionCall DEF StoreDelivery, Return
  <2>5. CASE BreakOff(c)
    BY <1>0, <2>5, DecisionCall DEF BreakOff, Return
  <2>6. QED
    BY <1>3, <2>1, <2>2, <2>3, <2>4, <2>5 DEF GoAhead
<1>4. ASSUME NEW r \in Rows, RemovePeer(r)
      PROVE  DecisionInv'
  <2>1. \A q \in Rows : Undecided(q) => Undecided(q)'
    BY <1>0, <1>4 DEF RemovePeer, TypeOK, Undecided
  <2>2. UNCHANGED <<call, overtaken>>
    BY <1>4 DEF RemovePeer
  <2>3. \A d \in Calls : call[d].at = "set" => call[d].row \in Rows
    BY <1>0, CallShapes DEF Sets
  <2>4. QED
    BY <1>0, <2>1, <2>2, <2>3 DEF DecisionInv, Modest
<1>5. CASE UNCHANGED vars
  BY <1>0, <1>5 DEF vars, DecisionInv, Modest, Undecided
<1>6. QED
  BY <1>1, <1>2, <1>3, <1>4, <1>5 DEF Next

\* A row that was approved or blocked stays so until an administrator says
\* otherwise, or a request goes on that had read the row before.
THEOREM PeeringDecisionsStand == Spec => AskingAgainIsNoWayOut
<1>1. ASSUME DecisionInv, Next, NEW r \in Rows, peer[r] # NoPeer, peer'[r] # NoPeer,
             peer[r].inbound \in {"approved", "blocked"}, peer'[r].inbound # peer[r].inbound
      PROVE  \E c \in Calls : /\ call[c].at = "set" /\ call'[c] = Idle /\ call[c].row = r
                              /\ call[c].by = "admin" \/ c \in overtaken
  <2>0. TypeOK
    BY <1>1 DEF DecisionInv, TrustInv
  <2>1. peer' # peer
    BY <1>1
  <2>2. \A q \in Rows : ~RemovePeer(q)
    BY <1>1, <2>0 DEF RemovePeer, TypeOK
  <2>3. \A c \in Calls, q \in Rows : ~CreatePeer(c, q)
    BY <1>1, <2>0 DEF CreatePeer, TypeOK
  <2>4. PICK c \in Calls : StorePeerStatus(c)
    BY <1>1, <2>1, <2>2, <2>3 DEF Next, Administer, AddPeer, SetPeerStatus, Ask, Introduce, Verify,
       RequestPeering, GoAhead, ReadNewPeer, StoreDelivery, BreakOff
  <2>5. call[c] \in Sets /\ call[c].at = "set" /\ call'[c] = Idle /\ Modest(c)
    BY <1>1, <2>0, <2>4, CallShapes DEF StorePeerStatus, Return, GoOn, TypeOK, DecisionInv
  <2>6. call[c].row = r
    BY <1>1, <2>0, <2>4, <2>5 DEF StorePeerStatus, TypeOK, Sets
  <2>7. call[c].inbound # Keep
    <3>1. call[c].inbound = Keep => peer'[r].inbound = peer[r].inbound
      BY <1>1, <2>0, <2>4, <2>6, StoreWrites DEF Coalesce
    <3>2. QED
      BY <1>1, <3>1
  <2>8. call[c].by = "admin" \/ c \in overtaken
    BY <1>1, <2>5, <2>6, <2>7 DEF Modest, Undecided, Sets
  <2>9. QED
    BY <2>5, <2>6, <2>8
<1>2. DecisionInv /\ [Next]_vars =>
        [\A r \in Rows :
          peer[r] # NoPeer /\ peer'[r] # NoPeer /\ peer[r].inbound \in {"approved", "blocked"} =>
              \/ peer'[r].inbound = peer[r].inbound
              \/ \E c \in Calls : /\ call[c].at = "set" /\ call'[c] = Idle /\ call[c].row = r
                                  /\ call[c].by = "admin" \/ c \in overtaken]_vars
  BY <1>1
<1>3. QED
  BY <1>2, DecisionInit, DecisionStep, PTL DEF Spec, AskingAgainIsNoWayOut
=============================================================================
