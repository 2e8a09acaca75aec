------------------------- MODULE Communities_proofs -------------------------
(***************************************************************************)
(* Organizations, gatherings and offers, for any number of each, of users  *)
(* and of calls at work at once: the types, that an organization and a     *)
(* gathering keep an owner unless calls met, and what is promised of an    *)
(* offer. What a call has found out is an invariant of the call (Fits):    *)
(* it holds of what is there now, unless the owners it relies on changed.  *)
(***************************************************************************)
EXTENDS Communities, FiniteSetTheorems, TLAPS

----------------------------------------------------------------------------
(* What a call carries *)

RosterKinds == {"role", "count", "write"}
OwnerKinds == {"addOwner", "countOwners", "removeOwner"}
OfferingKinds == {"owners", "lookup", "insert"}
OfferKinds == {"answer", "accept", "own", "enroll", "member"}

RosterCalls == [at : RosterKinds, organization : Organizations, whom : Users,
                role : {"owner", "member", "none"}]
OwnerCalls == [at : OwnerKinds, gathering : Gatherings, owner : Owners]
OfferingCalls == [at : OfferingKinds, gathering : Gatherings, organization : Organizations]

LEMMA CallKinds ==
    ASSUME NEW k \in Call
    PROVE  /\ k.at \in {"idle", "create", "resolve", "delete"} \cup RosterKinds \cup OwnerKinds
                       \cup OfferingKinds \cup OfferKinds
           /\ k.at = "idle" => k = Idle
           /\ k.at \in RosterKinds => k \in RosterCalls
           /\ k.at = "create" => k.owner \in Organizations
           /\ k.at = "resolve" => k.gathering \in Gatherings /\ k.owner \in Organizations /\ k.by \in Users
           /\ k.at \in OwnerKinds => k \in OwnerCalls
           /\ k.at = "delete" => k.gathering \in Gatherings
           /\ k.at \in OfferingKinds => k \in OfferingCalls
           /\ k.at \in OfferKinds => k.offer \in Offers
           /\ k.at = "answer" => k.status \in OfferStatuses
           /\ k.at \in {"own", "enroll", "member"} => k.todo \subseteq Users
           /\ k.at \in {"own", "enroll"} =>
                k = [at |-> k.at, offer |-> k.offer, todo |-> k.todo]
           /\ k.at = "member" => k.whom \in Users
           /\ "offer" \in DOMAIN k <=> k.at \in OfferKinds
<1> USE DEF RosterKinds, OwnerKinds, OfferingKinds, OfferKinds
<1>1. CASE k = Idle
  BY <1>1 DEF Idle
<1>2. CASE k \in RosterCalls
  BY <1>2 DEF RosterCalls
<1>3. CASE k \in [at : {"create"}, owner : Organizations]
  BY <1>3
<1>4. CASE k \in [at : {"resolve"}, gathering : Gatherings, owner : Organizations, by : Users]
  BY <1>4
<1>5. CASE k \in OwnerCalls
  BY <1>5 DEF OwnerCalls
<1>6. CASE k \in [at : {"delete"}, gathering : Gatherings]
  BY <1>6
<1>7. CASE k \in OfferingCalls
  BY <1>7 DEF OfferingCalls
<1>8. CASE k \in [at : {"answer"}, offer : Offers, status : OfferStatuses]
  BY <1>8
<1>9. CASE k \in [at : {"accept"}, offer : Offers]
  BY <1>9
<1>10. CASE k \in [at : {"own", "enroll"}, offer : Offers, todo : SUBSET Users]
  BY <1>10
<1>11. CASE k \in [at : {"member"}, offer : Offers, todo : SUBSET Users, whom : Users]
  BY <1>11
<1>12. QED
  BY <1>1, <1>2, <1>3, <1>4, <1>5, <1>6, <1>7, <1>8, <1>9, <1>10, <1>11
     DEF Call, RosterCalls, OwnerCalls, OfferingCalls

\* The next statement of a call, which carries the same.
LEMMA NextStatement ==
    /\ \A k \in RosterCalls, a \in RosterKinds :
        /\ [k EXCEPT !.at = a] \in RosterCalls /\ [k EXCEPT !.at = a].at = a
        /\ [k EXCEPT !.at = a].organization = k.organization
        /\ [k EXCEPT !.at = a].whom = k.whom /\ [k EXCEPT !.at = a].role = k.role
    /\ \A k \in OwnerCalls, a \in OwnerKinds :
        /\ [k EXCEPT !.at = a] \in OwnerCalls /\ [k EXCEPT !.at = a].at = a
        /\ [k EXCEPT !.at = a].gathering = k.gathering /\ [k EXCEPT !.at = a].owner = k.owner
    /\ \A k \in OfferingCalls, a \in OfferingKinds :
        /\ [k EXCEPT !.at = a] \in OfferingCalls /\ [k EXCEPT !.at = a].at = a
        /\ [k EXCEPT !.at = a].gathering = k.gathering
        /\ [k EXCEPT !.at = a].organization = k.organization
<1>1. \A k \in RosterCalls, a \in RosterKinds :
        /\ [k EXCEPT !.at = a] \in RosterCalls /\ [k EXCEPT !.at = a].at = a
        /\ [k EXCEPT !.at = a].organization = k.organization
        /\ [k EXCEPT !.at = a].whom = k.whom /\ [k EXCEPT !.at = a].role = k.role
  BY DEF RosterCalls
<1>2. \A k \in OwnerCalls, a \in OwnerKinds :
        /\ [k EXCEPT !.at = a] \in OwnerCalls /\ [k EXCEPT !.at = a].at = a
        /\ [k EXCEPT !.at = a].gathering = k.gathering /\ [k EXCEPT !.at = a].owner = k.owner
  BY DEF OwnerCalls
<1>3. \A k \in OfferingCalls, a \in OfferingKinds :
        /\ [k EXCEPT !.at = a] \in OfferingCalls /\ [k EXCEPT !.at = a].at = a
        /\ [k EXCEPT !.at = a].gathering = k.gathering
        /\ [k EXCEPT !.at = a].organization = k.organization
  BY DEF OfferingCalls
<1>4. QED
  BY <1>1, <1>2, <1>3

----------------------------------------------------------------------------
(* The invariant *)

TablesTyped ==
    /\ status \in [Things -> {"unused", "here", "deleted"}]
    /\ roster \in [Organizations -> [Users -> {"owner", "member", "none"}]]
    /\ owners \in [Gatherings -> SUBSET Owners]
    /\ offers \in [Offers -> OfferRow \cup {NoOffer}]
    /\ faults \in 0..MaxFaults
    /\ raced \subseteq Things /\ orphaned \subseteq Gatherings /\ undone \subseteq Offers
    /\ \A o \in Organizations : ~Here(o) => OwnersOf(o) = {} /\ \A g \in Gatherings : o \notin owners[g]
    /\ \A g \in Gatherings : ~Here(g) => owners[g] = {}

\* What is offered to whom was there, and still is if the offer is.
OffersAreOfThings == \A f \in Offers : offers[f] # NoOffer =>
    /\ status[offers[f].gathering] # "unused" /\ status[offers[f].organization] # "unused"
    /\ Exists(f) => Here(offers[f].gathering) /\ Here(offers[f].organization)

\* A user can be taken off the roster of o, or never was an owner.
Spared(o, u) == u \notin OwnersOf(o) \/ Cardinality(OwnersOf(o)) > 1
Sure(x) == Here(x) /\ x \notin raced

\* What a call that is to do k has found out of what it relies on.
Fits(k) ==
    /\ k.at \in OfferKinds => offers[k.offer] # NoOffer
    /\ k.at \in RosterKinds => status[k.organization] # "unused"
    /\ k.at = "removeOwner" => status[k.gathering] # "unused"
    /\ k.at = "write" /\ k.role # "owner" /\ Sure(k.organization) => Spared(k.organization, k.whom)
    /\ k.at = "member" => LET o == offers[k.offer].organization
                          IN  Sure(o) => k.whom \notin OwnersOf(o)
    /\ k.at = "removeOwner" /\ Sure(k.gathering) => Cardinality(owners[k.gathering]) > 1

GatheringKeepsAnOwner ==
    \A g \in Gatherings : Here(g) => owners[g] # {} \/ g \in raced \cup orphaned

TableInv ==
    /\ TablesTyped /\ OffersAreOfThings
    /\ OrganizationKeepsAnOwner /\ GatheringKeepsAnOwner

IInv ==
    /\ TableInv
    /\ call \in [Calls -> Call]
    /\ \A c \in Calls : Fits(call[c])
    /\ AcceptedIsCarriedOut

\* It is about what TypeOK is about.
LEMMA InvIsTyped == IInv => TypeOK
<1> SUFFICES ASSUME IInv
             PROVE  TypeOK
  OBVIOUS
<1>1. \A c \in Calls : "offer" \in DOMAIN call[c] => offers[call[c].offer] # NoOffer
  BY CallKinds DEF IInv, Fits
<1>2. QED
  BY <1>1 DEF IInv, TableInv, TablesTyped, TypeOK

LEMMA InvInit == Init => IInv
<1> SUFFICES ASSUME Init
             PROVE  IInv
  OBVIOUS
<1>1. call \in [Calls -> Call] /\ \A c \in Calls : call[c] = Idle
  BY DEF Init, Call
<1>2. \A c \in Calls : Fits(call[c])
  BY <1>1 DEF Fits, Idle, OfferKinds, RosterKinds
<1>3. \A x \in Things : ~Here(x)
  BY DEF Init, Here
<1>4. \A f \in Offers : ~Exists(f) /\ offers[f] = NoOffer
  BY DEF Init, Exists
<1>5. TablesTyped
  BY <1>3, FaultsAssumption DEF Init, TablesTyped, OwnersOf
<1>6. QED
  BY <1>1, <1>2, <1>3, <1>4, <1>5 DEF IInv, TableInv, OffersAreOfThings, OrganizationKeepsAnOwner,
     GatheringKeepsAnOwner, AcceptedIsCarriedOut, Things

----------------------------------------------------------------------------
(* Steps that only move a call on *)

\* A call goes on to do k; the tables are as they were.
LEMMA MoveKeeps ==
    ASSUME IInv, NEW c \in Calls, NEW k \in Call, Fits(k),
           GoOn(c, k), UNCHANGED <<tables, faults, history>>,
           call[c].at \in {"accept", "own"} =>
                \/ k.at \in {"accept", "own"} /\ k.offer = call[c].offer
                \/ ~Exists(call[c].offer)
    PROVE  IInv'
<1>1. UNCHANGED <<status, roster, owners, offers, faults, raced, orphaned, undone>>
  BY DEF tables, history
<1>2. call' \in [Calls -> Call] /\ \A d \in Calls : call'[d] = IF d = c THEN k ELSE call[d]
  BY DEF GoOn, IInv
<1>3. \A d \in Calls : Fits(call'[d])
  BY <1>2 DEF IInv
<1>4. \A d \in Calls : Fits(call[d])'
  BY <1>1, <1>3 DEF Fits, Sure, Spared, OwnersOf, Here
<1>5. TableInv'
  BY <1>1 DEF IInv, TableInv, TablesTyped, OffersAreOfThings, OrganizationKeepsAnOwner,
     GatheringKeepsAnOwner, Sure, OwnersOf, Here, Exists
<1>6. AcceptedIsCarriedOut'
  <2> SUFFICES ASSUME NEW f \in Offers, Exists(f), offers[f].status = "accepted",
                      offers[f].organization \notin owners[offers[f].gathering], f \notin undone
               PROVE  CarryingOut(f)'
    BY <1>1 DEF AcceptedIsCarriedOut, Exists
  <2>1. PICK d \in Calls : call[d].at \in {"accept", "own"} /\ call[d].offer = f
    BY DEF IInv, AcceptedIsCarriedOut, CarryingOut
  <2>2. call'[d].at \in {"accept", "own"} /\ call'[d].offer = f
    BY <1>2, <2>1
  <2>3. QED
    BY <2>2 DEF CarryingOut
<1>7. QED
  BY <1>2, <1>4, <1>5, <1>6 DEF IInv

LEMMA IdleFits == Idle \in Call /\ Fits(Idle) /\ Idle.at = "idle"
  BY DEF Call, Idle, Fits, OfferKinds, RosterKinds

LEMMA ReturnKeeps ==
    ASSUME IInv, NEW c \in Calls, Return(c), UNCHANGED <<tables, faults, history>>,
           call[c].at \in {"accept", "own"} => ~Exists(call[c].offer)
    PROVE  IInv'
  BY IdleFits, MoveKeeps DEF Return

\* A call begins that answers no offer: it was idle.
LEMMA BeginKeeps ==
    ASSUME IInv, NEW c \in Calls, NEW k \in Call, Fits(k), Begin(c, k),
           UNCHANGED <<tables, faults, history>>
    PROVE  IInv'
  BY MoveKeeps, IdleFits DEF Begin, GoOn

LEMMA RosterMoves ==
    ASSUME IInv, NEW c \in Calls,
           \/ \E by, u \in Users, o \in Organizations, role \in {"owner", "member", "none"} :
                ChangeRoster(c, by, o, u, role)
           \/ ReadRole(c) \/ CountOwners(c)
    PROVE  IInv'
<1> USE DEF RosterKinds, OfferKinds
<1>1. ASSUME NEW by \in Users, NEW u \in Users, NEW o \in Organizations,
             NEW role \in {"owner", "member", "none"}, ChangeRoster(c, by, o, u, role)
      PROVE  IInv'
  <2> DEFINE k == [at |-> IF role = "owner" THEN "write" ELSE "role",
                   organization |-> o, whom |-> u, role |-> role]
  <2>1. k \in RosterCalls /\ k \in Call
    BY DEF Call, RosterCalls
  <2>2. Fits(k)
    BY <1>1 DEF ChangeRoster, Fits
  <2>3. QED
    BY <1>1, <2>1, <2>2, BeginKeeps DEF ChangeRoster
<1>2. ASSUME call[c].at \in RosterKinds, NEW a \in RosterKinds,
             GoOn(c, [call[c] EXCEPT !.at = a]), UNCHANGED <<tables, faults, history>>,
             a = "write" /\ Sure(call[c].organization) => Spared(call[c].organization, call[c].whom)
      PROVE  IInv'
  <2> DEFINE k == [call[c] EXCEPT !.at = a]
  <2>1. call[c] \in RosterCalls /\ Fits(call[c])
    BY <1>2, CallKinds DEF IInv
  <2>2. /\ k \in RosterCalls /\ k.at = a
        /\ k.organization = call[c].organization /\ k.whom = call[c].whom
    BY <1>2, <2>1, NextStatement
  <2>3. k \in Call
    BY <2>2 DEF Call, RosterCalls
  <2> HIDE DEF k
  <2>4. Fits(k)
    BY <1>2, <2>1, <2>2 DEF Fits
  <2>5. GoOn(c, k)
    BY <1>2 DEF k
  <2>6. QED
    BY <1>2, <2>3, <2>4, <2>5, MoveKeeps
<1>3. CASE ReadRole(c)
  <2>1. CASE call[c].whom \in OwnersOf(call[c].organization)
    BY <1>2, <1>3, <2>1 DEF ReadRole
  <2>2. CASE call[c].whom \notin OwnersOf(call[c].organization)
    BY <1>2, <1>3, <2>2 DEF ReadRole, Spared
  <2>3. QED
    BY <2>1, <2>2
<1>4. CASE CountOwners(c)
  <2>1. CASE Here(call[c].organization) /\ Cardinality(OwnersOf(call[c].organization)) > 1
    BY <1>2, <1>4, <2>1 DEF CountOwners, Spared
  <2>2. CASE ~(Here(call[c].organization) /\ Cardinality(OwnersOf(call[c].organization)) > 1)
    BY <1>4, <2>2, ReturnKeeps DEF CountOwners
  <2>3. QED
    BY <2>1, <2>2
<1>5. QED
  BY <1>1, <1>3, <1>4

LEMMA OwnerMoves ==
    ASSUME IInv, NEW c \in Calls,
           \/ \E by \in Users, o \in Organizations : CreateFor(c, by, o)
           \/ \E by \in Users, g \in Gatherings, w \in Owners :
                AddGatheringOwner(c, by, g, w) \/ RemoveGatheringOwner(c, by, g, w)
           \/ \E by \in Users, g \in Gatherings : DeleteGathering(c, by, g)
           \/ ResolveOwner(c) \/ CountGatheringOwners(c)
    PROVE  IInv'
<1> USE DEF RosterKinds, OwnerKinds, OfferKinds
<1>1. ASSUME NEW by \in Users, NEW o \in Organizations, CreateFor(c, by, o)
      PROVE  IInv'
  <2>1. [at |-> "create", owner |-> o] \in Call /\ Fits([at |-> "create", owner |-> o])
    BY DEF Call, Fits
  <2>2. QED
    BY <1>1, <2>1, BeginKeeps DEF CreateFor
<1>2. ASSUME NEW g \in Gatherings, NEW w \in Owners, NEW a \in {"addOwner", "countOwners"}
      PROVE  /\ [at |-> a, gathering |-> g, owner |-> w] \in Call
             /\ Fits([at |-> a, gathering |-> g, owner |-> w])
  BY DEF Call, Fits
<1>3. ASSUME NEW by \in Users, NEW g \in Gatherings, NEW w \in Owners, AddGatheringOwner(c, by, g, w)
      PROVE  IInv'
  <2>1. CASE w \in Users
    BY <1>2, <1>3, <2>1, BeginKeeps DEF AddGatheringOwner
  <2>2. CASE w \notin Users
    <3> DEFINE k == [at |-> "resolve", gathering |-> g, owner |-> w, by |-> by]
    <3>1. k \in Call /\ Fits(k)
      BY <2>2 DEF Call, Fits, Owners
    <3>2. QED
      BY <1>3, <2>2, <3>1, BeginKeeps DEF AddGatheringOwner
  <2>3. QED
    BY <2>1, <2>2
<1>4. ASSUME NEW by \in Users, NEW g \in Gatherings, NEW w \in Owners, RemoveGatheringOwner(c, by, g, w)
      PROVE  IInv'
  BY <1>2, <1>4, BeginKeeps DEF RemoveGatheringOwner
<1>5. ASSUME NEW by \in Users, NEW g \in Gatherings, DeleteGathering(c, by, g)
      PROVE  IInv'
  <2>1. [at |-> "delete", gathering |-> g] \in Call /\ Fits([at |-> "delete", gathering |-> g])
    BY DEF Call, Fits
  <2>2. QED
    BY <1>5, <2>1, BeginKeeps DEF DeleteGathering
<1>6. CASE ResolveOwner(c)
  <2>1. call[c].gathering \in Gatherings /\ call[c].owner \in Owners
    BY <1>6, CallKinds DEF ResolveOwner, IInv, Owners
  <2>2. CASE MayName(call[c].by, call[c].owner)
    BY <1>2, <1>6, <2>1, <2>2, MoveKeeps DEF ResolveOwner
  <2>3. CASE ~MayName(call[c].by, call[c].owner)
    BY <1>6, <2>3, ReturnKeeps DEF ResolveOwner
  <2>4. QED
    BY <2>2, <2>3
<1>7. CASE CountGatheringOwners(c)
  <2> DEFINE g == call[c].gathering
             k == [call[c] EXCEPT !.at = "removeOwner"]
  <2>1. call[c] \in OwnerCalls /\ g \in Gatherings
    BY <1>7, CallKinds DEF CountGatheringOwners, IInv, OwnerCalls
  <2>2. k \in OwnerCalls /\ k.at = "removeOwner" /\ k.gathering = g
    BY <2>1, NextStatement
  <2>3. k \in Call
    BY <2>2 DEF Call, OwnerCalls
  <2>4. CASE Cardinality(owners[g]) > 1
    <3>1. Here(g)
      <4>1. owners[g] # {}
        BY <2>4, FS_EmptySet
      <4>2. QED
        BY <2>1, <4>1 DEF IInv, TableInv, TablesTyped
    <3> HIDE DEF k
    <3>2. Fits(k)
      BY <2>2, <2>4, <3>1 DEF Fits, Here
    <3>3. GoOn(c, k) /\ UNCHANGED <<tables, faults, history>>
      BY <1>7, <2>4 DEF CountGatheringOwners, k
    <3>4. QED
      BY <1>7, <2>3, <3>2, <3>3, MoveKeeps DEF CountGatheringOwners
  <2>5. CASE ~(Cardinality(owners[g]) > 1)
    BY <1>7, <2>5, ReturnKeeps DEF CountGatheringOwners
  <2>6. QED
    BY <2>4, <2>5
<1>8. QED
  BY <1>1, <1>3, <1>4, <1>5, <1>6, <1>7

LEMMA OfferMoves ==
    ASSUME IInv, NEW c \in Calls,
           \/ \E by \in Users, g \in Gatherings, o \in Organizations : OfferGathering(c, by, g, o)
           \/ ReadGathering(c) \/ LookUpOffer(c)
           \/ \E by \in Users, f \in Offers, answer \in {"accepted", "declined"} :
                RespondToGatheringOffer(c, by, f, answer)
           \/ \E by \in Users, f \in Offers : WithdrawGatheringOffer(c, by, f)
           \/ ReadOwners(c) \/ AllEnrolled(c)
           \/ \E u \in Users : ReadMember(c, u)
    PROVE  IInv'
<1> USE DEF RosterKinds, OfferKinds, OfferingKinds
<1>1. ASSUME NEW by \in Users, NEW g \in Gatherings, NEW o \in Organizations, OfferGathering(c, by, g, o)
      PROVE  IInv'
  <2> DEFINE k == [at |-> "owners", gathering |-> g, organization |-> o]
  <2>1. k \in Call /\ Fits(k)
    BY DEF Call, Fits
  <2>2. QED
    BY <1>1, <2>1, BeginKeeps DEF OfferGathering
<1>2. ASSUME call[c].at \in OfferingKinds, NEW a \in OfferingKinds,
             GoOn(c, [call[c] EXCEPT !.at = a]), UNCHANGED <<tables, faults, history>>
      PROVE  IInv'
  <2> DEFINE k == [call[c] EXCEPT !.at = a]
  <2>1. k \in OfferingCalls /\ k.at = a
    <3>1. call[c] \in OfferingCalls
      BY <1>2, CallKinds DEF IInv
    <3>2. QED
      BY <1>2, <3>1, NextStatement
  <2>2. k \in Call
    BY <2>1 DEF Call, OfferingCalls
  <2> HIDE DEF k
  <2>3. Fits(k)
    BY <2>1 DEF Fits
  <2>4. GoOn(c, k)
    BY <1>2 DEF k
  <2>5. QED
    BY <1>2, <2>2, <2>3, <2>4, MoveKeeps
<1>3. CASE ReadGathering(c)
  BY <1>2, <1>3, ReturnKeeps DEF ReadGathering
<1>4. CASE LookUpOffer(c)
  BY <1>2, <1>4, ReturnKeeps DEF LookUpOffer
<1>5. ASSUME NEW f \in Offers, NEW a \in OfferStatuses, Exists(f),
             Begin(c, [at |-> "answer", offer |-> f, status |-> a]), UNCHANGED <<tables, faults, history>>
      PROVE  IInv'
  <2> DEFINE k == [at |-> "answer", offer |-> f, status |-> a]
  <2>1. k \in Call /\ Fits(k)
    BY <1>5 DEF Call, Fits, Exists
  <2>2. QED
    BY <1>5, <2>1, BeginKeeps
<1>6. ASSUME NEW by \in Users, NEW f \in Offers, NEW answer \in {"accepted", "declined"},
             RespondToGatheringOffer(c, by, f, answer)
      PROVE  IInv'
  BY <1>5, <1>6 DEF RespondToGatheringOffer, OfferStatuses
<1>7. ASSUME NEW by \in Users, NEW f \in Offers, WithdrawGatheringOffer(c, by, f)
      PROVE  IInv'
  BY <1>5, <1>7 DEF WithdrawGatheringOffer, OfferStatuses
<1>8. CASE ReadOwners(c)
  <2> DEFINE f == call[c].offer
             g == offers[f].gathering
             k == [at |-> "own", offer |-> f, todo |-> owners[g] \cap Users]
  <2>1. f \in Offers /\ offers[f] # NoOffer
    BY <1>8, CallKinds DEF ReadOwners, IInv, Fits
  <2>2. k \in Call /\ Fits(k) /\ k.at = "own" /\ k.offer = f
    BY <2>1 DEF Call, Fits
  <2>3. CASE Here(g)
    BY <1>8, <2>2, <2>3, MoveKeeps DEF ReadOwners
  <2>4. CASE ~Here(g)
    BY <1>8, <2>1, <2>4, ReturnKeeps DEF ReadOwners, IInv, TableInv, OffersAreOfThings
  <2>5. QED
    BY <2>3, <2>4
<1>9. CASE AllEnrolled(c)
  BY <1>9, ReturnKeeps DEF AllEnrolled
<1>10. ASSUME NEW u \in Users, ReadMember(c, u)
       PROVE  IInv'
  <2> DEFINE f == call[c].offer
             o == offers[f].organization
             rest == call[c].todo \ {u}
             k1 == [at |-> "member", offer |-> f, todo |-> rest, whom |-> u]
             k2 == [call[c] EXCEPT !.todo = rest]
  <2>1. f \in Offers /\ offers[f] # NoOffer /\ rest \subseteq Users
    BY <1>10, CallKinds DEF ReadMember, IInv, Fits
  <2>2. CASE roster[o][u] = "none"
    <3>1. k1 \in Call /\ Fits(k1) /\ k1.at = "member"
      BY <2>1, <2>2 DEF Call, Fits, OwnersOf
    <3>2. QED
      BY <1>10, <2>2, <3>1, MoveKeeps DEF ReadMember
  <2>3. CASE roster[o][u] # "none"
    <3>1. k2 = [at |-> "enroll", offer |-> f, todo |-> rest]
      <4>1. call[c] = [at |-> "enroll", offer |-> f, todo |-> call[c].todo]
        BY <1>10, CallKinds DEF ReadMember, IInv
      <4>2. QED
        BY <4>1
    <3>2. k2 \in Call /\ Fits(k2) /\ k2.at = "enroll"
      BY <2>1, <3>1 DEF Call, Fits
    <3>3. QED
      BY <1>10, <2>3, <3>2, MoveKeeps DEF ReadMember
  <2>4. QED
    BY <2>2, <2>3
<1>11. QED
  BY <1>1, <1>3, <1>4, <1>6, <1>7, <1>8, <1>9, <1>10

----------------------------------------------------------------------------
(* Rows that change *)

LEMMA OwnersAreFinite ==
    ASSUME TablesTyped
    PROVE  /\ \A o \in Organizations : IsFiniteSet(OwnersOf(o)) /\ OwnersOf(o) \subseteq Users
           /\ \A g \in Gatherings : IsFiniteSet(owners[g]) /\ owners[g] \subseteq Owners
<1>1. \A o \in Organizations : OwnersOf(o) \in SUBSET Users
  BY DEF OwnersOf
<1>2. \A g \in Gatherings : owners[g] \in SUBSET Owners
  BY DEF TablesTyped
<1>3. IsFiniteSet(Users) /\ IsFiniteSet(Owners)
  BY PeopleAssumption, IdentifiersAssumption, FS_Union DEF Owners
<1>4. QED
  BY <1>1, <1>2, <1>3, FS_Subset

\* More than one is some without any one of them.
LEMMA OneCanGo ==
    ASSUME NEW S, IsFiniteSet(S), Cardinality(S) > 1, NEW x
    PROVE  S \ {x} # {}
<1> SUFFICES ASSUME S \in SUBSET {x}
             PROVE  FALSE
  OBVIOUS
<1>1. Cardinality(S) <= Cardinality({x}) /\ Cardinality({x}) = 1
  BY FS_Subset, FS_Singleton
<1>2. Cardinality(S) \in Nat
  BY FS_CardinalityType
<1>3. QED
  BY <1>1, <1>2

LEMMA RowPut ==
    ASSUME TablesTyped, NEW o \in Organizations, NEW u \in Users,
           NEW role \in {"owner", "member", "none"}, roster' = [roster EXCEPT ![o][u] = role]
    PROVE  /\ roster' \in [Organizations -> [Users -> {"owner", "member", "none"}]]
           /\ \A p \in Organizations \ {o} : OwnersOf(p)' = OwnersOf(p)
           /\ OwnersOf(o)' = IF role = "owner" THEN OwnersOf(o) \cup {u} ELSE OwnersOf(o) \ {u}
<1>1. roster \in [Organizations -> [Users -> {"owner", "member", "none"}]]
  BY DEF TablesTyped
<1>2. \A p \in Organizations, v \in Users :
        roster'[p][v] = IF p = o /\ v = u THEN role ELSE roster[p][v]
  BY <1>1
<1>3. \A p \in Organizations \ {o} : OwnersOf(p)' = OwnersOf(p)
  BY <1>2 DEF OwnersOf
<1>4. OwnersOf(o)' = IF role = "owner" THEN OwnersOf(o) \cup {u} ELSE OwnersOf(o) \ {u}
  BY <1>2 DEF OwnersOf
<1>5. QED
  BY <1>1, <1>3, <1>4

\* An offer is deleted with what it is about, and is else as it was.
LEMMA CascadeDeletes ==
    ASSUME TablesTyped, NEW x, Cascade(x)
    PROVE  /\ offers' \in [Offers -> OfferRow \cup {NoOffer}]
           /\ \A f \in Offers : offers[f] = NoOffer => offers'[f] = NoOffer
           /\ \A f \in Offers : offers[f] # NoOffer =>
                /\ offers'[f] # NoOffer /\ offers'[f].gathering = offers[f].gathering
                /\ offers'[f].organization = offers[f].organization
                /\ offers'[f].status \in {offers[f].status, "deleted"}
           /\ \A f \in Offers : Exists(f)' =>
                /\ Exists(f) /\ offers'[f] = offers[f]
                /\ offers[f].gathering # x /\ offers[f].organization # x
<1>1. offers \in [Offers -> OfferRow \cup {NoOffer}]
  BY DEF TablesTyped
<1>2. \A f \in Offers : offers'[f] =
        IF offers[f] # NoOffer /\ x \in {offers[f].gathering, offers[f].organization}
        THEN [offers[f] EXCEPT !.status = "deleted"] ELSE offers[f]
  BY DEF Cascade
<1>3. \A r \in OfferRow : /\ [r EXCEPT !.status = "deleted"] \in OfferRow
                          /\ [r EXCEPT !.status = "deleted"].status = "deleted"
                          /\ [r EXCEPT !.status = "deleted"].gathering = r.gathering
                          /\ [r EXCEPT !.status = "deleted"].organization = r.organization
  BY DEF OfferRow
<1>4. offers' \in [Offers -> OfferRow \cup {NoOffer}]
  <2>1. \A f \in Offers : offers'[f] \in OfferRow \cup {NoOffer}
    BY <1>1, <1>2, <1>3
  <2>2. QED
    BY <2>1 DEF Cascade
<1>5. ASSUME NEW f \in Offers, offers[f] # NoOffer
      PROVE  /\ offers'[f] # NoOffer /\ offers'[f].gathering = offers[f].gathering
             /\ offers'[f].organization = offers[f].organization
             /\ offers'[f].status \in {offers[f].status, "deleted"}
  <2>1. offers[f] \in OfferRow
    BY <1>1, <1>5
  <2>2. QED
    BY <1>2, <1>3, <2>1, NoOfferAssumption
<1>6. ASSUME NEW f \in Offers, Exists(f)'
      PROVE  /\ Exists(f) /\ offers'[f] = offers[f]
             /\ offers[f].gathering # x /\ offers[f].organization # x
  <2>1. offers'[f] # NoOffer /\ offers'[f].status # "deleted"
    BY <1>6 DEF Exists
  <2>2. offers[f] \in OfferRow
    BY <1>1, <1>2, <2>1
  <2>3. QED
    BY <1>2, <1>3, <2>1, <2>2, NoOfferAssumption DEF Exists
<1>7. QED
  BY <1>2, <1>4, <1>5, <1>6

\* What an owner is added to.
LEMMA OwnerPut ==
    ASSUME TablesTyped, NEW g \in Gatherings, NEW w \in Owners, PutOwner(g, w)
    PROVE  /\ owners' \in [Gatherings -> SUBSET Owners]
           /\ \A h \in Gatherings : owners[h] \subseteq owners'[h]
           /\ \A h \in Gatherings : \A x \in owners'[h] :
                x \in owners[h] \/ (h = g /\ x = w /\ Here(g) /\ (w \in Users \/ Here(w)))
           /\ Here(g) /\ (w \in Users \/ Here(w)) => w \in owners'[g]
<1>1. owners \in [Gatherings -> SUBSET Owners]
  BY DEF TablesTyped
<1>2. CASE Here(g) /\ (w \in Users \/ Here(w))
  <2>1. owners' = [owners EXCEPT ![g] = owners[g] \cup {w}]
    BY <1>2 DEF PutOwner
  <2>2. owners' \in [Gatherings -> SUBSET Owners]
    BY <1>1, <2>1
  <2>3. \A h \in Gatherings : owners'[h] = IF h = g THEN owners[g] \cup {w} ELSE owners[h]
    BY <1>1, <2>1
  <2>4. QED
    BY <1>2, <2>2, <2>3
<1>3. CASE ~(Here(g) /\ (w \in Users \/ Here(w)))
  BY <1>1, <1>3 DEF PutOwner
<1>4. QED
  BY <1>2, <1>3

----------------------------------------------------------------------------
(* What a step leaves true of the calls it does not move, and of the offers *)

LEMMA OthersFit ==
    ASSUME IInv, NEW d \in Calls, call'[d] = call[d],
           \A f \in Offers : offers[f] # NoOffer =>
                offers'[f] # NoOffer /\ offers'[f].organization = offers[f].organization,
           \A x \in Things : status[x] # "unused" => status'[x] # "unused" /\ (Here(x)' => Here(x)),
           raced \subseteq raced',
           \A o \in Organizations : Relying(d, o) /\ status[o] # "unused" /\ Here(o)' /\ o \notin raced' =>
                OwnersOf(o)' = OwnersOf(o),
           call[d].at = "removeOwner" =>
                LET g == call[d].gathering
                IN  Sure(g)' /\ status[g] # "unused" /\ Cardinality(owners[g]) > 1 =>
                        Cardinality(owners'[g]) > 1
    PROVE  Fits(call[d])'
<1> USE DEF RosterKinds, OfferKinds, OwnerKinds
<1> DEFINE k == call[d]
<1>1. k \in Call /\ Fits(k)
  BY DEF IInv
<1>2. k.at \in OfferKinds => offers'[k.offer] # NoOffer
  BY <1>1, CallKinds DEF Fits
<1>3. k.at \in RosterKinds => status'[k.organization] # "unused"
  BY <1>1, CallKinds DEF Fits, RosterCalls, Things
<1>4. k.at = "removeOwner" => status'[k.gathering] # "unused"
  BY <1>1, CallKinds DEF Fits, OwnerCalls, Things
<1>5. k.at = "write" /\ k.role # "owner" /\ Sure(k.organization)' => Spared(k.organization, k.whom)'
  <2> SUFFICES ASSUME k.at = "write", k.role # "owner", Sure(k.organization)'
               PROVE  k.whom \notin OwnersOf(k.organization)' \/ Cardinality(OwnersOf(k.organization)') > 1
    BY DEF Spared
  <2> DEFINE o == k.organization
  <2>1. o \in Organizations /\ o \in Things /\ status[o] # "unused"
    BY <1>1, CallKinds DEF RosterCalls, Fits, Things
  <2>2. Sure(o) /\ Here(o)' /\ o \notin raced'
    BY <2>1 DEF Sure
  <2>3. Spared(o, k.whom)
    BY <1>1, <2>2 DEF Fits
  <2>4. OwnersOf(o)' = OwnersOf(o)
    BY <2>1, <2>2 DEF Relying
  <2>5. QED
    BY <2>3, <2>4 DEF Spared
<1>6. (k.at = "member" /\ Sure(offers[k.offer].organization) =>
        k.whom \notin OwnersOf(offers[k.offer].organization))'
  <2> DEFINE o == offers[k.offer].organization
  <2> SUFFICES ASSUME k.at = "member", Sure(o)'
               PROVE  (k.whom \notin OwnersOf(o))'
    OBVIOUS
  <2>1. k.offer \in Offers /\ offers[k.offer] # NoOffer
    BY <1>1, CallKinds DEF Fits
  <2>2. o' = o /\ status[o] # "unused" /\ o \in Organizations
    BY <2>1 DEF IInv, TableInv, TablesTyped, OffersAreOfThings, OfferRow
  <2>3. status'[o] = "here" /\ o \notin raced'
    BY <2>2 DEF Sure, Here
  <2>4. Relying(d, o)
    BY DEF Relying
  <2>5. {u \in Users : roster'[o][u] = "owner"} = OwnersOf(o)
    BY <2>2, <2>3, <2>4 DEF OwnersOf, Here
  <2>6. Sure(o)
    BY <2>2, <2>3 DEF Sure, Things, Here
  <2>7. k.whom \notin OwnersOf(o)
    BY <1>1, <2>6 DEF Fits
  <2>8. OwnersOf(o)' = {u \in Users : roster'[o][u] = "owner"}
    BY <2>2 DEF OwnersOf
  <2>9. QED
    BY <2>5, <2>7, <2>8
<1>7. k.at = "removeOwner" /\ Sure(k.gathering)' => Cardinality(owners'[k.gathering]) > 1
  <2> SUFFICES ASSUME k.at = "removeOwner", Sure(k.gathering)'
               PROVE  Cardinality(owners'[k.gathering]) > 1
    OBVIOUS
  <2>1. k.gathering \in Things /\ status[k.gathering] # "unused"
    BY <1>1, CallKinds DEF OwnerCalls, Fits, Things
  <2>2. Sure(k.gathering)
    BY <2>1 DEF Sure
  <2>3. QED
    BY <1>1, <2>1, <2>2 DEF Fits
<1>8. QED
  BY <1>2, <1>3, <1>4, <1>5, <1>6, <1>7 DEF Fits

\* A step that takes nothing from a call it does not move.
LeavesCalls ==
    /\ \A f \in Offers : offers[f] # NoOffer =>
            offers'[f] # NoOffer /\ offers'[f].organization = offers[f].organization
    /\ \A x \in Things : status[x] # "unused" => status'[x] # "unused" /\ (Here(x)' => Here(x))
    /\ raced \subseteq raced'
    /\ \A d \in Calls : call'[d] = call[d] =>
        /\ \A o \in Organizations :
            Relying(d, o) /\ status[o] # "unused" /\ Here(o)' /\ o \notin raced' =>
                OwnersOf(o)' = OwnersOf(o)
        /\ call[d].at = "removeOwner" =>
            LET g == call[d].gathering
            IN  Sure(g)' /\ status[g] # "unused" /\ Cardinality(owners[g]) > 1 =>
                    Cardinality(owners'[g]) > 1

\* A step that accepts no offer, and takes off no owner an accepted one put there.
LeavesPromises ==
    /\ \A f \in Offers : Exists(f)' /\ offers'[f].status = "accepted" =>
        /\ Exists(f) /\ offers'[f] = offers[f]
        /\ offers[f].organization \in owners[offers[f].gathering] =>
                \/ offers[f].organization \in owners'[offers[f].gathering]
                \/ CarryingOut(f) \/ f \in undone'
    /\ undone \subseteq undone'

\* No call moves, or one comes to its end that was carrying out no offer.
LEMMA StepKeeps ==
    ASSUME IInv, TableInv', LeavesCalls, LeavesPromises,
           \/ UNCHANGED call
           \/ \E c \in Calls : Return(c) /\ call[c].at \notin {"accept", "own"}
    PROVE  IInv'
<1>1. /\ call' \in [Calls -> Call]
      /\ \A d \in Calls : call'[d] = call[d] \/ (call'[d] = Idle /\ call[d].at \notin {"accept", "own"})
  BY IdleFits DEF IInv, Return, GoOn
<1>2. ASSUME NEW d \in Calls
      PROVE  Fits(call[d])'
  <2>1. CASE call'[d] = call[d]
    BY <2>1, OthersFit DEF LeavesCalls
  <2>2. CASE call'[d] = Idle
    BY <2>2 DEF Fits, Idle, RosterKinds, OfferKinds
  <2>3. QED
    BY <1>1, <2>1, <2>2
<1>3. AcceptedIsCarriedOut'
  <2> SUFFICES ASSUME NEW f \in Offers, Exists(f)', offers'[f].status = "accepted",
                      offers'[f].organization \notin owners'[offers'[f].gathering], f \notin undone'
               PROVE  CarryingOut(f)'
    BY DEF AcceptedIsCarriedOut
  <2>1. CarryingOut(f)
    BY DEF LeavesPromises, IInv, AcceptedIsCarriedOut
  <2>2. PICK c \in Calls : call[c].at \in {"accept", "own"} /\ call[c].offer = f
    BY <2>1 DEF CarryingOut
  <2>3. call'[c] = call[c]
    BY <1>1, <2>2
  <2>4. QED
    BY <2>2, <2>3 DEF CarryingOut
<1>4. QED
  BY <1>1, <1>2, <1>3 DEF IInv

\* Nothing of the offers changes, and nobody stops being an owner of a gathering.
LEMMA OwnersOnlyAdded ==
    ASSUME UNCHANGED <<offers, undone>>, \A h \in Gatherings : owners[h] \subseteq owners'[h], IInv
    PROVE  LeavesPromises
<1>1. \A f \in Offers : Exists(f) => offers[f].gathering \in Gatherings
  BY DEF IInv, TableInv, TablesTyped, OfferRow, Exists
<1>2. QED
  BY <1>1 DEF LeavesPromises, Exists

----------------------------------------------------------------------------
(* Organizations *)

LEMMA CreateOrganizationKeeps ==
    ASSUME IInv, NEW u \in Users, NEW o \in Organizations, CreateOrganization(u, o)
    PROVE  IInv'
<1> USE DEF CreateOrganization, history, Here
<1>1. /\ TablesTyped /\ OffersAreOfThings /\ OrganizationKeepsAnOwner /\ GatheringKeepsAnOwner
      /\ o \in Things
  BY DEF IInv, TableInv, Things
<1>2. /\ roster' \in [Organizations -> [Users -> {"owner", "member", "none"}]]
      /\ \A p \in Organizations \ {o} : OwnersOf(p)' = OwnersOf(p)
      /\ OwnersOf(o)' = OwnersOf(o) \cup {u}
  BY <1>1, RowPut
<1>3. /\ status' \in [Things -> {"unused", "here", "deleted"}]
      /\ \A x \in Things : status'[x] = IF x = o THEN "here" ELSE status[x]
  BY <1>1 DEF TablesTyped
<1>4. \A g \in Gatherings : g \in Things /\ g # o
  BY IdentifiersAssumption DEF Things
<1>5. TablesTyped'
  BY <1>1, <1>2, <1>3, <1>4 DEF TablesTyped, Things
<1>6. OffersAreOfThings'
  <2>1. \A f \in Offers : offers[f] # NoOffer => offers[f].gathering \in Things /\ offers[f].organization \in Things
    BY <1>1 DEF TablesTyped, OfferRow, Things
  <2>2. QED
    BY <1>1, <1>3, <2>1 DEF OffersAreOfThings, Exists
<1>7. OrganizationKeepsAnOwner' /\ GatheringKeepsAnOwner'
  BY <1>1, <1>2, <1>3, <1>4 DEF OrganizationKeepsAnOwner, GatheringKeepsAnOwner, Things
<1>8. LeavesCalls
  BY <1>2, <1>3 DEF LeavesCalls, Sure
<1>9. QED
  BY <1>5, <1>6, <1>7, <1>8, OwnersOnlyAdded, StepKeeps DEF TableInv

LEMMA DeleteOrganizationKeeps ==
    ASSUME IInv, NEW o \in Organizations, DeleteOrganization(o)
    PROVE  IInv'
<1> USE DEF DeleteOrganization, Here
<1>1. /\ TablesTyped /\ OffersAreOfThings /\ OrganizationKeepsAnOwner /\ GatheringKeepsAnOwner
      /\ o \in Things
  BY DEF IInv, TableInv, Things
<1>2. /\ roster' \in [Organizations -> [Users -> {"owner", "member", "none"}]]
      /\ \A p \in Organizations \ {o} : OwnersOf(p)' = OwnersOf(p)
      /\ OwnersOf(o)' = {}
  <2>1. /\ roster' \in [Organizations -> [Users -> {"owner", "member", "none"}]]
        /\ \A p \in Organizations : roster'[p] = IF p = o THEN [u \in Users |-> "none"] ELSE roster[p]
    BY <1>1 DEF TablesTyped
  <2>2. QED
    BY <2>1 DEF OwnersOf
<1>3. /\ status' \in [Things -> {"unused", "here", "deleted"}]
      /\ \A x \in Things : status'[x] = IF x = o THEN "deleted" ELSE status[x]
  BY <1>1 DEF TablesTyped
<1>4. \A g \in Gatherings : g \in Things /\ g # o
  BY IdentifiersAssumption DEF Things
<1>5. \A g \in Gatherings : owners'[g] = owners[g] \ {o}
  OBVIOUS
<1>6. /\ offers' \in [Offers -> OfferRow \cup {NoOffer}]
      /\ \A f \in Offers : offers[f] = NoOffer => offers'[f] = NoOffer
      /\ \A f \in Offers : offers[f] # NoOffer =>
            /\ offers'[f] # NoOffer /\ offers'[f].gathering = offers[f].gathering
            /\ offers'[f].organization = offers[f].organization
      /\ \A f \in Offers : Exists(f)' =>
            Exists(f) /\ offers'[f] = offers[f] /\ offers[f].organization # o
  BY <1>1, CascadeDeletes
<1>7. TablesTyped'
  BY <1>1, <1>2, <1>3, <1>4, <1>5, <1>6 DEF TablesTyped, Things
<1>8. \A f \in Offers : offers[f] # NoOffer => offers[f].gathering \in Gatherings /\ offers[f].organization \in Things
  BY <1>1 DEF TablesTyped, OfferRow, Things
<1>9. OffersAreOfThings'
  BY <1>1, <1>3, <1>4, <1>6, <1>8 DEF OffersAreOfThings, Exists
<1>10. OrganizationKeepsAnOwner' /\ GatheringKeepsAnOwner'
  BY <1>1, <1>2, <1>3, <1>4, <1>5 DEF OrganizationKeepsAnOwner, GatheringKeepsAnOwner, Things
<1>11. LeavesCalls
  <2>1. ASSUME NEW d \in Calls, call[d].at = "removeOwner", call[d].gathering \notin raced',
               status[call[d].gathering] # "unused"
        PROVE  owners'[call[d].gathering] = owners[call[d].gathering]
    <3>1. call[d].gathering \in Gatherings
      BY <2>1, CallKinds DEF IInv, OwnerKinds, OwnerCalls
    <3>2. Removing(call[d].gathering)
      BY <2>1 DEF Removing
    <3>3. o \notin owners[call[d].gathering]
      BY <2>1, <3>1, <3>2
    <3>4. QED
      BY <1>5, <3>1, <3>3
  <2>2. \A p \in Organizations : Here(p)' => OwnersOf(p)' = OwnersOf(p)
    BY <1>2, <1>3
  <2>3. QED
    BY <1>3, <1>6, <2>1, <2>2 DEF LeavesCalls, Sure
<1>12. LeavesPromises
  BY <1>5, <1>6, <1>8 DEF LeavesPromises, Exists
<1>13. UNCHANGED call
  OBVIOUS
<1>14. QED
  BY <1>7, <1>9, <1>10, <1>11, <1>12, <1>13, StepKeeps DEF TableInv

\* The roster of an organization that is there, and what an owner taken off it
\* leaves behind.
LEMMA RolePut ==
    ASSUME IInv, NEW c \in Calls, NEW o \in Organizations, NEW u \in Users,
           NEW role \in {"owner", "member", "none"}, Here(o), PutRole(c, o, u, role),
           role = "owner" \/ (Sure(o) => Spared(o, u)),
           UNCHANGED <<status, owners, offers, faults, orphaned, undone>>
    PROVE  /\ TableInv' /\ raced \subseteq raced'
           /\ \A d \in Calls \ {c}, p \in Organizations : Relying(d, p) /\ p \notin raced' =>
                OwnersOf(p)' = OwnersOf(p)
<1> USE DEF Here
<1>1. /\ TablesTyped /\ OffersAreOfThings /\ OrganizationKeepsAnOwner /\ GatheringKeepsAnOwner
      /\ o \in Things
  BY DEF IInv, TableInv, Things
<1>2. /\ roster' \in [Organizations -> [Users -> {"owner", "member", "none"}]]
      /\ \A p \in Organizations \ {o} : OwnersOf(p)' = OwnersOf(p)
      /\ OwnersOf(o)' = IF role = "owner" THEN OwnersOf(o) \cup {u} ELSE OwnersOf(o) \ {u}
  BY <1>1, RowPut DEF PutRole
<1>3. raced \subseteq raced' /\ raced' \subseteq raced \cup {o}
  BY DEF PutRole
<1>4. TablesTyped'
  BY <1>1, <1>2, <1>3 DEF TablesTyped
<1>5. OffersAreOfThings' /\ GatheringKeepsAnOwner'
  BY <1>1, <1>3 DEF OffersAreOfThings, Exists, GatheringKeepsAnOwner
<1>6. OrganizationKeepsAnOwner'
  <2> SUFFICES ASSUME o \notin raced'
               PROVE  OwnersOf(o)' # {}
    BY <1>1, <1>2, <1>3 DEF OrganizationKeepsAnOwner
  <2>1. CASE role = "owner"
    BY <1>2, <2>1
  <2>2. CASE role # "owner"
    <3>1. Spared(o, u) /\ OwnersOf(o) # {}
      BY <1>1, <1>3, <2>2 DEF Sure, OrganizationKeepsAnOwner
    <3>2. CASE u \notin OwnersOf(o)
      BY <1>2, <2>2, <3>1, <3>2
    <3>3. CASE Cardinality(OwnersOf(o)) > 1
      BY <1>1, <1>2, <2>2, <3>3, OwnersAreFinite, OneCanGo
    <3>4. QED
      BY <3>1, <3>2, <3>3 DEF Spared
  <2>3. QED
    BY <2>1, <2>2
<1>7. ASSUME NEW d \in Calls \ {c}, NEW p \in Organizations, Relying(d, p), p \notin raced'
      PROVE  OwnersOf(p)' = OwnersOf(p)
  <2>1. CASE p = o
    <3>1. (u \in OwnersOf(o)) <=> (role = "owner")
      BY <1>7, <2>1 DEF PutRole
    <3>2. QED
      BY <1>2, <2>1, <3>1
  <2>2. QED
    BY <1>2, <2>1
<1>8. QED
  BY <1>3, <1>4, <1>5, <1>6, <1>7 DEF TableInv

LEMMA WriteRosterKeeps ==
    ASSUME IInv, NEW c \in Calls, WriteRoster(c)
    PROVE  IInv'
<1> DEFINE k == call[c]
<1>1. /\ k.at = "write" /\ k.organization \in Organizations /\ k.whom \in Users
      /\ k.role \in {"owner", "member", "none"} /\ Fits(k)
  BY CallKinds DEF WriteRoster, IInv, RosterKinds, RosterCalls
<1>2. Return(c) /\ call'[c] # call[c]
  BY <1>1, IdleFits DEF WriteRoster, Return, GoOn, IInv
<1>3. LeavesPromises
  BY OwnersOnlyAdded DEF WriteRoster
<1>4. CASE Here(k.organization)
  <2>1. /\ TableInv' /\ raced \subseteq raced'
        /\ \A d \in Calls \ {c}, p \in Organizations : Relying(d, p) /\ p \notin raced' =>
             OwnersOf(p)' = OwnersOf(p)
    BY <1>1, <1>4, RolePut DEF WriteRoster, Fits
  <2>2. LeavesCalls
    BY <1>2, <2>1 DEF LeavesCalls, WriteRoster, Here
  <2>3. QED
    BY <1>1, <1>2, <1>3, <2>1, <2>2, StepKeeps
<1>5. CASE ~Here(k.organization)
  <2>1. UNCHANGED <<tables, faults, history>>
    BY <1>5 DEF WriteRoster, tables, history
  <2>2. QED
    BY <1>1, <1>2, <2>1, ReturnKeeps
<1>6. QED
  BY <1>4, <1>5

----------------------------------------------------------------------------
(* Gatherings and their owners *)

\* A gathering that starts, with one owner who is there.
LEMMA GatheringStarts ==
    ASSUME IInv, NEW g \in Gatherings, NEW w \in Owners, status[g] = "unused",
           w \in Users \/ Here(w),
           status' = [status EXCEPT ![g] = "here"], owners' = [owners EXCEPT ![g] = {w}],
           UNCHANGED <<roster, offers, faults, raced, orphaned, undone>>
    PROVE  TableInv' /\ LeavesCalls /\ LeavesPromises
<1> USE DEF Here
<1>1. /\ TablesTyped /\ OffersAreOfThings /\ OrganizationKeepsAnOwner /\ GatheringKeepsAnOwner
      /\ g \in Things
  BY DEF IInv, TableInv, Things
<1>2. /\ status' \in [Things -> {"unused", "here", "deleted"}]
      /\ \A x \in Things : status'[x] = IF x = g THEN "here" ELSE status[x]
  BY <1>1 DEF TablesTyped
<1>3. /\ owners' \in [Gatherings -> SUBSET Owners]
      /\ \A h \in Gatherings : owners'[h] = IF h = g THEN {w} ELSE owners[h]
  BY <1>1 DEF TablesTyped
<1>4. \A o \in Organizations : o \in Things /\ o # g /\ o \notin Users
  BY IdentifiersAssumption DEF Things
<1>5. OwnersOf(w)' = OwnersOf(w) /\ \A o \in Organizations : OwnersOf(o)' = OwnersOf(o)
  BY DEF OwnersOf
<1>6. owners[g] = {}
  BY <1>1 DEF TablesTyped
<1>7. TablesTyped'
  <2>1. ASSUME NEW o \in Organizations, ~Here(o)'
        PROVE  OwnersOf(o)' = {} /\ \A h \in Gatherings : o \notin owners'[h]
    BY <1>1, <1>2, <1>3, <1>4, <1>5, <2>1 DEF TablesTyped
  <2>2. ASSUME NEW h \in Gatherings, ~Here(h)'
        PROVE  owners'[h] = {}
    BY <1>1, <1>2, <1>3, <2>2 DEF TablesTyped, Things
  <2>3. QED
    BY <1>1, <1>2, <1>3, <2>1, <2>2 DEF TablesTyped
<1>8. \A f \in Offers : offers[f] # NoOffer =>
        /\ offers[f].gathering \in Things \cap Gatherings /\ offers[f].organization \in Things
        /\ offers[f].gathering # g
  BY <1>1 DEF TablesTyped, OffersAreOfThings, OfferRow, Things
<1>9. OffersAreOfThings'
  BY <1>1, <1>2, <1>8 DEF OffersAreOfThings, Exists
<1>10. OrganizationKeepsAnOwner' /\ GatheringKeepsAnOwner'
  BY <1>1, <1>2, <1>3, <1>4, <1>5 DEF OrganizationKeepsAnOwner, GatheringKeepsAnOwner, Things
<1>11. LeavesCalls
  <2>1. ASSUME NEW d \in Calls, call[d].at = "removeOwner", status[call[d].gathering] # "unused"
        PROVE  owners'[call[d].gathering] = owners[call[d].gathering]
    <3>1. call[d].gathering \in Gatherings
      BY <2>1, CallKinds DEF IInv, OwnerKinds, OwnerCalls
    <3>2. QED
      BY <1>3, <2>1, <3>1
  <2>2. QED
    BY <1>2, <1>5, <2>1 DEF LeavesCalls
<1>12. LeavesPromises
  BY <1>3, <1>6, OwnersOnlyAdded
<1>13. QED
  BY <1>7, <1>9, <1>10, <1>11, <1>12 DEF TableInv

LEMMA CreateGatheringKeeps ==
    ASSUME IInv, NEW g \in Gatherings, NEW w \in Users, CreateGathering(g, w)
    PROVE  IInv'
<1>1. TableInv' /\ LeavesCalls /\ LeavesPromises
  BY GatheringStarts DEF CreateGathering, history, Owners
<1>2. QED
  BY <1>1, StepKeeps DEF CreateGathering

LEMMA CreateUnderKeeps ==
    ASSUME IInv, NEW c \in Calls, NEW g \in Gatherings, CreateUnder(c, g)
    PROVE  IInv'
<1>1. call[c].at = "create" /\ call[c].owner \in Organizations /\ Return(c)
  BY CallKinds DEF CreateUnder, IInv
<1>2. CASE Here(call[c].owner)
  <2>1. TableInv' /\ LeavesCalls /\ LeavesPromises
    BY <1>1, <1>2, GatheringStarts DEF CreateUnder, history, Owners
  <2>2. QED
    BY <1>1, <2>1, StepKeeps
<1>3. CASE ~Here(call[c].owner)
  <2>1. UNCHANGED <<tables, faults, history>>
    BY <1>3 DEF CreateUnder, tables, history
  <2>2. QED
    BY <1>1, <2>1, ReturnKeeps
<1>4. QED
  BY <1>2, <1>3

\* An owner more: the statement of AddGatheringOwner, AdoptGathering and acceptOffer.
LEMMA OwnerAdded ==
    ASSUME IInv, NEW g \in Gatherings, NEW w \in Owners, PutOwner(g, w),
           UNCHANGED <<status, roster, offers, faults, raced, orphaned, undone>>
    PROVE  TableInv' /\ LeavesCalls /\ LeavesPromises
<1> USE DEF Here
<1>1. TablesTyped /\ OffersAreOfThings /\ OrganizationKeepsAnOwner /\ GatheringKeepsAnOwner
  BY DEF IInv, TableInv
<1>2. /\ owners' \in [Gatherings -> SUBSET Owners]
      /\ \A h \in Gatherings : owners[h] \subseteq owners'[h]
      /\ \A h \in Gatherings : \A x \in owners'[h] :
            x \in owners[h] \/ (h = g /\ x = w /\ Here(g) /\ (w \in Users \/ Here(w)))
  BY <1>1, OwnerPut
<1>3. \A o \in Organizations : OwnersOf(o)' = OwnersOf(o) /\ o \notin Users
  BY IdentifiersAssumption DEF OwnersOf
<1>4. TablesTyped'
  <2>1. ASSUME NEW o \in Organizations, ~Here(o)'
        PROVE  OwnersOf(o)' = {} /\ \A h \in Gatherings : o \notin owners'[h]
    BY <1>1, <1>2, <1>3, <2>1 DEF TablesTyped
  <2>2. ASSUME NEW h \in Gatherings, ~Here(h)'
        PROVE  owners'[h] = {}
    BY <1>1, <1>2, <2>2 DEF TablesTyped
  <2>3. QED
    BY <1>1, <1>2, <2>1, <2>2 DEF TablesTyped
<1>5. OffersAreOfThings' /\ OrganizationKeepsAnOwner' /\ GatheringKeepsAnOwner'
  BY <1>1, <1>2, <1>3 DEF OffersAreOfThings, Exists, OrganizationKeepsAnOwner, GatheringKeepsAnOwner
<1>6. LeavesCalls
  <2>1. ASSUME NEW d \in Calls, call[d].at = "removeOwner", Cardinality(owners[call[d].gathering]) > 1
        PROVE  Cardinality(owners'[call[d].gathering]) > 1
    <3> DEFINE h == call[d].gathering
    <3>1. h \in Gatherings
      BY <2>1, CallKinds DEF IInv, OwnerKinds, OwnerCalls
    <3>2. IsFiniteSet(owners'[h]) /\ IsFiniteSet(owners[h])
      <4>1. owners'[h] \in SUBSET Owners /\ owners[h] \in SUBSET Owners
        BY <1>1, <1>2, <3>1 DEF TablesTyped
      <4>2. IsFiniteSet(Owners)
        BY PeopleAssumption, IdentifiersAssumption, FS_Union DEF Owners
      <4>3. QED
        BY <4>1, <4>2, FS_Subset
    <3>3. Cardinality(owners[h]) <= Cardinality(owners'[h])
      BY <1>2, <3>1, <3>2, FS_Subset
    <3>4. Cardinality(owners[h]) \in Nat /\ Cardinality(owners'[h]) \in Nat
      BY <3>2, FS_CardinalityType
    <3>5. QED
      BY <2>1, <3>3, <3>4
  <2>2. QED
    BY <1>3, <2>1 DEF LeavesCalls, Sure
<1>7. LeavesPromises
  BY <1>2, OwnersOnlyAdded
<1>8. QED
  BY <1>4, <1>5, <1>6, <1>7 DEF TableInv

LEMMA AdoptGatheringKeeps ==
    ASSUME IInv, NEW g \in Gatherings, NEW o \in Organizations, AdoptGathering(g, o)
    PROVE  IInv'
<1>1. TableInv' /\ LeavesCalls /\ LeavesPromises
  BY OwnerAdded DEF AdoptGathering, history, Owners
<1>2. QED
  BY <1>1, StepKeeps DEF AdoptGathering

LEMMA AddOwnerKeeps ==
    ASSUME IInv, NEW c \in Calls, AddOwner(c)
    PROVE  IInv'
<1>1. call[c].at = "addOwner" /\ call[c].gathering \in Gatherings /\ call[c].owner \in Owners
  BY CallKinds DEF AddOwner, IInv, OwnerKinds, OwnerCalls
<1>2. TableInv' /\ LeavesCalls /\ LeavesPromises
  BY <1>1, OwnerAdded DEF AddOwner, history
<1>3. QED
  BY <1>1, <1>2, StepKeeps DEF AddOwner

LEMMA RemoveOwnerKeeps ==
    ASSUME IInv, NEW c \in Calls, RemoveOwner(c)
    PROVE  IInv'
<1> USE DEF Here
<1> DEFINE g == call[c].gathering
           w == call[c].owner
<1>1. /\ TablesTyped /\ OffersAreOfThings /\ OrganizationKeepsAnOwner /\ GatheringKeepsAnOwner
      /\ call[c].at = "removeOwner" /\ g \in Gatherings /\ w \in Owners /\ Fits(call[c])
  BY CallKinds DEF RemoveOwner, IInv, TableInv, OwnerKinds, OwnerCalls
<1>2. /\ owners' \in [Gatherings -> SUBSET Owners]
      /\ \A h \in Gatherings : owners'[h] = IF h = g THEN owners[g] \ {w} ELSE owners[h]
  BY <1>1 DEF RemoveOwner, TablesTyped
<1>3. UNCHANGED <<status, roster, offers, faults, orphaned>>
  BY DEF RemoveOwner
<1>4. /\ \A o \in Organizations : OwnersOf(o)' = OwnersOf(o)
      /\ raced \subseteq raced' /\ raced' \subseteq raced \cup {g}
      /\ undone \subseteq undone' /\ undone' \subseteq Offers
  BY <1>1, <1>3 DEF RemoveOwner, OwnersOf, TablesTyped
<1>5. TablesTyped'
  BY <1>1, <1>2, <1>3, <1>4 DEF TablesTyped, Things
<1>6. OffersAreOfThings' /\ OrganizationKeepsAnOwner'
  BY <1>1, <1>3, <1>4 DEF OffersAreOfThings, Exists, OrganizationKeepsAnOwner
<1>7. GatheringKeepsAnOwner'
  <2>1. ASSUME Sure(g)
        PROVE  owners'[g] # {}
    BY <1>1, <1>2, <2>1, OwnersAreFinite, OneCanGo DEF Fits
  <2>2. QED
    BY <1>1, <1>2, <1>3, <1>4, <2>1 DEF GatheringKeepsAnOwner, Sure
<1>8. call'[c] # call[c]
  BY <1>1, IdleFits DEF RemoveOwner, Return, GoOn, IInv
<1>9. LeavesCalls
  <2>1. ASSUME NEW d \in Calls, call'[d] = call[d], call[d].at = "removeOwner",
               call[d].gathering \notin raced'
        PROVE  owners'[call[d].gathering] = owners[call[d].gathering]
    <3>1. call[d].gathering \in Gatherings
      BY <2>1, CallKinds DEF IInv, OwnerKinds, OwnerCalls
    <3>2. CASE call[d].gathering = g
      <4>1. w \notin owners[g]
        BY <1>8, <2>1, <3>2 DEF RemoveOwner
      <4>2. QED
        BY <1>2, <3>1, <3>2, <4>1
    <3>3. QED
      BY <1>2, <3>1, <3>2
  <2>2. QED
    BY <1>3, <1>4, <2>1 DEF LeavesCalls, Sure
<1>10. LeavesPromises
  <2> SUFFICES ASSUME NEW f \in Offers, Exists(f), offers[f].status = "accepted",
                      offers[f].organization \in owners[offers[f].gathering],
                      offers[f].organization \notin owners'[offers[f].gathering],
                      ~CarryingOut(f)
               PROVE  f \in undone'
    BY <1>3, <1>4 DEF LeavesPromises, Exists
  <2>1. offers[f] \in OfferRow
    BY <1>1 DEF TablesTyped, Exists
  <2>2. offers[f].gathering = g /\ offers[f].organization = w /\ w \in Organizations
    BY <1>2, <2>1 DEF OfferRow
  <2>3. offers[f] = Offer(g, w, "accepted")
    BY <2>1, <2>2 DEF OfferRow, Offer
  <2>4. QED
    BY <2>2, <2>3 DEF RemoveOwner
<1>11. QED
  BY <1>1, <1>5, <1>6, <1>7, <1>9, <1>10, StepKeeps DEF TableInv, RemoveOwner

LEMMA RemoveGatheringKeeps ==
    ASSUME IInv, NEW c \in Calls, RemoveGathering(c)
    PROVE  IInv'
<1> USE DEF Here
<1> DEFINE g == call[c].gathering
<1>1. /\ TablesTyped /\ OffersAreOfThings /\ OrganizationKeepsAnOwner /\ GatheringKeepsAnOwner
      /\ call[c].at = "delete" /\ g \in Gatherings /\ g \in Things
  BY CallKinds DEF RemoveGathering, IInv, TableInv, Things
<1>2. /\ status' \in [Things -> {"unused", "here", "deleted"}]
      /\ \A x \in Things : status'[x] = IF x = g THEN "deleted" ELSE status[x]
  BY <1>1 DEF RemoveGathering, TablesTyped
<1>3. /\ owners' \in [Gatherings -> SUBSET Owners]
      /\ \A h \in Gatherings : owners'[h] = IF h = g THEN {} ELSE owners[h]
  BY <1>1 DEF RemoveGathering, TablesTyped
<1>4. /\ offers' \in [Offers -> OfferRow \cup {NoOffer}]
      /\ \A f \in Offers : offers[f] = NoOffer => offers'[f] = NoOffer
      /\ \A f \in Offers : offers[f] # NoOffer =>
            /\ offers'[f] # NoOffer /\ offers'[f].gathering = offers[f].gathering
            /\ offers'[f].organization = offers[f].organization
      /\ \A f \in Offers : Exists(f)' =>
            Exists(f) /\ offers'[f] = offers[f] /\ offers[f].gathering # g
  BY <1>1, CascadeDeletes DEF RemoveGathering
<1>5. UNCHANGED <<roster, faults, raced, orphaned, undone>>
  BY DEF RemoveGathering, history
<1>6. \A o \in Organizations : OwnersOf(o)' = OwnersOf(o) /\ o \in Things /\ o # g
  BY <1>1, <1>5, IdentifiersAssumption DEF OwnersOf, Things
<1>7. TablesTyped'
  BY <1>1, <1>2, <1>3, <1>4, <1>5, <1>6 DEF TablesTyped, Things
<1>8. \A f \in Offers : offers[f] # NoOffer =>
        offers[f].gathering \in Gatherings /\ offers[f].organization \in Organizations
  BY <1>1 DEF TablesTyped, OfferRow
<1>9. OffersAreOfThings'
  BY <1>1, <1>2, <1>4, <1>6, <1>8 DEF OffersAreOfThings, Exists, Things
<1>10. OrganizationKeepsAnOwner' /\ GatheringKeepsAnOwner'
  BY <1>1, <1>2, <1>3, <1>5, <1>6 DEF OrganizationKeepsAnOwner, GatheringKeepsAnOwner, Things
<1>11. LeavesCalls
  <2>1. ASSUME NEW d \in Calls, call[d].at = "removeOwner", Here(call[d].gathering)'
        PROVE  owners'[call[d].gathering] = owners[call[d].gathering] \/ call'[d] # call[d]
    <3>1. call[d].gathering \in Gatherings
      BY <2>1, CallKinds DEF IInv, OwnerKinds, OwnerCalls
    <3>2. CASE call'[d] = call[d]
      BY <1>2, <1>3, <2>1, <3>1, <3>2 DEF Things
    <3>3. QED
      BY <3>2
  <2>2. QED
    BY <1>2, <1>4, <1>5, <1>6, <2>1 DEF LeavesCalls, Sure
<1>12. LeavesPromises
  BY <1>3, <1>4, <1>5, <1>8 DEF LeavesPromises, Exists
<1>13. QED
  BY <1>1, <1>7, <1>9, <1>10, <1>11, <1>12, StepKeeps DEF TableInv, RemoveGathering

----------------------------------------------------------------------------
(* Offers *)

LEMMA InsertOfferKeeps ==
    ASSUME IInv, NEW c \in Calls, InsertOffer(c)
    PROVE  IInv'
<1> USE DEF Here
<1> DEFINE g == call[c].gathering
           o == call[c].organization
<1>1. /\ TableInv /\ TablesTyped /\ OffersAreOfThings
      /\ call[c].at = "insert" /\ g \in Gatherings /\ o \in Organizations /\ Return(c)
  BY CallKinds DEF InsertOffer, IInv, TableInv, OfferingKinds, OfferingCalls
<1>2. UNCHANGED <<status, roster, owners, faults, raced, orphaned, undone>>
  BY DEF InsertOffer, history
<1>3. CASE UNCHANGED offers
  <2>1. UNCHANGED <<tables, faults, history>>
    BY <1>2, <1>3 DEF tables, history
  <2>2. QED
    BY <1>1, <2>1, ReturnKeeps
<1>4. ASSUME NEW f \in Offers, offers[f] = NoOffer, Insertable(g, o),
             offers' = [offers EXCEPT ![f] = Offer(g, o, "pending")]
      PROVE  IInv'
  <2>1. /\ Offer(g, o, "pending") \in OfferRow /\ Offer(g, o, "pending").status = "pending"
        /\ Offer(g, o, "pending").gathering = g /\ Offer(g, o, "pending").organization = o
    BY <1>1 DEF Offer, OfferRow
  <2>2. \A e \in Offers : offers'[e] = IF e = f THEN Offer(g, o, "pending") ELSE offers[e]
    BY <1>1, <1>4 DEF TablesTyped
  <2>3. offers' \in [Offers -> OfferRow \cup {NoOffer}]
    BY <1>1, <1>4, <2>1 DEF TablesTyped
  <2>4. \A p \in Organizations : OwnersOf(p)' = OwnersOf(p)
    BY <1>2 DEF OwnersOf
  <2>5. TableInv'
    <3>1. TablesTyped'
      BY <1>1, <1>2, <2>3, <2>4 DEF TablesTyped
    <3>2. OffersAreOfThings'
      BY <1>1, <1>2, <1>4, <2>1, <2>2 DEF OffersAreOfThings, Exists, Insertable
    <3>3. OrganizationKeepsAnOwner' /\ GatheringKeepsAnOwner'
      BY <1>1, <1>2, <2>4 DEF TableInv, OrganizationKeepsAnOwner, GatheringKeepsAnOwner
    <3>4. QED
      BY <3>1, <3>2, <3>3 DEF TableInv
  <2>6. LeavesCalls
    BY <1>2, <1>4, <2>2, <2>4 DEF LeavesCalls
  <2>7. LeavesPromises
    BY <1>2, <1>4, <2>1, <2>2 DEF LeavesPromises, Exists
  <2>8. QED
    BY <1>1, <2>5, <2>6, <2>7, StepKeeps
<1>5. QED
  BY <1>3, <1>4 DEF InsertOffer

LEMMA ResolveGatheringOfferKeeps ==
    ASSUME IInv, NEW c \in Calls, ResolveGatheringOffer(c)
    PROVE  IInv'
<1> USE DEF Here
<1> DEFINE f == call[c].offer
           a == call[c].status
<1>1. /\ TableInv /\ TablesTyped /\ OffersAreOfThings
      /\ call[c].at = "answer" /\ f \in Offers /\ a \in OfferStatuses /\ offers[f] # NoOffer
  BY CallKinds DEF ResolveGatheringOffer, IInv, TableInv, OfferKinds, Fits
<1>2. offers[f] \in OfferRow
  BY <1>1 DEF TablesTyped
<1>3. UNCHANGED <<status, roster, owners, faults, raced, orphaned, undone>>
  BY DEF ResolveGatheringOffer, history
<1>4. CASE ~Answerable(f)
  <2>1. UNCHANGED <<tables, faults, history>> /\ Return(c)
    BY <1>3, <1>4 DEF ResolveGatheringOffer, tables, history
  <2>2. QED
    BY <1>1, <2>1, ReturnKeeps
<1>5. CASE Answerable(f)
  <2>1. offers' = [offers EXCEPT ![f].status = a]
    BY <1>5 DEF ResolveGatheringOffer
  <2>2. /\ offers'[f] \in OfferRow /\ offers'[f].status = a /\ offers'[f] # NoOffer
        /\ offers'[f].gathering = offers[f].gathering
        /\ offers'[f].organization = offers[f].organization
        /\ \A e \in Offers \ {f} : offers'[e] = offers[e]
        /\ offers' \in [Offers -> OfferRow \cup {NoOffer}]
    BY <1>1, <1>2, <2>1, NoOfferAssumption DEF TablesTyped, OfferRow, OfferStatuses
  <2>3. \A p \in Organizations : OwnersOf(p)' = OwnersOf(p)
    BY <1>3 DEF OwnersOf
  <2>4. Exists(f)
    BY <1>1, <1>5 DEF Exists, Answerable
  <2>5. TableInv'
    <3>1. TablesTyped'
      BY <1>1, <1>3, <2>2, <2>3 DEF TablesTyped
    <3>2. OffersAreOfThings'
      BY <1>1, <1>3, <2>2, <2>4 DEF OffersAreOfThings, Exists
    <3>3. OrganizationKeepsAnOwner' /\ GatheringKeepsAnOwner'
      BY <1>1, <1>3, <2>3 DEF TableInv, OrganizationKeepsAnOwner, GatheringKeepsAnOwner
    <3>4. QED
      BY <3>1, <3>2, <3>3 DEF TableInv
  <2>6. LeavesCalls
    BY <1>3, <2>2, <2>3 DEF LeavesCalls
  <2>7. CASE a # "accepted"
    <3>1. Return(c)
      BY <1>5, <2>7 DEF ResolveGatheringOffer
    <3>2. LeavesPromises
      BY <1>3, <2>2, <2>7 DEF LeavesPromises, Exists
    <3>3. QED
      BY <1>1, <2>5, <2>6, <3>1, <3>2, StepKeeps
  <2>8. CASE a = "accepted"
    <3> DEFINE k == [at |-> "accept", offer |-> f]
    <3>1. /\ k \in Call /\ call' \in [Calls -> Call]
          /\ \A d \in Calls : call'[d] = IF d = c THEN k ELSE call[d]
      BY <1>1, <1>5, <2>8 DEF Call, ResolveGatheringOffer, GoOn, IInv
    <3>2. ASSUME NEW d \in Calls
          PROVE  Fits(call[d])'
      <4>1. CASE d = c
        BY <2>2, <3>1, <4>1 DEF Fits, RosterKinds, OfferKinds
      <4>2. CASE d # c
        BY <2>6, <3>1, <4>2, OthersFit DEF LeavesCalls
      <4>3. QED
        BY <4>1, <4>2
    <3>3. AcceptedIsCarriedOut'
      <4> SUFFICES ASSUME NEW e \in Offers, Exists(e)', offers'[e].status = "accepted",
                          offers'[e].organization \notin owners'[offers'[e].gathering], e \notin undone'
                   PROVE  CarryingOut(e)'
        BY DEF AcceptedIsCarriedOut
      <4>1. CASE e = f
        BY <3>1, <4>1 DEF CarryingOut
      <4>2. CASE e # f
        <5>1. CarryingOut(e)
          BY <1>3, <2>2, <4>2 DEF IInv, AcceptedIsCarriedOut, Exists
        <5>2. PICK d \in Calls : call[d].at \in {"accept", "own"} /\ call[d].offer = e
          BY <5>1 DEF CarryingOut
        <5>3. call'[d] = call[d]
          BY <1>1, <3>1, <5>2
        <5>4. QED
          BY <5>2, <5>3 DEF CarryingOut
      <4>3. QED
        BY <4>1, <4>2
    <3>4. QED
      BY <2>5, <3>1, <3>2, <3>3 DEF IInv
  <2>9. QED
    BY <2>7, <2>8
<1>6. QED
  BY <1>4, <1>5

LEMMA TakeOwnershipKeeps ==
    ASSUME IInv, NEW c \in Calls, TakeOwnership(c)
    PROVE  IInv'
<1> DEFINE f == call[c].offer
           g == offers[f].gathering
           o == offers[f].organization
           k == [at |-> "enroll", offer |-> f, todo |-> call[c].todo]
<1>1. /\ TableInv /\ TablesTyped /\ OffersAreOfThings
      /\ call[c].at = "own" /\ f \in Offers /\ offers[f] # NoOffer /\ call[c].todo \subseteq Users
  BY CallKinds DEF TakeOwnership, IInv, TableInv, OfferKinds, Fits
<1>2. g \in Gatherings /\ o \in Organizations /\ o \in Owners
  BY <1>1 DEF TablesTyped, OfferRow, Owners
<1>3. PutOwner(g, o) /\ UNCHANGED <<status, roster, offers, faults, raced, orphaned, undone>>
  BY DEF TakeOwnership, history
<1>4. TableInv' /\ LeavesCalls /\ LeavesPromises
  BY <1>2, <1>3, OwnerAdded
<1>5. /\ call' \in [Calls -> Call] /\ \A d \in Calls \ {c} : call'[d] = call[d]
      /\ call'[c] = IF Here(g) /\ Here(o) THEN k ELSE Idle
  <2>1. call[c] = [at |-> "own", offer |-> f, todo |-> call[c].todo]
    BY <1>1, CallKinds DEF IInv
  <2>2. [call[c] EXCEPT !.at = "enroll"] = k /\ k \in Call
    BY <1>1, <2>1 DEF Call
  <2>3. QED
    BY <2>2, IdleFits DEF TakeOwnership, GoOn, Return, IInv
<1>6. ASSUME NEW d \in Calls
      PROVE  Fits(call[d])'
  <2>1. CASE d = c /\ Here(g) /\ Here(o)
    BY <1>1, <1>3, <1>5, <2>1 DEF Fits, RosterKinds, OfferKinds
  <2>2. CASE d = c /\ ~(Here(g) /\ Here(o))
    BY <1>5, <2>2 DEF Fits, Idle, RosterKinds, OfferKinds
  <2>3. CASE d # c
    BY <1>4, <1>5, <2>3, OthersFit DEF LeavesCalls
  <2>4. QED
    BY <2>1, <2>2, <2>3
<1>7. AcceptedIsCarriedOut'
  <2> SUFFICES ASSUME NEW e \in Offers, Exists(e)', offers'[e].status = "accepted",
                      offers'[e].organization \notin owners'[offers'[e].gathering], e \notin undone'
               PROVE  CarryingOut(e)'
    BY DEF AcceptedIsCarriedOut
  <2>1. Exists(e)
    BY <1>3 DEF Exists
  <2>2. e # f
    <3> SUFFICES ASSUME e = f
                 PROVE  FALSE
      OBVIOUS
    <3>1. Here(g) /\ Here(o)
      BY <1>1, <2>1 DEF OffersAreOfThings
    <3>2. o \in owners'[g]
      BY <1>1, <1>2, <1>3, <3>1, OwnerPut
    <3>3. QED
      BY <1>3, <3>2
  <2>3. CarryingOut(e)
    BY <1>4 DEF LeavesPromises, IInv, AcceptedIsCarriedOut
  <2>4. PICK d \in Calls : call[d].at \in {"accept", "own"} /\ call[d].offer = e
    BY <2>3 DEF CarryingOut
  <2>5. call'[d] = call[d]
    BY <1>5, <2>2, <2>4
  <2>6. QED
    BY <2>4, <2>5 DEF CarryingOut
<1>8. QED
  BY <1>4, <1>5, <1>6, <1>7 DEF IInv

LEMMA EnrollKeeps ==
    ASSUME IInv, NEW c \in Calls, Enroll(c)
    PROVE  IInv'
<1> DEFINE f == call[c].offer
           o == offers[f].organization
           k == [at |-> "enroll", offer |-> f, todo |-> call[c].todo]
<1>1. /\ TableInv /\ TablesTyped /\ call[c].at = "member" /\ f \in Offers /\ offers[f] # NoOffer
      /\ call[c].todo \subseteq Users /\ call[c].whom \in Users /\ Fits(call[c])
  BY CallKinds DEF Enroll, IInv, TableInv, OfferKinds, Fits
<1>2. o \in Organizations
  BY <1>1 DEF TablesTyped, OfferRow
<1>3. CASE ~Here(o)
  <2>1. UNCHANGED <<tables, faults, history>> /\ Return(c)
    BY <1>3 DEF Enroll, tables, history
  <2>2. QED
    BY <1>1, <2>1, ReturnKeeps
<1>4. CASE Here(o)
  <2>1. PutRole(c, o, call[c].whom, "member") /\ UNCHANGED <<status, owners, offers, faults, orphaned, undone>>
    BY <1>4 DEF Enroll
  <2>2. /\ TableInv' /\ raced \subseteq raced'
        /\ \A d \in Calls \ {c}, p \in Organizations : Relying(d, p) /\ p \notin raced' =>
             OwnersOf(p)' = OwnersOf(p)
    BY <1>1, <1>2, <1>4, <2>1, RolePut DEF Fits, Spared
  <2>3. /\ k \in Call /\ call' \in [Calls -> Call]
        /\ \A d \in Calls : call'[d] = IF d = c THEN k ELSE call[d]
    BY <1>1, <1>4 DEF Call, Enroll, GoOn, IInv
  <2>4. LeavesCalls
    BY <1>1, <2>1, <2>2, <2>3 DEF LeavesCalls, Here
  <2>5. ASSUME NEW d \in Calls
        PROVE  Fits(call[d])'
    <3>1. CASE d = c
      BY <1>1, <2>1, <2>3, <3>1 DEF Fits, RosterKinds, OfferKinds
    <3>2. CASE d # c
      BY <2>3, <2>4, <3>2, OthersFit DEF LeavesCalls
    <3>3. QED
      BY <3>1, <3>2
  <2>6. AcceptedIsCarriedOut'
    <3> SUFFICES ASSUME NEW e \in Offers, Exists(e)', offers'[e].status = "accepted",
                        offers'[e].organization \notin owners'[offers'[e].gathering], e \notin undone'
                 PROVE  CarryingOut(e)'
      BY DEF AcceptedIsCarriedOut
    <3>1. CarryingOut(e)
      BY <2>1 DEF IInv, AcceptedIsCarriedOut, Exists
    <3>2. PICK d \in Calls : call[d].at \in {"accept", "own"} /\ call[d].offer = e
      BY <3>1 DEF CarryingOut
    <3>3. call'[d] = call[d]
      BY <1>1, <2>3, <3>2
    <3>4. QED
      BY <3>2, <3>3 DEF CarryingOut
  <2>7. QED
    BY <2>2, <2>3, <2>5, <2>6 DEF IInv
<1>5. QED
  BY <1>3, <1>4

LEMMA BreakOffKeeps ==
    ASSUME IInv, NEW c \in Calls, BreakOff(c)
    PROVE  IInv'
<1>1. /\ UNCHANGED <<status, roster, owners, offers, raced, orphaned>>
      /\ faults' \in 0..MaxFaults /\ undone \subseteq undone' /\ undone' \subseteq Offers
  BY FaultsAssumption DEF BreakOff, tables, IInv, TableInv, TablesTyped
<1>2. call' \in [Calls -> Call] /\ \A d \in Calls : call'[d] = IF d = c THEN Idle ELSE call[d]
  BY IdleFits DEF BreakOff, Return, GoOn, IInv
<1>3. TableInv'
  BY <1>1 DEF IInv, TableInv, TablesTyped, OffersAreOfThings, OrganizationKeepsAnOwner,
     GatheringKeepsAnOwner, OwnersOf, Here, Exists
<1>4. ASSUME NEW d \in Calls
      PROVE  Fits(call[d])'
  <2>1. CASE d = c
    BY <1>2, <2>1 DEF Fits, Idle, RosterKinds, OfferKinds
  <2>2. CASE d # c
    <3>1. LeavesCalls
      BY <1>1 DEF LeavesCalls, OwnersOf, Here
    <3>2. QED
      BY <1>2, <2>2, <3>1, OthersFit DEF LeavesCalls
  <2>3. QED
    BY <2>1, <2>2
<1>5. AcceptedIsCarriedOut'
  <2> SUFFICES ASSUME NEW e \in Offers, Exists(e)', offers'[e].status = "accepted",
                      offers'[e].organization \notin owners'[offers'[e].gathering], e \notin undone'
               PROVE  CarryingOut(e)'
    BY DEF AcceptedIsCarriedOut
  <2>1. CarryingOut(e)
    BY <1>1 DEF IInv, AcceptedIsCarriedOut, Exists
  <2>2. PICK d \in Calls : call[d].at \in {"accept", "own"} /\ call[d].offer = e
    BY <2>1 DEF CarryingOut
  <2>3. d # c
    BY <2>2 DEF BreakOff
  <2>4. QED
    BY <1>2, <2>2, <2>3 DEF CarryingOut
<1>6. QED
  BY <1>2, <1>3, <1>4, <1>5 DEF IInv

----------------------------------------------------------------------------
(* Every step *)

LEMMA InvNext ==
    ASSUME IInv, Next
    PROVE  IInv'
<1>1. ASSUME NEW c \in Calls, RosterCall(c)
      PROVE  IInv'
  BY <1>1, RosterMoves, WriteRosterKeeps DEF RosterCall
<1>2. ASSUME NEW c \in Calls, OwnerCall(c)
      PROVE  IInv'
  BY <1>2, OwnerMoves, CreateUnderKeeps, AddOwnerKeeps, RemoveOwnerKeeps, RemoveGatheringKeeps
     DEF OwnerCall
<1>3. ASSUME NEW c \in Calls, OfferCall(c)
      PROVE  IInv'
  BY <1>3, OfferMoves, InsertOfferKeeps, ResolveGatheringOfferKeeps, TakeOwnershipKeeps, EnrollKeeps
     DEF OfferCall
<1>4. QED
  BY <1>1, <1>2, <1>3, CreateOrganizationKeeps, DeleteOrganizationKeeps, CreateGatheringKeeps,
     AdoptGatheringKeeps, BreakOffKeeps DEF Next

LEMMA InvStep == IInv /\ [Next]_vars => IInv'
<1> SUFFICES ASSUME IInv, [Next]_vars
             PROVE  IInv'
  OBVIOUS
<1>1. CASE UNCHANGED vars
  <2>1. /\ UNCHANGED <<status, roster, owners, offers, call, faults, raced, orphaned, undone>>
        /\ LeavesCalls /\ LeavesPromises
    BY <1>1 DEF vars, LeavesCalls, LeavesPromises, Exists, OwnersOf, Here
  <2>2. TableInv'
    BY <2>1 DEF IInv, TableInv, TablesTyped, OffersAreOfThings, OrganizationKeepsAnOwner,
       GatheringKeepsAnOwner, OwnersOf, Here, Exists
  <2>3. QED
    BY <2>1, <2>2, StepKeeps
<1>2. QED
  BY <1>1, InvNext

LEMMA InvAlways == Spec => []IInv
  BY InvInit, InvStep, PTL DEF Spec

\* The rows and the calls are of the schema's types in every state, what is
\* not there owns and is owned by nobody, and what answers an offer has one.
THEOREM CommunitiesTypeOK == Spec => []TypeOK
  BY InvAlways, InvIsTyped, PTL

\* An organization that is there has an owner, whatever calls are at work,
\* unless its owners changed between what one of them read and what it wrote.
THEOREM CommunitiesKeepOwners == Spec => []OrganizationKeepsAnOwner
<1>1. IInv => OrganizationKeepsAnOwner
  BY DEF IInv, TableInv
<1>2. QED
  BY <1>1, InvAlways, PTL

\* A gathering that is there has somebody who can edit it: an owner of its own,
\* or an owner of an organization that owns it.
THEOREM CommunitiesAreManaged == Spec => []GatheringCanBeManaged
<1>1. ASSUME IInv
      PROVE  GatheringCanBeManaged
  <2> SUFFICES ASSUME NEW g \in Gatherings, Here(g), g \notin raced \cup orphaned
               PROVE  \/ \E u \in Users : Owns(u, g)
                      \/ \E o \in owners[g] \cap Organizations : o \in raced
    BY DEF GatheringCanBeManaged
  <2>1. PICK w \in owners[g] : w \in Owners
    BY <1>1 DEF IInv, TableInv, TablesTyped, GatheringKeepsAnOwner
  <2>2. CASE w \in Users
    BY <2>1, <2>2 DEF Owns
  <2>3. CASE w \in Organizations
    <3>1. Here(w)
      BY <1>1, <2>1, <2>3 DEF IInv, TableInv, TablesTyped
    <3>2. OwnersOf(w) # {} \/ w \in raced
      BY <1>1, <2>3, <3>1 DEF IInv, TableInv, OrganizationKeepsAnOwner
    <3>3. OwnersOf(w) \subseteq Users
      BY DEF OwnersOf
    <3>4. QED
      BY <2>1, <2>3, <3>2, <3>3 DEF Owns
  <2>4. QED
    BY <2>1, <2>2, <2>3 DEF Owners
<1>2. QED
  BY <1>1, InvAlways, PTL

\* The organization of an accepted offer owns the gathering, or a call is
\* making it so, or one broke off or an owner took it back.
THEOREM CommunitiesCarryOut == Spec => []AcceptedIsCarriedOut
<1>1. IInv => AcceptedIsCarriedOut
  BY DEF IInv
<1>2. QED
  BY <1>1, InvAlways, PTL

----------------------------------------------------------------------------
(* What a step may not do *)

\* No offer is written but one that is free or pending, or with what it is about.
LEMMA OffersWritten ==
    ASSUME IInv, [Next]_vars
    PROVE  \/ UNCHANGED offers
           \/ \E x : Cascade(x)
           \/ \E f \in Offers : \E r : offers[f] = NoOffer /\ offers' = [offers EXCEPT ![f] = r]
           \/ \E f \in Offers : \E s : Answerable(f) /\ offers' = [offers EXCEPT ![f].status = s]
<1>1. CASE UNCHANGED vars
  BY <1>1 DEF vars
<1>2. ASSUME NEW c \in Calls, RosterCall(c)
      PROVE  UNCHANGED offers
  BY <1>2 DEF RosterCall, ChangeRoster, ReadRole, CountOwners, WriteRoster, tables
<1>3. ASSUME NEW c \in Calls, OwnerCall(c)
      PROVE  UNCHANGED offers \/ \E x : Cascade(x)
  BY <1>3 DEF OwnerCall, CreateFor, CreateUnder, AddGatheringOwner, RemoveGatheringOwner,
     DeleteGathering, ResolveOwner, AddOwner, CountGatheringOwners, RemoveOwner, RemoveGathering, tables
<1>4. ASSUME NEW c \in Calls, OfferCall(c)
      PROVE  \/ UNCHANGED offers
             \/ \E f \in Offers : \E r : offers[f] = NoOffer /\ offers' = [offers EXCEPT ![f] = r]
             \/ \E f \in Offers : \E s : Answerable(f) /\ offers' = [offers EXCEPT ![f].status = s]
  <2>1. CASE InsertOffer(c)
    BY <2>1 DEF InsertOffer
  <2>2. CASE ResolveGatheringOffer(c)
    <3>1. call[c].offer \in Offers
      BY <2>2, CallKinds DEF ResolveGatheringOffer, IInv, OfferKinds
    <3>2. QED
      BY <2>2, <3>1 DEF ResolveGatheringOffer
  <2>3. CASE ~InsertOffer(c) /\ ~ResolveGatheringOffer(c)
    BY <1>4, <2>3 DEF OfferCall, OfferGathering, ReadGathering, LookUpOffer, RespondToGatheringOffer,
       WithdrawGatheringOffer, ReadOwners, TakeOwnership, ReadMember, Enroll, AllEnrolled, tables
  <2>4. QED
    BY <2>1, <2>2, <2>3
<1>5. QED
  BY <1>1, <1>2, <1>3, <1>4 DEF Next, CreateOrganization, DeleteOrganization, CreateGathering,
     AdoptGathering, BreakOff, tables

\* An offer that was accepted, declined or withdrawn stays so, however many
\* calls race to answer it.
THEOREM CommunitiesAnswerOnce == Spec => AnsweredOnce
<1>1. ASSUME IInv, [Next]_vars, NEW f \in Offers, Exists(f), offers[f].status # "pending"
      PROVE  offers'[f].status \in {offers[f].status, "deleted"}
  <2>1. TablesTyped
    BY <1>1 DEF IInv, TableInv
  <2>2. CASE UNCHANGED offers
    BY <2>2
  <2>3. ASSUME NEW x, Cascade(x)
        PROVE  offers'[f].status \in {offers[f].status, "deleted"}
    BY <1>1, <2>1, <2>3, CascadeDeletes DEF Exists
  <2>4. ASSUME NEW e \in Offers, NEW r, offers[e] = NoOffer, offers' = [offers EXCEPT ![e] = r]
        PROVE  offers'[f].status = offers[f].status
    BY <1>1, <2>1, <2>4 DEF Exists, TablesTyped
  <2>5. ASSUME NEW e \in Offers, NEW s, Answerable(e), offers' = [offers EXCEPT ![e].status = s]
        PROVE  offers'[f].status = offers[f].status
    BY <1>1, <2>1, <2>5 DEF Answerable, TablesTyped
  <2>6. QED
    BY <1>1, <2>2, <2>3, <2>4, <2>5, OffersWritten
<1>2. IInv /\ [Next]_vars =>
        [\A f \in Offers : Exists(f) /\ offers[f].status # "pending" =>
            offers'[f].status \in {offers[f].status, "deleted"}]_vars
  BY <1>1
<1>3. QED
  BY <1>2, InvInit, InvStep, PTL DEF Spec, AnsweredOnce

\* Accepting an offer enrolls the owners of the gathering as members, and
\* takes the role of an owner of the organization from none of them.
THEOREM CommunitiesOwnersStay == Spec => OwnersStayUnlessNamed
<1>1. ASSUME IInv, [Next]_vars, NEW o \in Organizations, NEW u \in Users,
             u \in OwnersOf(o), u \notin OwnersOf(o)', Here(o)', o \notin raced
      PROVE  \E c \in Calls : /\ call[c].at = "write" /\ call[c].organization = o
                              /\ call[c].whom = u /\ call[c].role # "owner"
  <2>1. TablesTyped /\ roster' # roster
    BY <1>1 DEF IInv, TableInv, OwnersOf
  <2>2. ASSUME NEW c \in Calls, NEW p \in Organizations, NEW w \in Users,
               NEW role \in {"owner", "member", "none"}, PutRole(c, p, w, role)
        PROVE  p = o /\ w = u /\ role # "owner"
    <3>1. \/ p # o /\ OwnersOf(o)' = OwnersOf(o)
          \/ p = o /\ OwnersOf(o)' = IF role = "owner" THEN OwnersOf(o) \cup {w} ELSE OwnersOf(o) \ {w}
      BY <2>1, <2>2, RowPut DEF PutRole
    <3>2. QED
      BY <1>1, <3>1
  <2>3. ASSUME NEW c \in Calls, RosterCall(c)
        PROVE  /\ call[c].at = "write" /\ call[c].organization = o
               /\ call[c].whom = u /\ call[c].role # "owner"
    <3>1. WriteRoster(c)
      BY <2>1, <2>3 DEF RosterCall, ChangeRoster, ReadRole, CountOwners, tables
    <3>2. call[c].at = "write" /\ call[c] \in RosterCalls
      BY <1>1, <3>1, CallKinds DEF WriteRoster, IInv, RosterKinds
    <3>3. PutRole(c, call[c].organization, call[c].whom, call[c].role)
      BY <2>1, <3>1 DEF WriteRoster
    <3>4. QED
      BY <2>2, <3>2, <3>3 DEF RosterCalls
  <2>4. ASSUME NEW c \in Calls, OwnerCall(c)
        PROVE  FALSE
    BY <2>1, <2>4 DEF OwnerCall, CreateFor, CreateUnder, AddGatheringOwner, RemoveGatheringOwner,
       DeleteGathering, ResolveOwner, AddOwner, CountGatheringOwners, RemoveOwner, RemoveGathering, tables
  <2>5. ASSUME NEW c \in Calls, OfferCall(c)
        PROVE  FALSE
    <3>1. Enroll(c)
      BY <2>1, <2>5 DEF OfferCall, OfferGathering, ReadGathering, LookUpOffer, InsertOffer,
         RespondToGatheringOffer, WithdrawGatheringOffer, ResolveGatheringOffer, ReadOwners,
         TakeOwnership, ReadMember, AllEnrolled, tables
    <3> DEFINE p == offers[call[c].offer].organization
    <3>2. /\ call[c].at = "member" /\ call[c].offer \in Offers /\ offers[call[c].offer] # NoOffer
          /\ call[c].whom \in Users /\ Fits(call[c])
      BY <1>1, <3>1, CallKinds DEF Enroll, IInv, OfferKinds, Fits
    <3>3. p \in Organizations
      BY <2>1, <3>2 DEF TablesTyped, OfferRow
    <3>4. Here(p) /\ PutRole(c, p, call[c].whom, "member")
      BY <2>1, <3>1 DEF Enroll
    <3>5. p = o /\ call[c].whom = u
      BY <2>2, <3>2, <3>3, <3>4
    <3>6. QED
      BY <1>1, <3>2, <3>4, <3>5 DEF Fits, Sure
  <2>6. ASSUME NEW w \in Users, NEW p \in Organizations, CreateOrganization(w, p)
        PROVE  FALSE
    <3>1. \/ p # o /\ OwnersOf(o)' = OwnersOf(o)
          \/ p = o /\ OwnersOf(o)' = OwnersOf(o) \cup {w}
      BY <2>1, <2>6, RowPut DEF CreateOrganization
    <3>2. QED
      BY <1>1, <3>1
  <2>7. ASSUME NEW p \in Organizations, DeleteOrganization(p)
        PROVE  FALSE
    <3>1. p = o
      BY <1>1, <2>1, <2>7 DEF DeleteOrganization, OwnersOf, TablesTyped
    <3>2. status'[o] = "deleted"
      BY <2>1, <2>7, <3>1 DEF DeleteOrganization, TablesTyped, Things
    <3>3. QED
      BY <1>1, <3>2 DEF Here
  <2>8. QED
    BY <1>1, <2>1, <2>3, <2>4, <2>5, <2>6, <2>7 DEF Next, CreateGathering, AdoptGathering, BreakOff,
       tables, vars
<1>2. IInv /\ [Next]_vars =>
        [\A o \in Organizations, u \in Users :
            u \in OwnersOf(o) /\ u \notin OwnersOf(o)' /\ Here(o)' =>
              \/ o \in raced
              \/ \E c \in Calls : /\ call[c].at = "write" /\ call[c].organization = o
                                  /\ call[c].whom = u /\ call[c].role # "owner"]_vars
  BY <1>1
<1>3. QED
  BY <1>2, InvInit, InvStep, PTL DEF Spec, OwnersStayUnlessNamed
=============================================================================
