---------------------------- MODULE Communities ----------------------------
(***************************************************************************)
(* Organizations and their rosters, gatherings and their owners, and the   *)
(* offers that put the one under the other (api/internal/csilservices/     *)
(* organizations.go, gatherings.go, offers.go and the store below them).   *)
(* A call checks, counts and writes in separate statements, outside any    *)
(* transaction, so that other calls run between them. A call is here what  *)
(* it has left to do: the statement it has come to and what it carries.    *)
(***************************************************************************)
EXTENDS Naturals, FiniteSets

CONSTANTS
    Users,
    Admins,         \* the users whose session says administrator
    Organizations,
    Gatherings,
    Offers,         \* identifiers of rows of gathering_offers
    NoOffer,
    Calls,          \* calls that may be at work at once
    MaxFaults       \* bound of the model: calls that break off

ASSUME PeopleAssumption == Admins \subseteq Users /\ IsFiniteSet(Users)
ASSUME IdentifiersAssumption ==
    /\ Users \cap Organizations = {} /\ Users \cap Gatherings = {}
    /\ Organizations \cap Gatherings = {} /\ IsFiniteSet(Organizations)
ASSUME FaultsAssumption == MaxFaults \in Nat

Things == Organizations \cup Gatherings
Owners == Users \cup Organizations
OfferRow == [gathering : Gatherings, organization : Organizations,
             status : {"pending", "accepted", "declined", "withdrawn", "deleted"}]
ASSUME NoOfferAssumption == NoOffer \notin OfferRow

VARIABLES
    status,     \* of an organization or a gathering: "unused", "here" or "deleted"
    roster,     \* organization_members: "owner", "member" or "none"
    owners,     \* gathering_owners
    offers,     \* gathering_offers
    call,       \* what each call has left to do
    faults,
    \* History, read by properties only
    raced,      \* whose owners changed between another call's check and its write
    orphaned,   \* gatherings whose last owner was an organization that was deleted
    undone      \* accepted offers broken off, or taken back by RemoveGatheringOwner

vars == <<status, roster, owners, offers, call, faults, raced, orphaned, undone>>

Here(x) == status[x] = "here"
OwnersOf(o) == {u \in Users : roster[o][u] = "owner"}

\* GatheringAccessFor: directly, or through an organization that owns it.
Owns(u, g) == u \in owners[g] \/ \E o \in owners[g] \cap Organizations : u \in OwnersOf(o)

Offer(g, o, s) == [gathering |-> g, organization |-> o, status |-> s]
IsPending(g, o) == \E f \in Offers : offers[f] = Offer(g, o, "pending")

Idle == [at |-> "idle"]
Begin(c, k) == call[c] = Idle /\ call' = [call EXCEPT ![c] = k]
GoOn(c, k) == call' = [call EXCEPT ![c] = k]
Return(c) == GoOn(c, Idle)

Init ==
    /\ status = [x \in Things |-> "unused"]
    /\ roster = [o \in Organizations |-> [u \in Users |-> "none"]]
    /\ owners = [g \in Gatherings |-> {}]
    /\ offers = [f \in Offers |-> NoOffer]
    /\ call = [c \in Calls |-> Idle]
    /\ faults = 0
    /\ raced = {} /\ orphaned = {} /\ undone = {}

tables == <<status, roster, owners, offers>>
history == <<raced, orphaned, undone>>

----------------------------------------------------------------------------
(* Organizations *)

\* The row and its first owner, in one transaction.
CreateOrganization(u, o) ==
    /\ status[o] = "unused"
    /\ status' = [status EXCEPT ![o] = "here"]
    /\ roster' = [roster EXCEPT ![o][u] = "owner"]
    /\ UNCHANGED <<owners, offers, call, faults, history>>

\* The rows that go with a row by ON DELETE CASCADE.
Cascade(x) ==
    offers' = [f \in Offers |->
        IF offers[f] # NoOffer /\ x \in {offers[f].gathering, offers[f].organization}
        THEN [offers[f] EXCEPT !.status = "deleted"] ELSE offers[f]]

\* A call that has found that a gathering can spare the owner it takes off.
Removing(g) == \E c \in Calls : call[c].at = "removeOwner" /\ call[c].gathering = g

\* An administrator's, whatever the organization owns.
DeleteOrganization(o) ==
    /\ Admins # {} /\ Here(o)
    /\ status' = [status EXCEPT ![o] = "deleted"]
    /\ roster' = [roster EXCEPT ![o] = [u \in Users |-> "none"]]
    /\ owners' = [g \in Gatherings |-> owners[g] \ {o}]
    /\ Cascade(o)
    /\ raced' = raced \cup {g \in Gatherings : o \in owners[g] /\ Removing(g)}
    /\ orphaned' = orphaned \cup {g \in Gatherings : owners[g] = {o}}
    /\ UNCHANGED <<call, faults, undone>>

\* SetOrganizationMember by an owner, and RemoveOrganizationMember ("none") by
\* an owner or by the member: the caller is checked, once.
ChangeRoster(c, by, o, u, role) ==
    /\ status[o] # "unused"
    /\ by \in OwnersOf(o) \/ (role = "none" /\ u = by)
    /\ Begin(c, [at |-> IF role = "owner" THEN "write" ELSE "role",
                 organization |-> o, whom |-> u, role |-> role])
    /\ UNCHANGED <<tables, faults, history>>

\* refuseLastOwnerChange reads the role, then counts the owners.
ReadRole(c) ==
    /\ call[c].at = "role"
    /\ LET k == call[c] IN
       GoOn(c, [k EXCEPT !.at = IF k.whom \in OwnersOf(k.organization)
                                THEN "count" ELSE "write"])
    /\ UNCHANGED <<tables, faults, history>>

\* Mutant of CountOwners: the members are counted, not the owners among them.
CountOwners_Members(c) ==
    /\ call[c].at = "count"
    /\ IF Here(call[c].organization)
          /\ Cardinality({u \in Users : roster[call[c].organization][u] # "none"}) > 1
       THEN GoOn(c, [call[c] EXCEPT !.at = "write"]) ELSE Return(c)
    /\ UNCHANGED <<tables, faults, history>>

CountOwners(c) ==
    /\ call[c].at = "count"
    /\ IF Here(call[c].organization) /\ Cardinality(OwnersOf(call[c].organization)) > 1
       THEN GoOn(c, [call[c] EXCEPT !.at = "write"]) ELSE Return(c)
    /\ UNCHANGED <<tables, faults, history>>

\* A call that has looked at the roster of o and is to write what takes an
\* owner off it, or would if that user had become one.
Relying(c, o) ==
    \/ call[c].at \in {"count", "write"} /\ call[c].organization = o /\ call[c].role # "owner"
    \/ call[c].at = "member" /\ offers[call[c].offer].organization = o

\* One row of organization_members; a change of owners is seen by nobody who relies on them.
PutRole(c, o, u, role) ==
    /\ roster' = [roster EXCEPT ![o][u] = role]
    /\ raced' = IF (u \in OwnersOf(o)) # (role = "owner") /\ \E d \in Calls \ {c} : Relying(d, o)
                THEN raced \cup {o} ELSE raced

\* The upsert or the deletion; an organization that is gone has no roster.
WriteRoster(c) ==
    /\ call[c].at = "write"
    /\ IF Here(call[c].organization)
       THEN PutRole(c, call[c].organization, call[c].whom, call[c].role)
       ELSE UNCHANGED <<roster, raced>>
    /\ Return(c)
    /\ UNCHANGED <<status, owners, offers, faults, orphaned, undone>>

----------------------------------------------------------------------------
(* Gatherings and their owners *)

\* Started for a user, the caller or another: the gathering and its owner in
\* one transaction.
CreateGathering(g, w) ==
    /\ status[g] = "unused"
    /\ status' = [status EXCEPT ![g] = "here"]
    /\ owners' = [owners EXCEPT ![g] = {w}]
    /\ UNCHANGED <<roster, offers, call, faults, history>>

\* resolveOwner: an organization is named by an owner of it, or an administrator.
MayName(by, o) == Here(o) /\ (by \in OwnersOf(o) \/ by \in Admins)

\* Started for an organization, which is checked first.
CreateFor(c, by, o) ==
    /\ MayName(by, o)
    /\ Begin(c, [at |-> "create", owner |-> o])
    /\ UNCHANGED <<tables, faults, history>>

CreateUnder(c, g) ==
    /\ call[c].at = "create" /\ status[g] = "unused"
    /\ IF Here(call[c].owner)
       THEN /\ status' = [status EXCEPT ![g] = "here"]
            /\ owners' = [owners EXCEPT ![g] = {call[c].owner}]
       ELSE UNCHANGED <<status, owners>>
    /\ Return(c)
    /\ UNCHANGED <<roster, offers, faults, history>>

\* An owner names another user, or an organization, which is resolved next.
AddGatheringOwner(c, by, g, w) ==
    /\ Owns(by, g)
    /\ Begin(c, IF w \in Users THEN [at |-> "addOwner", gathering |-> g, owner |-> w]
                ELSE [at |-> "resolve", gathering |-> g, owner |-> w, by |-> by])
    /\ UNCHANGED <<tables, faults, history>>

ResolveOwner(c) ==
    /\ call[c].at = "resolve"
    /\ IF MayName(call[c].by, call[c].owner)
       THEN GoOn(c, [at |-> "addOwner", gathering |-> call[c].gathering, owner |-> call[c].owner])
       ELSE Return(c)
    /\ UNCHANGED <<tables, faults, history>>

\* Mutant of PutOwner: no foreign key on the gathering.
PutOwner_NoKey(g, w) ==
    owners' = IF w \in Users \/ Here(w) THEN [owners EXCEPT ![g] = @ \cup {w}] ELSE owners

\* The statement that adds an owner: foreign keys on both sides, and an owner
\* twice is an owner once.
PutOwner(g, w) ==
    owners' = IF Here(g) /\ (w \in Users \/ Here(w))
              THEN [owners EXCEPT ![g] = @ \cup {w}] ELSE owners

AddOwner(c) ==
    /\ call[c].at = "addOwner"
    /\ PutOwner(call[c].gathering, call[c].owner)
    /\ Return(c)
    /\ UNCHANGED <<status, roster, offers, faults, history>>

\* AdoptGathering: an administrator's, asking nobody.
AdoptGathering(g, o) ==
    /\ Admins # {} /\ Here(g) /\ Here(o)
    /\ PutOwner(g, o)
    /\ UNCHANGED <<status, roster, offers, call, faults, history>>

RemoveGatheringOwner(c, by, g, w) ==
    /\ Owns(by, g)
    /\ Begin(c, [at |-> "countOwners", gathering |-> g, owner |-> w])
    /\ UNCHANGED <<tables, faults, history>>

\* Mutant of CountGatheringOwners: off by one.
CountGatheringOwners_OffByOne(c) ==
    /\ call[c].at = "countOwners"
    /\ IF Cardinality(owners[call[c].gathering]) >= 1
       THEN GoOn(c, [call[c] EXCEPT !.at = "removeOwner"]) ELSE Return(c)
    /\ UNCHANGED <<tables, faults, history>>

CountGatheringOwners(c) ==
    /\ call[c].at = "countOwners"
    /\ IF Cardinality(owners[call[c].gathering]) > 1
       THEN GoOn(c, [call[c] EXCEPT !.at = "removeOwner"]) ELSE Return(c)
    /\ UNCHANGED <<tables, faults, history>>

\* A call that is making the organization of an accepted offer an owner.
CarryingOut(f) == \E c \in Calls : call[c].at \in {"accept", "own"} /\ call[c].offer = f

RemoveOwner(c) ==
    /\ call[c].at = "removeOwner"
    /\ LET g == call[c].gathering
           w == call[c].owner IN
       /\ owners' = [owners EXCEPT ![g] = @ \ {w}]
       /\ raced' = IF w \in owners[g] /\ \E d \in Calls \ {c} :
                        call[d].at = "removeOwner" /\ call[d].gathering = g
                   THEN raced \cup {g} ELSE raced
       /\ undone' = undone \cup {f \in Offers : /\ offers[f] = Offer(g, w, "accepted")
                                                /\ w \in Organizations /\ ~CarryingOut(f)}
    /\ Return(c)
    /\ UNCHANGED <<status, roster, offers, faults, orphaned>>

DeleteGathering(c, by, g) ==
    /\ Here(g) /\ (Owns(by, g) \/ by \in Admins)
    /\ Begin(c, [at |-> "delete", gathering |-> g])
    /\ UNCHANGED <<tables, faults, history>>

RemoveGathering(c) ==
    /\ call[c].at = "delete"
    /\ LET g == call[c].gathering IN
       /\ status' = [status EXCEPT ![g] = "deleted"]
       /\ owners' = [owners EXCEPT ![g] = {}]
       /\ Cascade(g)
    /\ Return(c)
    /\ UNCHANGED <<roster, faults, history>>

----------------------------------------------------------------------------
(* Offers *)

\* An owner of a gathering offers it to an organization that is there.
OfferGathering(c, by, g, o) ==
    /\ Owns(by, g) /\ Here(o)
    /\ Begin(c, [at |-> "owners", gathering |-> g, organization |-> o])
    /\ UNCHANGED <<tables, faults, history>>

\* Not to one that owns it already.
ReadGathering(c) ==
    /\ call[c].at = "owners"
    /\ IF Here(call[c].gathering) /\ call[c].organization \notin owners[call[c].gathering]
       THEN GoOn(c, [call[c] EXCEPT !.at = "lookup"]) ELSE Return(c)
    /\ UNCHANGED <<tables, faults, history>>

\* CreateGatheringOffer looks for an offer that is still open, and inserts one
\* if there is none; a unique index refuses a second.
LookUpOffer(c) ==
    /\ call[c].at = "lookup"
    /\ IF IsPending(call[c].gathering, call[c].organization)
       THEN Return(c) ELSE GoOn(c, [call[c] EXCEPT !.at = "insert"])
    /\ UNCHANGED <<tables, faults, history>>

Insertable(g, o) == Here(g) /\ Here(o) /\ ~IsPending(g, o)

InsertOffer(c) ==
    /\ call[c].at = "insert"
    /\ LET g == call[c].gathering
           o == call[c].organization
           free == {f \in Offers : offers[f] = NoOffer} IN
       IF Insertable(g, o) /\ free # {}
       THEN \E f \in free : offers' = [offers EXCEPT ![f] = Offer(g, o, "pending")]
       ELSE UNCHANGED offers
    /\ Return(c)
    /\ UNCHANGED <<status, roster, owners, faults, history>>

Exists(f) == offers[f] # NoOffer /\ offers[f].status # "deleted"

\* An owner of the organization accepts or declines: whether the offer is
\* still open is for the statement that answers it.
RespondToGatheringOffer(c, by, f, answer) ==
    /\ Exists(f) /\ by \in OwnersOf(offers[f].organization)
    /\ Begin(c, [at |-> "answer", offer |-> f, status |-> answer])
    /\ UNCHANGED <<tables, faults, history>>

WithdrawGatheringOffer(c, by, f) ==
    /\ Exists(f) /\ Owns(by, offers[f].gathering)
    /\ Begin(c, [at |-> "answer", offer |-> f, status |-> "withdrawn"])
    /\ UNCHANGED <<tables, faults, history>>

\* Mutant of Answerable: the UPDATE does not ask for a pending row.
Answerable_Anything(f) == Exists(f)

Answerable(f) == offers[f].status = "pending"

\* A compare-and-set of the status.
ResolveGatheringOffer(c) ==
    /\ call[c].at = "answer"
    /\ LET f == call[c].offer IN
       IF Answerable(f)
       THEN /\ offers' = [offers EXCEPT ![f].status = call[c].status]
            /\ IF call[c].status = "accepted"
               THEN GoOn(c, [at |-> "accept", offer |-> f]) ELSE Return(c)
       ELSE Return(c) /\ UNCHANGED offers
    /\ UNCHANGED <<status, roster, owners, faults, history>>

\* Mutant of ReadOwners: with nobody to enroll there is nothing to do.
ReadOwners_OnlyIfAny(c) ==
    /\ call[c].at = "accept"
    /\ LET g == offers[call[c].offer].gathering IN
       IF Here(g) /\ owners[g] \cap Users # {}
       THEN GoOn(c, [at |-> "own", offer |-> call[c].offer, todo |-> owners[g] \cap Users])
       ELSE Return(c)
    /\ UNCHANGED <<tables, faults, history>>

\* acceptOffer: the gathering's individual owners are read first.
ReadOwners(c) ==
    /\ call[c].at = "accept"
    /\ LET g == offers[call[c].offer].gathering IN
       IF Here(g) THEN GoOn(c, [at |-> "own", offer |-> call[c].offer, todo |-> owners[g] \cap Users])
       ELSE Return(c)
    /\ UNCHANGED <<tables, faults, history>>

TakeOwnership(c) ==
    /\ call[c].at = "own"
    /\ LET row == offers[call[c].offer] IN
       /\ PutOwner(row.gathering, row.organization)
       /\ IF Here(row.gathering) /\ Here(row.organization)
          THEN GoOn(c, [call[c] EXCEPT !.at = "enroll"]) ELSE Return(c)
    /\ UNCHANGED <<status, roster, offers, faults, history>>

\* Mutant of ReadMember: who is on the roster already is written over.
ReadMember_Anyone(c, u) ==
    /\ call[c].at = "enroll" /\ u \in call[c].todo
    /\ GoOn(c, [at |-> "member", offer |-> call[c].offer, todo |-> call[c].todo \ {u}, whom |-> u])
    /\ UNCHANGED <<tables, faults, history>>

\* The owners it read are put on the roster one at a time, as members. One who
\* is on it already is left alone.
ReadMember(c, u) ==
    /\ call[c].at = "enroll" /\ u \in call[c].todo
    /\ LET f == call[c].offer
           rest == call[c].todo \ {u} IN
       IF roster[offers[f].organization][u] = "none"
       THEN GoOn(c, [at |-> "member", offer |-> f, todo |-> rest, whom |-> u])
       ELSE GoOn(c, [call[c] EXCEPT !.todo = rest])
    /\ UNCHANGED <<tables, faults, history>>

Enroll(c) ==
    /\ call[c].at = "member"
    /\ LET o == offers[call[c].offer].organization IN
       IF Here(o)
       THEN /\ PutRole(c, o, call[c].whom, "member")
            /\ GoOn(c, [at |-> "enroll", offer |-> call[c].offer, todo |-> call[c].todo])
       ELSE Return(c) /\ UNCHANGED <<roster, raced>>
    /\ UNCHANGED <<status, owners, offers, faults, orphaned, undone>>

AllEnrolled(c) ==
    /\ call[c].at = "enroll" /\ call[c].todo = {}
    /\ Return(c)
    /\ UNCHANGED <<tables, faults, history>>

\* A statement fails, or the request is cancelled.
BreakOff(c) ==
    /\ call[c] # Idle /\ faults < MaxFaults
    /\ faults' = faults + 1
    /\ Return(c)
    /\ undone' = undone \cup {f \in Offers : call[c].at \in {"accept", "own"} /\ call[c].offer = f}
    /\ UNCHANGED <<tables, raced, orphaned>>

RosterCall(c) ==
    \/ \E by, u \in Users, o \in Organizations, role \in {"owner", "member", "none"} :
        ChangeRoster(c, by, o, u, role)
    \/ ReadRole(c) \/ CountOwners(c) \/ WriteRoster(c)

OwnerCall(c) ==
    \/ \E by \in Users, o \in Organizations : CreateFor(c, by, o)
    \/ \E g \in Gatherings : CreateUnder(c, g)
    \/ \E by \in Users, g \in Gatherings, w \in Owners :
        AddGatheringOwner(c, by, g, w) \/ RemoveGatheringOwner(c, by, g, w)
    \/ \E by \in Users, g \in Gatherings : DeleteGathering(c, by, g)
    \/ ResolveOwner(c) \/ AddOwner(c) \/ CountGatheringOwners(c) \/ RemoveOwner(c)
    \/ RemoveGathering(c)

OfferCall(c) ==
    \/ \E by \in Users, g \in Gatherings, o \in Organizations : OfferGathering(c, by, g, o)
    \/ ReadGathering(c) \/ LookUpOffer(c) \/ InsertOffer(c)
    \/ \E by \in Users, f \in Offers, answer \in {"accepted", "declined"} :
        RespondToGatheringOffer(c, by, f, answer)
    \/ \E by \in Users, f \in Offers : WithdrawGatheringOffer(c, by, f)
    \/ ResolveGatheringOffer(c) \/ ReadOwners(c) \/ TakeOwnership(c)
    \/ \E u \in Users : ReadMember(c, u)
    \/ Enroll(c) \/ AllEnrolled(c)

Next ==
    \/ \E u \in Users, o \in Organizations : CreateOrganization(u, o)
    \/ \E o \in Organizations : DeleteOrganization(o)
    \/ \E g \in Gatherings, w \in Users : CreateGathering(g, w)
    \/ \E g \in Gatherings, o \in Organizations : AdoptGathering(g, o)
    \/ \E c \in Calls : RosterCall(c) \/ OwnerCall(c) \/ OfferCall(c) \/ BreakOff(c)

Spec == Init /\ [][Next]_vars

----------------------------------------------------------------------------
(* Properties *)

OfferStatuses == {"accepted", "declined", "withdrawn"}
Call ==
    {Idle}
    \cup [at : {"role", "count", "write"}, organization : Organizations, whom : Users,
          role : {"owner", "member", "none"}]
    \cup [at : {"create"}, owner : Organizations]
    \cup [at : {"resolve"}, gathering : Gatherings, owner : Organizations, by : Users]
    \cup [at : {"addOwner", "countOwners", "removeOwner"}, gathering : Gatherings, owner : Owners]
    \cup [at : {"delete"}, gathering : Gatherings]
    \cup [at : {"owners", "lookup", "insert"}, gathering : Gatherings, organization : Organizations]
    \cup [at : {"answer"}, offer : Offers, status : OfferStatuses]
    \cup [at : {"accept"}, offer : Offers]
    \cup [at : {"own", "enroll"}, offer : Offers, todo : SUBSET Users]
    \cup [at : {"member"}, offer : Offers, todo : SUBSET Users, whom : Users]

\* The rows are rows of the schema, what is not there owns and is owned by
\* nobody, and a call that answers an offer has an offer.
TypeOK ==
    /\ status \in [Things -> {"unused", "here", "deleted"}]
    /\ roster \in [Organizations -> [Users -> {"owner", "member", "none"}]]
    /\ owners \in [Gatherings -> SUBSET Owners]
    /\ offers \in [Offers -> OfferRow \cup {NoOffer}]
    /\ call \in [Calls -> Call]
    /\ faults \in 0..MaxFaults
    /\ raced \subseteq Things /\ orphaned \subseteq Gatherings /\ undone \subseteq Offers
    /\ \A o \in Organizations : ~Here(o) => OwnersOf(o) = {} /\ \A g \in Gatherings : o \notin owners[g]
    /\ \A g \in Gatherings : ~Here(g) => owners[g] = {}
    /\ \A c \in Calls : "offer" \in DOMAIN call[c] => offers[call[c].offer] # NoOffer

\* An organization is left with no owner only when its owners changed between
\* what another call read of them and what it wrote (refuseLastOwnerChange, at
\* organizations.go:310, is to stop the roster reaching zero owners).
OrganizationKeepsAnOwner ==
    \A o \in Organizations : Here(o) => OwnersOf(o) # {} \/ o \in raced

\* Somebody can edit every gathering, directly or through an organization,
\* unless two removals met, or the last owner was an organization that was
\* deleted (RemoveGatheringOwner, gatherings.go:381).
GatheringCanBeManaged ==
    \A g \in Gatherings : Here(g) =>
        \/ \E u \in Users : Owns(u, g)
        \/ g \in raced \cup orphaned
        \/ \E o \in owners[g] \cap Organizations : o \in raced

\* An offer is answered once: what was accepted, declined or withdrawn stays
\* so, whatever calls race to answer it (offers.go:173).
AnsweredOnce ==
    [][\A f \in Offers : Exists(f) /\ offers[f].status # "pending" =>
            offers'[f].status \in {offers[f].status, "deleted"}]_vars

\* Where an offer was accepted the organization owns the gathering, unless a
\* call is about to make it so, broke off, or its ownership was taken off again
\* (acceptOffer, offers.go:205).
AcceptedIsCarriedOut ==
    \A f \in Offers : Exists(f) /\ offers[f].status = "accepted" =>
        \/ offers[f].organization \in owners[offers[f].gathering]
        \/ CarryingOut(f) \/ f \in undone

\* Nobody stops being an owner of an organization that stays by an offer being
\* accepted, but only by a call that names them, unless the roster changed
\* between a read and a write (offers.go:218).
OwnersStayUnlessNamed ==
    [][\A o \in Organizations, u \in Users :
          u \in OwnersOf(o) /\ u \notin OwnersOf(o)' /\ Here(o)' =>
            \/ o \in raced
            \/ \E c \in Calls : /\ call[c].at = "write" /\ call[c].organization = o
                                /\ call[c].whom = u /\ call[c].role # "owner"]_vars
=============================================================================
