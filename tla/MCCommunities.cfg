\* Two users and two calls on one organization and one gathering.
SPECIFICATION Spec
CONSTANTS
    Users = {u1, u2}
    Admins = {u1}
    Organizations = {o1}
    Gatherings = {g1}
    Offers = {f1}
    NoOffer = NoOffer
    Calls = {c1, c2}
    MaxFaults = 1
SYMMETRY Symmetry
INVARIANTS TypeOK OrganizationKeepsAnOwner GatheringCanBeManaged AcceptedIsCarriedOut
PROPERTIES AnsweredOnce OwnersStayUnlessNamed
CHECK_DEADLOCK FALSE
