--------------------------- MODULE Administration ---------------------------
(***************************************************************************)
(* What administrators and owners decide of an instance, and who reads it: *)
(* the administrators themselves and the instance's settings               *)
(* (api/internal/csilservices/admin.go), what an organization and a        *)
(* gathering say about publishing (organizations.go, gatherings.go), and   *)
(* the publishers that ask the three levels, one statement after the       *)
(* other, whether the gathering's events are published (publish.go).       *)
(***************************************************************************)
EXTENDS Naturals, FiniteSets

CONSTANTS
    Users, Admins,      \* those who are administrators at first
    Orgs,               \* the organizations that own the gathering
    Publishers, Calls,  \* what may be at work at once
    MaxChanges,         \* bounds of the model: rows written,
    MaxFaults           \* and reads that fail

ASSUME AdministratorsAssumption == Admins \subseteq Users /\ Admins # {}
ASSUME BoundsAssumption == MaxChanges \in Nat /\ MaxFaults \in Nat

Says == {"unset", "in", "out"}
\* What is published by default, and whether an organization and a gathering may
\* say otherwise.
Settings == [default : {"in", "out"}, orgs : BOOLEAN, gatherings : BOOLEAN]
DefaultInstanceSettings == [default |-> "in", orgs |-> TRUE, gatherings |-> TRUE]
Fields == DOMAIN DefaultInstanceSettings
Values(f) == IF f = "default" THEN {"in", "out"} ELSE BOOLEAN

VARIABLES
    admins,
    settings,           \* the table instance_settings
    orgSays, gatheringSays,
    call,               \* what each call has left to do
    asking,             \* what each publisher has read
    changes, faults,
    \* History, read by properties only
    overtaken,          \* calls that another one's write has overtaken
    unguarded,          \* whether the last administrators may have revoked each other
    steady,             \* publishers that no change of a level has met
    firm                \* by publisher, the organizations whose "out" counted throughout

levels == <<settings, orgSays, gatheringSays>>
history == <<overtaken, unguarded, steady, firm>>
vars == <<admins, levels, call, asking, changes, faults, history>>

Idle == [at |-> "idle"]
Begin(c, k) == call[c] = Idle /\ call' = [call EXCEPT ![c] = k]
GoOn(c, k) == call' = [call EXCEPT ![c] = k]
Return(c) == GoOn(c, Idle)
Change == changes < MaxChanges /\ changes' = changes + 1
\* Calls at the same point as c, which its write overtakes.
Overtake(c) == overtaken' = (overtaken \cup {d \in Calls : call[d].at = call[c].at}) \ {c}

Init ==
    /\ admins = Admins
    /\ settings = DefaultInstanceSettings
    /\ orgSays = [o \in Orgs |-> "unset"] /\ gatheringSays = "unset"
    /\ call = [c \in Calls |-> Idle]
    /\ asking = [b \in Publishers |-> Idle]
    /\ changes = 0 /\ faults = 0
    /\ overtaken = {} /\ unguarded = FALSE
    /\ steady = {} /\ firm = [b \in Publishers |-> {}]

----------------------------------------------------------------------------
(* The administrators *)

\* SetAdmin, by an administrator. To revoke, it first counts those that are left.
GrantAdmin(u) ==
    /\ admins # {} /\ Change
    /\ admins' = admins \cup {u}
    /\ UNCHANGED <<levels, call, asking, faults, history>>

\* Mutant of CountAdmins: the one who asks is not counted.
CountAdmins_OffByOne(c, u) ==
    /\ admins # {}
    /\ Begin(c, [at |-> "revoke", user |-> u])
    /\ UNCHANGED <<admins, levels, asking, changes, faults, history>>

CountAdmins(c, u) ==
    /\ Cardinality(admins) > 1
    /\ Begin(c, [at |-> "revoke", user |-> u])
    /\ UNCHANGED <<admins, levels, asking, changes, faults, history>>

RevokeAdmin(c) ==
    /\ call[c].at = "revoke" /\ Change
    /\ admins' = admins \ {call[c].user}
    /\ unguarded' = (unguarded \/ c \in overtaken)
    /\ Overtake(c)
    /\ Return(c)
    /\ UNCHANGED <<levels, asking, faults, steady, firm>>

----------------------------------------------------------------------------
(* The settings, and what the levels say *)

\* The organizations whose "out" counts: they may speak, and the gathering is silent.
Counting == {o \in Orgs : orgSays[o] = "out" /\ settings.orgs /\ gatheringSays = "unset"}
Disturb ==
    /\ steady' = {}
    /\ firm' = [b \in Publishers |-> firm[b] \cap Counting']

\* Mutant of ReadInstanceSettings: the instance may say nothing, as the others may.
ReadInstanceSettings_Unset(c, f, v) ==
    /\ admins # {}
    /\ Begin(c, [at |-> "put", field |-> f,
                 new |-> [settings EXCEPT ![f] = IF v = "out" THEN "unset" ELSE v]])
    /\ overtaken' = overtaken \ {c}
    /\ UNCHANGED <<admins, levels, asking, changes, faults, unguarded, steady, firm>>

\* Mutant of ReadInstanceSettings: what the request does not name is put back to the default.
ReadInstanceSettings_Defaults(c, f, v) ==
    /\ admins # {}
    /\ Begin(c, [at |-> "put", field |-> f, new |-> [DefaultInstanceSettings EXCEPT ![f] = v]])
    /\ overtaken' = overtaken \ {c}
    /\ UNCHANGED <<admins, levels, asking, changes, faults, unguarded, steady, firm>>

\* UpdateInstanceSettings reads all of them, changes what the request names and
\* writes all of them.
ReadInstanceSettings(c, f, v) ==
    /\ admins # {}
    /\ Begin(c, [at |-> "put", field |-> f, new |-> [settings EXCEPT ![f] = v]])
    /\ overtaken' = overtaken \ {c}
    /\ UNCHANGED <<admins, levels, asking, changes, faults, unguarded, steady, firm>>

PutInstanceSettings(c) ==
    /\ call[c].at = "put" /\ Change
    /\ settings' = call[c].new
    /\ Overtake(c)
    /\ Return(c)
    /\ UNCHANGED <<admins, orgSays, gatheringSays, asking, faults, unguarded>>
    /\ Disturb

\* UpdateOrganization and UpdateGathering: a level that may not override may only
\* unset, and an edit of anything else writes back what was read of this.
AskOrganization(c, o, say) ==
    /\ settings.orgs \/ say \in {"unset", orgSays[o]}
    /\ Begin(c, [at |-> "org", org |-> o, say |-> say])
    /\ UNCHANGED <<admins, levels, asking, changes, faults, history>>

UpdateOrganization(c) ==
    /\ call[c].at = "org" /\ Change
    /\ orgSays' = [orgSays EXCEPT ![call[c].org] = call[c].say]
    /\ Return(c)
    /\ UNCHANGED <<admins, settings, gatheringSays, asking, faults, overtaken, unguarded>>
    /\ Disturb

AskGathering(c, say) ==
    /\ settings.gatherings \/ say \in {"unset", gatheringSays}
    /\ Begin(c, [at |-> "gathering", say |-> say])
    /\ UNCHANGED <<admins, levels, asking, changes, faults, history>>

UpdateGathering(c) ==
    /\ call[c].at = "gathering" /\ Change
    /\ gatheringSays' = call[c].say
    /\ Return(c)
    /\ UNCHANGED <<admins, settings, orgSays, asking, faults, overtaken, unguarded>>
    /\ Disturb

----------------------------------------------------------------------------
(* Whether to publish *)

\* Mutant of ResolvePublish: an "in" beats an "out".
ResolvePublish_InWins(instance, said, gathering) ==
    IF instance.gatherings /\ gathering # "unset" THEN gathering = "in"
    ELSE IF "in" \in said THEN TRUE
    ELSE IF "out" \in said THEN FALSE
    ELSE instance.default = "in"

\* What the gathering says if it may, or else its organizations if they may, an
\* "out" of any of them before an "in", or else the instance.
ResolvePublish(instance, said, gathering) ==
    IF instance.gatherings /\ gathering # "unset" THEN gathering = "in"
    ELSE IF "out" \in said THEN FALSE
    ELSE IF "in" \in said THEN TRUE
    ELSE instance.default = "in"

\* publish has read the gathering, its owners and what it says.
ReadGathering(b) ==
    /\ asking[b] = Idle
    /\ asking' = [asking EXCEPT ![b] = [at |-> "settings", gathering |-> gatheringSays]]
    /\ steady' = steady \cup {b}
    /\ firm' = [firm EXCEPT ![b] = Counting]
    /\ UNCHANGED <<admins, levels, call, changes, faults, overtaken, unguarded>>

\* Organizations are read only if they may override.
ReadSettings(b) ==
    /\ asking[b].at = "settings"
    /\ asking' = [asking EXCEPT ![b] =
            [at |-> "orgs", gathering |-> asking[b].gathering, instance |-> settings,
             said |-> {}, unread |-> IF settings.orgs THEN Orgs ELSE {}]]
    /\ UNCHANGED <<admins, levels, call, changes, faults, history>>

ReadOrganization(b, o) ==
    /\ asking[b].at = "orgs" /\ o \in asking[b].unread
    /\ asking' = [asking EXCEPT ![b].unread = @ \ {o}, ![b].said = @ \cup {orgSays[o]}]
    /\ UNCHANGED <<admins, levels, call, changes, faults, history>>

\* Mutant of FailToRead: an organization that cannot be read is passed over.
FailToRead_PassOver(b) ==
    /\ asking[b].at = "orgs" /\ faults < MaxFaults /\ faults' = faults + 1
    /\ \E o \in asking[b].unread : asking' = [asking EXCEPT ![b].unread = @ \ {o}]
    /\ steady' = steady \ {b}
    /\ UNCHANGED <<admins, levels, call, changes, overtaken, unguarded, firm>>

\* A level that cannot be read fails the whole decision, and nothing is published.
FailToRead(b) ==
    /\ asking[b] # Idle /\ faults < MaxFaults /\ faults' = faults + 1
    /\ asking' = [asking EXCEPT ![b] = Idle]
    /\ steady' = steady \ {b}
    /\ UNCHANGED <<admins, levels, call, changes, overtaken, unguarded, firm>>

Outcome(b) == ResolvePublish(asking[b].instance, asking[b].said, asking[b].gathering)

\* The decision is taken, and the publisher goes on with it.
Decide(b) ==
    /\ asking[b].at = "orgs" /\ asking[b].unread = {}
    /\ asking' = [asking EXCEPT ![b] = [at |-> "decided", publishing |-> Outcome(b)]]
    /\ UNCHANGED <<admins, levels, call, changes, faults, history>>

GoAhead(b) ==
    /\ asking[b].at = "decided"
    /\ asking' = [asking EXCEPT ![b] = Idle]
    /\ steady' = steady \ {b} /\ firm' = [firm EXCEPT ![b] = {}]
    /\ UNCHANGED <<admins, levels, call, changes, faults, overtaken, unguarded>>

Call(c) ==
    \/ \E u \in Users : CountAdmins(c, u)
    \/ \E f \in Fields : \E v \in Values(f) : ReadInstanceSettings(c, f, v)
    \/ \E say \in Says : AskGathering(c, say) \/ \E o \in Orgs : AskOrganization(c, o, say)
    \/ RevokeAdmin(c) \/ PutInstanceSettings(c) \/ UpdateOrganization(c) \/ UpdateGathering(c)

Ask(b) ==
    \/ ReadGathering(b) \/ ReadSettings(b) \/ \E o \in Orgs : ReadOrganization(b, o)
    \/ FailToRead(b) \/ Decide(b) \/ GoAhead(b)

Next ==
    \/ \E u \in Users : GrantAdmin(u)
    \/ \E c \in Calls : Call(c)
    \/ \E b \in Publishers : Ask(b)

Spec == Init /\ [][Next]_vars

----------------------------------------------------------------------------
(* Properties *)

Work ==
    {Idle}
    \cup [at : {"revoke"}, user : Users]
    \cup [at : {"put"}, field : Fields, new : Settings]
    \cup [at : {"org"}, org : Orgs, say : Says]
    \cup [at : {"gathering"}, say : Says]
Question ==
    {Idle}
    \cup [at : {"settings"}, gathering : Says]
    \cup [at : {"orgs"}, gathering : Says, instance : Settings, said : SUBSET Says,
          unread : SUBSET Orgs]
    \cup [at : {"decided"}, publishing : BOOLEAN]

\* The rows are rows of the schema, and the instance's own say is never unset.
TypeOK ==
    /\ admins \subseteq Users
    /\ settings \in Settings /\ orgSays \in [Orgs -> Says] /\ gatheringSays \in Says
    /\ call \in [Calls -> Work] /\ asking \in [Publishers -> Question]
    /\ changes \in 0..MaxChanges /\ faults \in 0..MaxFaults
    /\ overtaken \subseteq Calls /\ unguarded \in BOOLEAN
    /\ steady \subseteq Publishers
    /\ firm \in [Publishers -> SUBSET Orgs]

\* The instance keeps an administrator, unless two revoked each other's at once
\* (admin.go:45, "the last admin cannot be revoked").
AnAdministratorRemains == admins # {} \/ unguarded

\* A setting that a request does not name is left alone, unless another write
\* came between its read and its own (admin.go:132).
UnnamedIsLeftAlone ==
    [][\A c \in Calls \ overtaken : call[c].at = "put" /\ call'[c] = Idle =>
            \A f \in Fields \ {call[c].field} : settings'[f] = settings[f]]_vars

\* The rule: the most specific level that may speak and does.
MayPublish ==
    CASE settings.gatherings /\ gatheringSays # "unset" -> gatheringSays = "in"
      [] ~(settings.gatherings /\ gatheringSays # "unset")
         /\ settings.orgs /\ (\E o \in Orgs : orgSays[o] # "unset")
            -> \A o \in Orgs : orgSays[o] # "out"
      [] OTHER -> settings.default = "in"

\* What a publisher decides is the rule (publish.go:13), if no level changed
\* while it read them one after the other, or since.
DecidedAsTheRule ==
    \A b \in steady : asking[b].at = "decided" => asking[b].publishing = MayPublish

\* Whatever else changes while it reads, and whatever cannot be read, a publisher
\* does not overrule an organization that said "out" throughout, and was allowed
\* to, while the gathering said nothing (publish.go:104).
OutIsNotOverruled ==
    \A b \in Publishers :
        asking[b].at = "decided" /\ firm[b] # {} => ~asking[b].publishing
=============================================================================
