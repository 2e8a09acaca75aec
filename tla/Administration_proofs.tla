------------------------ MODULE Administration_proofs ------------------------
(***************************************************************************)
(* What the instance's administrators, its settings and its publishers     *)
(* promise, for every number of users, organizations, calls and readers.   *)
(***************************************************************************)
EXTENDS Administration, FiniteSetTheorems, TLAPS

LEMMA FieldNames == Fields = {"default", "orgs", "gatherings"}
  BY DEF Fields, DefaultInstanceSettings

\* A setting that is given a value of its own is still one of the settings.
LEMMA SettingChanged ==
    ASSUME NEW s \in Settings, NEW f \in Fields, NEW v \in Values(f)
    PROVE  /\ [s EXCEPT ![f] = v] \in Settings
           /\ \A g \in Fields \ {f} : [s EXCEPT ![f] = v][g] = s[g]
<1> DEFINE t == [s EXCEPT ![f] = v]
<1>1. CASE f = "default"
  BY <1>1, FieldNames DEF Settings, Values
<1>2. CASE f = "orgs"
  BY <1>2, FieldNames DEF Settings, Values
<1>3. CASE f = "gatherings"
  BY <1>3, FieldNames DEF Settings, Values
<1>4. QED
  BY <1>1, <1>2, <1>3, FieldNames

\* What a call or a publisher at each point has in hand.
LEMMA Shapes ==
    ASSUME TypeOK
    PROVE  /\ \A c \in Calls :
                /\ call[c].at = "revoke" => call[c].user \in Users
                /\ call[c].at = "put" => call[c].field \in Fields /\ call[c].new \in Settings
                /\ call[c].at = "org" => call[c].org \in Orgs /\ call[c].say \in Says
                /\ call[c].at = "gathering" => call[c].say \in Says
           /\ \A b \in Publishers :
                /\ asking[b].at = "settings" => asking[b].gathering \in Says
                /\ asking[b].at = "orgs" => asking[b] \in
                       [at : {"orgs"}, gathering : Says, instance : Settings,
                        said : SUBSET Says, unread : SUBSET Orgs]
  BY DEF TypeOK, Work, Question, Idle

----------------------------------------------------------------------------
(* Types *)

LEMMA TypeInit == Init => TypeOK
<1> SUFFICES ASSUME Init
             PROVE  TypeOK
  OBVIOUS
<1>1. DefaultInstanceSettings \in Settings /\ "unset" \in Says
  BY DEF DefaultInstanceSettings, Settings, Says
<1>2. Idle \in Work /\ Idle \in Question
  BY DEF Work, Question
<1>3. changes \in 0..MaxChanges /\ faults \in 0..MaxFaults
  BY BoundsAssumption DEF Init
<1>4. call \in [Calls -> Work] /\ asking \in [Publishers -> Question]
  BY <1>2 DEF Init
<1>5. overtaken \subseteq Calls /\ steady \subseteq Publishers /\ unguarded \in BOOLEAN
  BY DEF Init
<1>6. orgSays \in [Orgs -> Says] /\ gatheringSays \in Says /\ settings \in Settings
  BY <1>1 DEF Init
<1>7. firm \in [Publishers -> SUBSET Orgs] /\ admins \subseteq Users
  BY AdministratorsAssumption DEF Init
<1>8. QED
  BY <1>3, <1>4, <1>5, <1>6, <1>7 DEF TypeOK

\* A call begins or goes on, a level may change, and no publisher moves.
LEMMA TypeCall ==
    ASSUME TypeOK, NEW c \in Calls, NEW k \in Work, GoOn(c, k),
           admins' \subseteq Users, settings' \in Settings, orgSays' \in [Orgs -> Says],
           gatheringSays' \in Says, asking' = asking, faults' = faults,
           changes' = changes \/ Change, overtaken' \subseteq Calls, unguarded' \in BOOLEAN,
           UNCHANGED <<steady, firm>> \/ Disturb
    PROVE  TypeOK'
<1>1. changes' \in 0..MaxChanges
  BY BoundsAssumption DEF TypeOK, Change
<1>2. steady' \subseteq Publishers /\ firm' \in [Publishers -> SUBSET Orgs]
  BY DEF TypeOK, Disturb
<1>3. QED
  BY <1>1, <1>2 DEF TypeOK, GoOn

\* A publisher goes on, and nothing it reads changes.
LEMMA TypeAsk ==
    ASSUME TypeOK, NEW b \in Publishers, NEW q \in Question, asking' = [asking EXCEPT ![b] = q],
           UNCHANGED <<admins, levels, call, changes, overtaken, unguarded>>,
           faults' \in 0..MaxFaults, steady' \subseteq Publishers,
           firm' \in [Publishers -> SUBSET Orgs]
    PROVE  TypeOK'
  BY DEF TypeOK, levels

LEMMA TypeStep == TypeOK /\ [Next]_vars => TypeOK'
<1> SUFFICES ASSUME TypeOK, [Next]_vars
             PROVE  TypeOK'
  OBVIOUS
<1>0. Idle \in Work /\ Idle \in Question
  BY DEF Work, Question
<1>1. ASSUME NEW u \in Users, GrantAdmin(u)
      PROVE  TypeOK'
  BY <1>1, BoundsAssumption DEF GrantAdmin, Change, levels, history, TypeOK
<1>2. ASSUME NEW c \in Calls, Call(c)
      PROVE  TypeOK'
  <2>1. ASSUME NEW u \in Users, CountAdmins(c, u)
        PROVE  TypeOK'
    <3>1. [at |-> "revoke", user |-> u] \in Work
      BY DEF Work
    <3>2. QED
      BY <2>1, <3>1, TypeCall DEF CountAdmins, Begin, GoOn, levels, history, TypeOK
  <2>2. ASSUME NEW f \in Fields, NEW v \in Values(f), ReadInstanceSettings(c, f, v)
        PROVE  TypeOK'
    <3>1. [at |-> "put", field |-> f, new |-> [settings EXCEPT ![f] = v]] \in Work
      BY SettingChanged DEF Work, TypeOK
    <3>2. QED
      BY <2>2, <3>1, TypeCall DEF ReadInstanceSettings, Begin, GoOn, levels, TypeOK
  <2>3. ASSUME NEW say \in Says, AskGathering(c, say)
        PROVE  TypeOK'
    <3>1. [at |-> "gathering", say |-> say] \in Work
      BY DEF Work
    <3>2. QED
      BY <2>3, <3>1, TypeCall DEF AskGathering, Begin, GoOn, levels, history, TypeOK
  <2>4. ASSUME NEW say \in Says, NEW o \in Orgs, AskOrganization(c, o, say)
        PROVE  TypeOK'
    <3>1. [at |-> "org", org |-> o, say |-> say] \in Work
      BY DEF Work
    <3>2. QED
      BY <2>4, <3>1, TypeCall DEF AskOrganization, Begin, GoOn, levels, history, TypeOK
  <2>5. CASE RevokeAdmin(c)
    <3>1. GoOn(c, Idle) /\ admins' \subseteq Users /\ unguarded' \in BOOLEAN
      BY <2>5 DEF RevokeAdmin, Return, TypeOK
    <3>2. QED
      BY <2>5, <3>1, <1>0, TypeCall DEF RevokeAdmin, Overtake, levels, TypeOK
  <2>6. CASE PutInstanceSettings(c)
    <3>1. GoOn(c, Idle) /\ settings' \in Settings
      BY <2>6, Shapes DEF PutInstanceSettings, Return
    <3>2. QED
      BY <2>6, <3>1, <1>0, TypeCall DEF PutInstanceSettings, Overtake, TypeOK
  <2>7. CASE UpdateOrganization(c)
    <3>1. GoOn(c, Idle) /\ orgSays' \in [Orgs -> Says]
      BY <2>7, Shapes DEF UpdateOrganization, Return, TypeOK
    <3>2. QED
      BY <2>7, <3>1, <1>0, TypeCall DEF UpdateOrganization, TypeOK
  <2>8. CASE UpdateGathering(c)
    <3>1. GoOn(c, Idle) /\ gatheringSays' \in Says
      BY <2>8, Shapes DEF UpdateGathering, Return
    <3>2. QED
      BY <2>8, <3>1, <1>0, TypeCall DEF UpdateGathering, TypeOK
  <2>9. QED
    BY <1>2, <2>1, <2>2, <2>3, <2>4, <2>5, <2>6, <2>7, <2>8 DEF Call
<1>3. ASSUME NEW b \in Publishers, Ask(b)
      PROVE  TypeOK'
  <2>1. CASE ReadGathering(b)
    <3>1. [at |-> "settings", gathering |-> gatheringSays] \in Question
      BY DEF Question, TypeOK
    <3>2. Counting \subseteq Orgs
      BY DEF Counting
    <3>3. firm' \in [Publishers -> SUBSET Orgs]
      BY <2>1, <3>2 DEF ReadGathering, TypeOK
    <3>4. QED
      BY <2>1, <3>1, <3>3, TypeAsk DEF ReadGathering, TypeOK
  <2>2. CASE ReadSettings(b)
    <3> DEFINE q == [at |-> "orgs", gathering |-> asking[b].gathering, instance |-> settings,
                     said |-> {}, unread |-> IF settings.orgs THEN Orgs ELSE {}]
    <3>1. q \in Question
      BY <2>2, Shapes DEF ReadSettings, Question, TypeOK
    <3>2. QED
      BY <2>2, <3>1, TypeAsk DEF ReadSettings, history, TypeOK
  <2>3. ASSUME NEW o \in Orgs, ReadOrganization(b, o)
        PROVE  TypeOK'
    <3> DEFINE q == [asking[b] EXCEPT !.unread = @ \ {o}, !.said = @ \cup {orgSays[o]}]
    <3>1. q \in Question
      BY <2>3, Shapes DEF ReadOrganization, Question, TypeOK
    <3>2. asking' = [asking EXCEPT ![b] = q]
      BY <2>3 DEF ReadOrganization, TypeOK
    <3>3. QED
      BY <2>3, <3>1, <3>2, TypeAsk DEF ReadOrganization, history, TypeOK
  <2>4. CASE FailToRead(b)
    <3>1. faults' \in 0..MaxFaults
      BY <2>4, BoundsAssumption DEF FailToRead, TypeOK
    <3>2. QED
      BY <2>4, <3>1, <1>0, TypeAsk DEF FailToRead, TypeOK
  <2>5. CASE Decide(b)
    <3>1. Outcome(b) \in BOOLEAN
      <4> DEFINE q == asking[b]
      <4>1. ResolvePublish(q.instance, q.said, q.gathering) \in BOOLEAN
        BY DEF ResolvePublish
      <4>2. QED
        BY <4>1 DEF Outcome
    <3>2. [at |-> "decided", publishing |-> Outcome(b)] \in Question
      BY <3>1 DEF Question
    <3>3. QED
      BY <2>5, <3>2, TypeAsk DEF Decide, history, TypeOK
  <2>6. CASE GoAhead(b)
    BY <2>6, <1>0, TypeAsk DEF GoAhead, TypeOK
  <2>7. QED
    BY <1>3, <2>1, <2>2, <2>3, <2>4, <2>5, <2>6 DEF Ask
<1>4. CASE UNCHANGED vars
  BY <1>4 DEF vars, levels, history, TypeOK
<1>5. QED
  BY <1>1, <1>2, <1>3, <1>4 DEF Next

\* The rows are rows of the schema, and the instance's own say is never unset.
THEOREM AdministrationTypeOK == Spec => []TypeOK
  BY TypeInit, TypeStep, PTL DEF Spec

----------------------------------------------------------------------------
(* Administrators *)

\* A call that is about to revoke leaves somebody, unless another has revoked
\* since it counted.
AdminInv ==
    /\ TypeOK
    /\ AnAdministratorRemains
    /\ \A c \in Calls : call[c].at = "revoke" /\ c \notin overtaken /\ ~unguarded =>
            \E v \in admins : v # call[c].user

LEMMA AdminInit == Init => AdminInv
  BY TypeInit, AdministratorsAssumption DEF Init, AdminInv, AnAdministratorRemains, Idle

\* Two administrators cannot both be the one that is revoked.
LEMMA AnotherOne == ASSUME NEW u, Cardinality(admins) > 1
                    PROVE  \E v \in admins : v # u
<1>1. CASE admins = {}
  BY <1>1, FS_EmptySet
<1>2. CASE admins = {u}
  <2>1. Cardinality({u}) = 1
    BY FS_Singleton
  <2>2. Cardinality(admins) = 1
    BY <1>2, <2>1
  <2>3. QED
    BY <2>2
<1>3. QED
  BY <1>1, <1>2

\* A step that revokes nobody.
LEMMA AdminKept ==
    ASSUME AdminInv, TypeOK', admins \subseteq admins', unguarded' = unguarded,
           \A c \in Calls : call'[c].at = "revoke" =>
               /\ call'[c] = call[c] /\ (c \in overtaken => c \in overtaken')
               \/ \E v \in admins' : v # call'[c].user
    PROVE  AdminInv'
  BY DEF AdminInv, AnAdministratorRemains

LEMMA AdminStep == AdminInv /\ [Next]_vars => AdminInv'
<1> SUFFICES ASSUME AdminInv, [Next]_vars
             PROVE  AdminInv'
  OBVIOUS
<1>0. TypeOK /\ TypeOK'
  BY TypeStep DEF AdminInv
<1>1. ASSUME NEW u \in Users, GrantAdmin(u)
      PROVE  AdminInv'
  BY <1>0, <1>1, AdminKept DEF GrantAdmin, history
<1>2. ASSUME NEW c \in Calls, Call(c)
      PROVE  AdminInv'
  <2>1. ASSUME NEW u \in Users, CountAdmins(c, u)
        PROVE  AdminInv'
    <3>1. call' = [call EXCEPT ![c] = [at |-> "revoke", user |-> u]]
      BY <2>1 DEF CountAdmins, Begin
    <3>2. \E v \in admins : v # u
      BY <2>1, AnotherOne DEF CountAdmins
    <3>3. UNCHANGED <<admins, overtaken, unguarded>>
      BY <2>1 DEF CountAdmins, history
    <3>4. QED
      BY <1>0, <3>1, <3>2, <3>3, AdminKept DEF TypeOK
  <2>2. ASSUME NEW f \in Fields, NEW v \in Values(f), ReadInstanceSettings(c, f, v)
        PROVE  AdminInv'
    <3> DEFINE k == [at |-> "put", field |-> f, new |-> [settings EXCEPT ![f] = v]]
    <3>1. call' = [call EXCEPT ![c] = k] /\ k.at # "revoke"
      BY <2>2 DEF ReadInstanceSettings, Begin
    <3>2. UNCHANGED <<admins, unguarded>> /\ overtaken' = overtaken \ {c}
      BY <2>2 DEF ReadInstanceSettings
    <3>3. QED
      BY <1>0, <3>1, <3>2, AdminKept DEF TypeOK
  <2>3. ASSUME NEW k, k.at # "revoke", GoOn(c, k), UNCHANGED <<admins, unguarded, overtaken>>
        PROVE  AdminInv'
    BY <1>0, <2>3, AdminKept DEF GoOn, TypeOK
  <2>4. ASSUME NEW say \in Says, AskGathering(c, say)
        PROVE  AdminInv'
    BY <2>3, <2>4 DEF AskGathering, Begin, GoOn, history
  <2>5. ASSUME NEW say \in Says, NEW o \in Orgs, AskOrganization(c, o, say)
        PROVE  AdminInv'
    BY <2>3, <2>5 DEF AskOrganization, Begin, GoOn, history
  <2>6. CASE RevokeAdmin(c)
    <3> DEFINE u == call[c].user
    <3>1. /\ call[c].at = "revoke" /\ call' = [call EXCEPT ![c] = Idle]
          /\ admins' = admins \ {u} /\ unguarded' = (unguarded \/ c \in overtaken)
          /\ overtaken' = (overtaken \cup {d \in Calls : call[d].at = "revoke"}) \ {c}
      BY <2>6 DEF RevokeAdmin, Overtake, Return, GoOn
    <3>2. AnAdministratorRemains'
      BY <3>1 DEF AdminInv, AnAdministratorRemains
    <3>3. ASSUME NEW d \in Calls, call'[d].at = "revoke"
          PROVE  d \in overtaken'
      <4>1. d # c
        BY <1>0, <3>1, <3>3 DEF TypeOK, Idle
      <4>2. call'[d] = call[d]
        BY <1>0, <3>1, <4>1 DEF TypeOK
      <4>3. QED
        BY <3>1, <3>3, <4>1, <4>2
    <3>4. QED
      BY <1>0, <3>2, <3>3 DEF AdminInv
  <2>7. CASE PutInstanceSettings(c)
    <3>1. call[c].at = "put" /\ call' = [call EXCEPT ![c] = Idle] /\ Idle.at # "revoke"
      BY <2>7 DEF PutInstanceSettings, Return, GoOn, Idle
    <3>2. UNCHANGED <<admins, unguarded>> /\ overtaken \ {c} \subseteq overtaken'
      BY <2>7 DEF PutInstanceSettings, Overtake
    <3>3. QED
      BY <1>0, <3>1, <3>2, AdminKept DEF TypeOK
  <2>8. CASE UpdateOrganization(c) \/ UpdateGathering(c)
    BY <2>3, <2>8 DEF UpdateOrganization, UpdateGathering, Return, Idle
  <2>9. QED
    BY <1>2, <2>1, <2>2, <2>4, <2>5, <2>6, <2>7, <2>8 DEF Call
<1>3. ASSUME NEW b \in Publishers, Ask(b)
      PROVE  AdminInv'
  BY <1>0, <1>3, AdminKept
     DEF Ask, ReadGathering, ReadSettings, ReadOrganization, FailToRead, Decide, GoAhead, history
<1>4. CASE UNCHANGED vars
  BY <1>0, <1>4, AdminKept DEF vars, history
<1>5. QED
  BY <1>1, <1>2, <1>3, <1>4 DEF Next

\* The instance keeps an administrator, unless two revoked each other's at once.
THEOREM AdministrationRemains == Spec => []AnAdministratorRemains
<1>1. AdminInv => AnAdministratorRemains
  BY DEF AdminInv
<1>2. QED
  BY <1>1, AdminInit, AdminStep, PTL DEF Spec

----------------------------------------------------------------------------
(* Settings *)

\* What a call is about to write was read of the settings as they are, but for
\* the one setting its request names, or another has written since.
SettingsInv ==
    TypeOK /\ \A c \in Calls \ overtaken : call[c].at = "put" =>
                \A f \in Fields \ {call[c].field} : call[c].new[f] = settings[f]

LEMMA SettingsInit == Init => SettingsInv
  BY TypeInit DEF Init, SettingsInv, Idle

\* A step that writes no settings.
LEMMA SettingsKept ==
    ASSUME SettingsInv, TypeOK', settings' = settings,
           \A c \in Calls : call'[c].at = "put" =>
               /\ call'[c] = call[c] /\ (c \in overtaken => c \in overtaken')
               \/ \A f \in Fields \ {call'[c].field} : call'[c].new[f] = settings[f]
    PROVE  SettingsInv'
  BY DEF SettingsInv

LEMMA SettingsStep == SettingsInv /\ [Next]_vars => SettingsInv'
<1> SUFFICES ASSUME SettingsInv, [Next]_vars
             PROVE  SettingsInv'
  OBVIOUS
<1>0. TypeOK /\ TypeOK'
  BY TypeStep DEF SettingsInv
<1>1. ASSUME NEW u \in Users, GrantAdmin(u)
      PROVE  SettingsInv'
  BY <1>0, <1>1, SettingsKept DEF GrantAdmin, levels, history
<1>2. ASSUME NEW c \in Calls, Call(c)
      PROVE  SettingsInv'
  <2>1. ASSUME NEW k, k.at # "put", GoOn(c, k), settings' = settings,
               overtaken \ {c} \subseteq overtaken'
        PROVE  SettingsInv'
    BY <1>0, <2>1, SettingsKept DEF GoOn, TypeOK
  <2>2. ASSUME NEW u \in Users, CountAdmins(c, u)
        PROVE  SettingsInv'
    <3> DEFINE k == [at |-> "revoke", user |-> u]
    <3>1. GoOn(c, k) /\ k.at # "put" /\ UNCHANGED <<settings, overtaken>>
      BY <2>2 DEF CountAdmins, Begin, GoOn, levels, history
    <3>2. QED
      BY <2>1, <3>1
  <2>3. ASSUME NEW f \in Fields, NEW v \in Values(f), ReadInstanceSettings(c, f, v)
        PROVE  SettingsInv'
    <3> DEFINE k == [at |-> "put", field |-> f, new |-> [settings EXCEPT ![f] = v]]
    <3>1. call' = [call EXCEPT ![c] = k] /\ settings' = settings
      BY <2>3 DEF ReadInstanceSettings, Begin, levels
    <3>2. overtaken' = overtaken \ {c}
      BY <2>3 DEF ReadInstanceSettings
    <3>3. k.field = f /\ \A g \in Fields \ {f} : k.new[g] = settings[g]
      BY <1>0, SettingChanged DEF TypeOK
    <3>4. QED
      BY <1>0, <3>1, <3>2, <3>3, SettingsKept DEF TypeOK
  <2>4. ASSUME NEW say \in Says, AskGathering(c, say)
        PROVE  SettingsInv'
    BY <2>1, <2>4 DEF AskGathering, Begin, GoOn, levels, history
  <2>5. ASSUME NEW say \in Says, NEW o \in Orgs, AskOrganization(c, o, say)
        PROVE  SettingsInv'
    BY <2>1, <2>5 DEF AskOrganization, Begin, GoOn, levels, history
  <2>6. CASE RevokeAdmin(c)
    BY <2>1, <2>6 DEF RevokeAdmin, Overtake, Return, Idle, levels
  <2>7. CASE PutInstanceSettings(c)
    <3>1. /\ call[c].at = "put" /\ call' = [call EXCEPT ![c] = Idle]
          /\ overtaken' = (overtaken \cup {d \in Calls : call[d].at = "put"}) \ {c}
      BY <2>7 DEF PutInstanceSettings, Overtake, Return, GoOn
    <3>2. ASSUME NEW d \in Calls, call'[d].at = "put"
          PROVE  d \in overtaken'
      <4>1. d # c
        BY <1>0, <3>1, <3>2 DEF TypeOK, Idle
      <4>2. call'[d] = call[d]
        BY <1>0, <3>1, <4>1 DEF TypeOK
      <4>3. QED
        BY <3>1, <3>2, <4>1, <4>2
    <3>3. QED
      BY <1>0, <3>2 DEF SettingsInv
  <2>8. CASE UpdateOrganization(c) \/ UpdateGathering(c)
    BY <2>1, <2>8 DEF UpdateOrganization, UpdateGathering, Return, Idle
  <2>9. QED
    BY <1>2, <2>2, <2>3, <2>4, <2>5, <2>6, <2>7, <2>8 DEF Call
<1>3. ASSUME NEW b \in Publishers, Ask(b)
      PROVE  SettingsInv'
  BY <1>0, <1>3, SettingsKept
     DEF Ask, ReadGathering, ReadSettings, ReadOrganization, FailToRead, Decide, GoAhead, history,
         levels
<1>4. CASE UNCHANGED vars
  BY <1>0, <1>4, SettingsKept DEF vars, levels, history
<1>5. QED
  BY <1>1, <1>2, <1>3, <1>4 DEF Next

\* A setting that a request does not name is left alone, unless another write
\* came between its read and its own.
THEOREM AdministrationUnnamed == Spec => UnnamedIsLeftAlone
<1>1. ASSUME SettingsInv, Next, NEW c \in Calls \ overtaken, call[c].at = "put", call'[c] = Idle,
             NEW f \in Fields \ {call[c].field}
      PROVE  settings'[f] = settings[f]
  <2>1. call'[c] # call[c]
    BY <1>1 DEF Idle
  <2>2. \A d \in Calls : \A k : GoOn(d, k) => d = c
    BY <1>1, <2>1 DEF GoOn, SettingsInv, TypeOK
  <2>3. \A d \in Calls : \A k : ~Begin(d, k)
    BY <1>1, <2>2 DEF Begin, GoOn, Idle
  <2>4. \A u \in Users : ~GrantAdmin(u)
    BY <2>1 DEF GrantAdmin
  <2>5. \A b \in Publishers : ~Ask(b)
    BY <2>1 DEF Ask, ReadGathering, ReadSettings, ReadOrganization, FailToRead, Decide, GoAhead
  <2>6. PICK d \in Calls : Call(d)
    BY <1>1, <2>4, <2>5 DEF Next
  <2>7. PutInstanceSettings(c)
    BY <1>1, <2>2, <2>3, <2>6
       DEF Call, CountAdmins, ReadInstanceSettings, AskGathering, AskOrganization, RevokeAdmin,
           UpdateOrganization, UpdateGathering, PutInstanceSettings, Return
  <2>8. QED
    BY <1>1, <2>7 DEF PutInstanceSettings, SettingsInv
<1>2. SettingsInv /\ [Next]_vars =>
        [\A c \in Calls \ overtaken : call[c].at = "put" /\ call'[c] = Idle =>
            \A f \in Fields \ {call[c].field} : settings'[f] = settings[f]]_vars
  BY <1>1
<1>3. QED
  BY <1>2, SettingsInit, SettingsStep, PTL DEF Spec, UnnamedIsLeftAlone

----------------------------------------------------------------------------
(* Decisions *)

\* What a publisher has read is what the levels say, while none of them changes.
AsRead(b) ==
    /\ asking[b].at \in {"settings", "orgs"} => asking[b].gathering = gatheringSays
    /\ asking[b].at = "orgs" =>
        /\ asking[b].instance = settings /\ (settings.orgs \/ asking[b].unread = {})
        /\ asking[b].said =
               IF settings.orgs THEN {orgSays[o] : o \in Orgs \ asking[b].unread} ELSE {}
    /\ asking[b].at = "decided" => asking[b].publishing = MayPublish

\* An "out" that counted throughout has been read, or is still to be.
Firm(b) ==
    /\ firm[b] \subseteq Counting
    /\ firm[b] # {} =>
        /\ asking[b].at \in {"settings", "orgs"} => asking[b].gathering = "unset"
        /\ asking[b].at = "orgs" => \A o \in firm[b] : o \in asking[b].unread \/ "out" \in asking[b].said
        /\ asking[b].at = "decided" => ~asking[b].publishing

ReadingInv ==
    TypeOK /\ (\A b \in steady : AsRead(b)) /\ (\A b \in Publishers : Firm(b))

LEMMA ReadingInit == Init => ReadingInv
  BY TypeInit DEF Init, ReadingInv, Firm, Idle

\* A level changes, and no publisher moves.
LEMMA ReadingDisturbed ==
    ASSUME ReadingInv, TypeOK', Disturb, asking' = asking
    PROVE  ReadingInv'
<1>1. \A b \in Publishers : firm'[b] \subseteq firm[b] /\ firm'[b] \subseteq Counting'
  BY DEF Disturb
<1>2. ASSUME NEW b \in Publishers
      PROVE  Firm(b)'
  <2>1. Firm(b)
    BY DEF ReadingInv
  <2>2. QED
    BY <1>1, <2>1 DEF Firm
<1>3. QED
  BY <1>2 DEF ReadingInv, Disturb

\* One publisher moves, and no level changes.
LEMMA ReadingMoved ==
    ASSUME ReadingInv, TypeOK', UNCHANGED levels, NEW b \in Publishers,
           NEW q, asking' = [asking EXCEPT ![b] = q],
           \A d \in Publishers \ {b} : firm'[d] = firm[d] /\ (d \in steady' => d \in steady),
           b \in steady' => AsRead(b)', Firm(b)'
    PROVE  ReadingInv'
<1>1. ASSUME NEW d \in Publishers, d # b
      PROVE  Firm(d)' /\ (d \in steady' => AsRead(d)')
  <2>1. asking'[d] = asking[d] /\ Firm(d) /\ (d \in steady' => AsRead(d))
    BY <1>1 DEF ReadingInv, TypeOK
  <2>2. Counting' = Counting /\ MayPublish' = MayPublish
    BY DEF levels, Counting, MayPublish, ResolvePublish
  <2>3. Firm(d)'
    BY <1>1, <2>1, <2>2 DEF Firm
  <2>4. d \in steady' => AsRead(d)'
    <3>1. settings' = settings /\ orgSays' = orgSays /\ gatheringSays' = gatheringSays
      BY DEF levels
    <3>2. AsRead(d) => AsRead(d)'
      BY <2>1, <2>2, <3>1 DEF AsRead
    <3>3. QED
      BY <2>1, <3>2
  <2>5. QED
    BY <2>3, <2>4
<1>2. steady' \subseteq Publishers
  BY DEF TypeOK
<1>3. QED
  BY <1>1, <1>2 DEF ReadingInv

\* With everything read as it is, what is resolved is the rule.
LEMMA ResolvedIsTheRule ==
    ASSUME NEW b \in Publishers, TypeOK, AsRead(b), asking[b].at = "orgs", asking[b].unread = {}
    PROVE  Outcome(b) = MayPublish
<1> DEFINE said == IF settings.orgs THEN {orgSays[o] : o \in Orgs} ELSE {}
<1>1. Outcome(b) = ResolvePublish(settings, said, gatheringSays)
  BY DEF AsRead, Outcome
<1>2. CASE settings.gatherings /\ gatheringSays # "unset"
  BY <1>1, <1>2 DEF ResolvePublish, MayPublish
<1>3. CASE ~(settings.gatherings /\ gatheringSays # "unset") /\ ~settings.orgs
  BY <1>1, <1>3 DEF ResolvePublish, MayPublish
<1>4. CASE ~(settings.gatherings /\ gatheringSays # "unset") /\ settings.orgs
  <2>1. /\ "out" \in said <=> \E o \in Orgs : orgSays[o] = "out"
        /\ "in" \in said <=> \E o \in Orgs : orgSays[o] = "in"
    BY <1>4
  <2>2. \A o \in Orgs : orgSays[o] \in {"unset", "in", "out"}
    BY DEF TypeOK, Says
  <2>3. CASE \E o \in Orgs : orgSays[o] # "unset"
    <3>1. MayPublish = (\A o \in Orgs : orgSays[o] # "out")
      BY <1>4, <2>3 DEF MayPublish
    <3>2. ResolvePublish(settings, said, gatheringSays) = (\A o \in Orgs : orgSays[o] # "out")
      <4>1. CASE "out" \in said
        BY <1>4, <2>1, <4>1 DEF ResolvePublish
      <4>2. CASE "out" \notin said
        <5>1. "in" \in said
          BY <2>1, <2>2, <2>3, <4>2
        <5>2. QED
          BY <1>4, <2>1, <4>2, <5>1 DEF ResolvePublish
      <4>3. QED
        BY <4>1, <4>2
    <3>3. QED
      BY <1>1, <3>1, <3>2
  <2>4. CASE ~\E o \in Orgs : orgSays[o] # "unset"
    <3>1. "out" \notin said /\ "in" \notin said
      BY <2>1, <2>4
    <3>2. MayPublish = (settings.default = "in")
      BY <1>4, <2>4 DEF MayPublish
    <3>3. ResolvePublish(settings, said, gatheringSays) = (settings.default = "in")
      BY <1>4, <3>1 DEF ResolvePublish
    <3>4. QED
      BY <1>1, <3>2, <3>3
  <2>5. QED
    BY <2>3, <2>4
<1>5. QED
  BY <1>2, <1>3, <1>4

LEMMA ReadingStep == ReadingInv /\ [Next]_vars => ReadingInv'
<1> SUFFICES ASSUME ReadingInv, [Next]_vars
             PROVE  ReadingInv'
  OBVIOUS
<1>0. TypeOK /\ TypeOK'
  BY TypeStep DEF ReadingInv
<1>1. ASSUME UNCHANGED <<levels, asking, steady, firm>>
      PROVE  ReadingInv'
  <2>1. Counting' = Counting /\ MayPublish' = MayPublish
    BY <1>1 DEF levels, Counting, MayPublish, ResolvePublish
  <2>2. \A b \in Publishers : Firm(b)'
    BY <1>1, <2>1 DEF ReadingInv, Firm
  <2>3. \A b \in steady' : AsRead(b)'
    BY <1>1, <2>1 DEF ReadingInv, AsRead, levels
  <2>4. QED
    BY <1>0, <2>2, <2>3 DEF ReadingInv
<1>2. ASSUME NEW u \in Users, GrantAdmin(u)
      PROVE  ReadingInv'
  BY <1>1, <1>2 DEF GrantAdmin, history
<1>3. ASSUME NEW c \in Calls, Call(c)
      PROVE  ReadingInv'
  <2>1. CASE PutInstanceSettings(c) \/ UpdateOrganization(c) \/ UpdateGathering(c)
    BY <1>0, <2>1, ReadingDisturbed DEF PutInstanceSettings, UpdateOrganization, UpdateGathering
  <2>2. CASE RevokeAdmin(c)
    BY <1>1, <2>2 DEF RevokeAdmin
  <2>3. ASSUME NEW f \in Fields, NEW v \in Values(f), ReadInstanceSettings(c, f, v)
        PROVE  ReadingInv'
    BY <1>1, <2>3 DEF ReadInstanceSettings
  <2>4. ASSUME NEW u \in Users, CountAdmins(c, u)
        PROVE  ReadingInv'
    BY <1>1, <2>4 DEF CountAdmins, history
  <2>5. ASSUME NEW say \in Says, AskGathering(c, say) \/ \E o \in Orgs : AskOrganization(c, o, say)
        PROVE  ReadingInv'
    BY <1>1, <2>5 DEF AskGathering, AskOrganization, history
  <2>6. QED
    BY <1>3, <2>1, <2>2, <2>3, <2>4, <2>5 DEF Call
<1>4. ASSUME NEW b \in Publishers, Ask(b)
      PROVE  ReadingInv'
  <2>0. b \in Publishers /\ Firm(b) /\ (b \in steady => AsRead(b))
    BY <1>4 DEF ReadingInv
  <2>1. CASE ReadGathering(b)
    <3> DEFINE q == [at |-> "settings", gathering |-> gatheringSays]
    <3>1. /\ asking' = [asking EXCEPT ![b] = q] /\ UNCHANGED levels
          /\ steady' = steady \cup {b} /\ firm' = [firm EXCEPT ![b] = Counting]
      BY <2>1 DEF ReadGathering
    <3>2. asking'[b] = q /\ firm'[b] = Counting /\ Counting' = Counting
      BY <1>0, <3>1 DEF TypeOK, Counting, levels
    <3>3. AsRead(b)'
      BY <3>1, <3>2 DEF AsRead, levels
    <3>4. Firm(b)'
      BY <3>1, <3>2 DEF Firm, Counting
    <3>5. \A d \in Publishers \ {b} : firm'[d] = firm[d] /\ (d \in steady' => d \in steady)
      BY <1>0, <3>1 DEF TypeOK
    <3>6. QED
      BY <1>0, <3>1, <3>3, <3>4, <3>5, ReadingMoved
  <2>2. CASE ReadSettings(b)
    <3> DEFINE q == [at |-> "orgs", gathering |-> asking[b].gathering, instance |-> settings,
                     said |-> {}, unread |-> IF settings.orgs THEN Orgs ELSE {}]
    <3>1. /\ asking[b].at = "settings" /\ asking' = [asking EXCEPT ![b] = q]
          /\ UNCHANGED <<levels, steady, firm>>
      BY <2>2 DEF ReadSettings, history
    <3>2. asking'[b] = q /\ Counting' = Counting
      BY <1>0, <3>1 DEF TypeOK, Counting, levels
    <3>3. b \in steady => AsRead(b)'
      <4>1. q.said = IF settings.orgs THEN {orgSays[o] : o \in Orgs \ q.unread} ELSE {}
        OBVIOUS
      <4>2. b \in steady => q.gathering = gatheringSays
        BY <2>0, <3>1 DEF AsRead
      <4>3. q.at = "orgs" /\ q.instance = settings /\ (settings.orgs \/ q.unread = {})
        OBVIOUS
      <4> HIDE DEF q
      <4>4. QED
        BY <3>1, <3>2, <4>1, <4>2, <4>3 DEF AsRead, levels
    <3>4. Firm(b)'
      BY <2>0, <3>1, <3>2 DEF Firm, Counting
    <3>5. QED
      BY <1>0, <3>1, <3>3, <3>4, ReadingMoved
  <2>3. ASSUME NEW o \in Orgs, ReadOrganization(b, o)
        PROVE  ReadingInv'
    <3> DEFINE p == asking[b]
               q == [p EXCEPT !.unread = @ \ {o}, !.said = @ \cup {orgSays[o]}]
    <3>0. p \in [at : {"orgs"}, gathering : Says, instance : Settings,
                 said : SUBSET Says, unread : SUBSET Orgs]
      BY <1>0, <2>3, Shapes DEF ReadOrganization
    <3>1. /\ p.at = "orgs" /\ o \in p.unread /\ asking' = [asking EXCEPT ![b] = q]
          /\ UNCHANGED <<levels, steady, firm>>
      BY <1>0, <2>3 DEF ReadOrganization, history, TypeOK
    <3>2. asking'[b] = q /\ Counting' = Counting
      BY <1>0, <3>1 DEF TypeOK, Counting, levels
    <3>3. /\ q.at = "orgs" /\ q.gathering = p.gathering /\ q.instance = p.instance
          /\ q.unread = p.unread \ {o} /\ q.said = p.said \cup {orgSays[o]}
      BY <3>0
    <3>4. b \in steady => AsRead(b)'
      <4>1. settings.orgs => {orgSays[x] : x \in Orgs \ q.unread}
                               = {orgSays[x] : x \in Orgs \ p.unread} \cup {orgSays[o]}
        BY <3>0, <3>1, <3>3
      <4>2. ASSUME b \in steady
            PROVE  /\ q.gathering = gatheringSays /\ q.instance = settings /\ settings.orgs
                   /\ q.said = IF settings.orgs THEN {orgSays[x] : x \in Orgs \ q.unread} ELSE {}
        <5>1. /\ p.gathering = gatheringSays /\ p.instance = settings
              /\ p.said = IF settings.orgs THEN {orgSays[x] : x \in Orgs \ p.unread} ELSE {}
              /\ settings.orgs
          BY <2>0, <3>1, <4>2 DEF AsRead
        <5> HIDE DEF p, q
        <5>2. QED
          BY <3>3, <4>1, <5>1
      <4>3. q.at = "orgs"
        BY <3>3
      <4> HIDE DEF p, q
      <4>4. QED
        BY <3>1, <3>2, <4>2, <4>3 DEF AsRead, levels
    <3>5. Firm(b)'
      BY <2>0, <3>1, <3>2, <3>3 DEF Firm, Counting
    <3>6. QED
      BY <1>0, <3>1, <3>4, <3>5, ReadingMoved
  <2>4. CASE FailToRead(b)
    <3>1. /\ asking' = [asking EXCEPT ![b] = Idle] /\ UNCHANGED <<levels, firm>>
          /\ steady' = steady \ {b}
      BY <2>4 DEF FailToRead
    <3>2. asking'[b] = Idle /\ Counting' = Counting
      BY <1>0, <3>1 DEF TypeOK, Counting, levels
    <3>3. Firm(b)'
      BY <2>0, <3>1, <3>2 DEF Firm, Idle
    <3>4. QED
      BY <1>0, <3>1, <3>3, ReadingMoved
  <2>5. CASE Decide(b)
    <3> DEFINE q == [at |-> "decided", publishing |-> Outcome(b)]
    <3>1. /\ asking[b].at = "orgs" /\ asking[b].unread = {}
          /\ asking' = [asking EXCEPT ![b] = q] /\ UNCHANGED <<levels, steady, firm>>
      BY <2>5 DEF Decide, history
    <3>2. asking'[b] = q /\ Counting' = Counting /\ MayPublish' = MayPublish
      BY <1>0, <3>1 DEF TypeOK, Counting, levels, MayPublish, ResolvePublish
    <3>3. b \in steady => AsRead(b)'
      BY <1>0, <2>0, <3>1, <3>2, ResolvedIsTheRule DEF AsRead
    <3>4. Firm(b)'
      <4>1. firm[b] # {} => ~Outcome(b)
        BY <2>0, <3>1 DEF Firm, Outcome, ResolvePublish
      <4>2. QED
        BY <2>0, <3>1, <3>2, <4>1 DEF Firm
    <3>5. QED
      BY <1>0, <3>1, <3>3, <3>4, ReadingMoved
  <2>6. CASE GoAhead(b)
    <3>1. /\ asking' = [asking EXCEPT ![b] = Idle] /\ UNCHANGED levels
          /\ steady' = steady \ {b} /\ firm' = [firm EXCEPT ![b] = {}]
      BY <2>6 DEF GoAhead
    <3>2. firm'[b] = {} /\ \A d \in Publishers \ {b} : firm'[d] = firm[d]
      BY <1>0, <3>1 DEF TypeOK
    <3>3. Firm(b)'
      BY <3>2 DEF Firm
    <3>4. QED
      BY <1>0, <3>1, <3>2, <3>3, ReadingMoved
  <2>7. QED
    BY <1>4, <2>1, <2>2, <2>3, <2>4, <2>5, <2>6 DEF Ask
<1>5. CASE UNCHANGED vars
  BY <1>1, <1>5 DEF vars, history
<1>6. QED
  BY <1>2, <1>3, <1>4, <1>5 DEF Next

\* What a publisher decides is the rule, if no level changed while it read them
\* one after the other, or since.
THEOREM AdministrationDecides == Spec => []DecidedAsTheRule
<1>1. ReadingInv => DecidedAsTheRule
  BY DEF ReadingInv, AsRead, DecidedAsTheRule
<1>2. QED
  BY <1>1, ReadingInit, ReadingStep, PTL DEF Spec

\* An organization's "out" that counted throughout is not overruled, whatever
\* else changes meanwhile and whatever cannot be read.
THEOREM AdministrationOutStands == Spec => []OutIsNotOverruled
<1>1. ReadingInv => OutIsNotOverruled
  BY DEF ReadingInv, Firm, OutIsNotOverruled
<1>2. QED
  BY <1>1, ReadingInit, ReadingStep, PTL DEF Spec
=============================================================================
