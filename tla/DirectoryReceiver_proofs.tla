----------------------- MODULE DirectoryReceiver_proofs -----------------------
(***************************************************************************)
(* For every value of the constants: a batch applied in full is never      *)
(* worked on again, two copies of an envelope are never at work at once,   *)
(* and so DirectoryReceiver implements Inbox. Then what else is proved of  *)
(* a receiver: when a claim is given back, the types, that a call acts on  *)
(* every tombstone of its batch, that no allowance is spent twice, and     *)
(* that a receipt adds up. Sums over calls or events are cardinalities of  *)
(* sets of pairs, one for each update.                                     *)
(***************************************************************************)
EXTENDS DirectoryReceiver, FiniteSetTheorems, TLAPS

\* The part of the types the argument needs.
ReplayTypes ==
    /\ now \in Nat
    /\ seen \in [Ids -> Int]
    /\ sent \in [Ids -> [at : Int, events : Batches \cup {<<>>}]]
    /\ pc \in [Calls -> {"idle", "admitted", "claimed", "charged"}]
    /\ env \in [Calls -> Ids \cup {NoBatch}]
    /\ consumed \subseteq Ids /\ broken \subseteq Ids

IInv == ReplayTypes /\ ReplayInv

\* Unclaimable, and what ReplayInv says of the next state with it.
UnclaimableNext(i) ==
    \/ status' = "removed"
    \/ seen'[i] # Never /\ sent'[i].at <= seen'[i] + FreshnessWindow
    \/ now' - sent'[i].at > FreshnessWindow

LEMMA ReplayNext ==
    ASSUME ReplayTypes', EnvelopesAreSent', SettledIsLeftAlone', OneCallPerBatch',
           \A i \in Settled' : UnclaimableNext(i),
           \A c \in Calls : Working(c)' => UnclaimableNext(env'[c])
    PROVE  IInv'
  BY DEF IInv, ReplayInv, Unclaimable, UnclaimableNext

LEMMA ReplayInit == Init => IInv
  BY DEF Init, IInv, ReplayTypes, ReplayInv, EnvelopesAreSent, Settled, SettledIsLeftAlone, OneCallPerBatch,
     Working, NotSent, Never

\* Steps that leave every claim as it is: calls may end or be admitted, time
\* may pass, the peer may go, but no call starts to work.
LEMMA QuietStep ==
    ASSUME IInv,
           UNCHANGED <<seen, consumed, broken>>,
           now' \in Nat /\ now <= now',
           status = "removed" => status' = "removed",
           pc' \in [Calls -> {"idle", "admitted", "claimed", "charged"}],
           env' \in [Calls -> Ids \cup {NoBatch}],
           sent' \in [Ids -> [at : Int, events : Batches \cup {<<>>}]],
           \A i \in Ids : sent[i] # NotSent => sent'[i] = sent[i],
           \A c \in Calls : Working(c)' => Working(c) /\ env'[c] = env[c],
           \A c \in Calls : pc'[c] # "idle" => env'[c] \in Ids /\ sent[env'[c]] # NotSent
    PROVE  IInv'
<1>1. ReplayTypes'
  BY DEF IInv, ReplayTypes
<1>2. ASSUME NEW i \in Ids, Unclaimable(i), sent[i] # NotSent
      PROVE  UnclaimableNext(i)
  <2>1. sent'[i] = sent[i] /\ sent[i].at \in Int /\ seen[i] \in Int /\ now \in Int /\ FreshnessWindow \in Int
    BY <1>2, WindowAssumption DEF IInv, ReplayTypes
  <2>2. QED
    BY <1>2, <2>1 DEF Unclaimable, UnclaimableNext
<1>3. EnvelopesAreSent'
  BY DEF IInv, ReplayTypes, ReplayInv, EnvelopesAreSent, Settled
<1>4. \A i \in Settled' : UnclaimableNext(i)
  BY <1>2 DEF IInv, ReplayTypes, ReplayInv, EnvelopesAreSent, Settled
<1>5. \A c \in Calls : Working(c)' => UnclaimableNext(env'[c])
  <2> SUFFICES ASSUME NEW c \in Calls, Working(c)'
               PROVE  UnclaimableNext(env'[c])
    OBVIOUS
  <2>1. Working(c) /\ env'[c] = env[c]
    OBVIOUS
  <2>2. Unclaimable(env[c]) /\ env[c] \in Ids /\ sent[env[c]] # NotSent
    BY <2>1 DEF IInv, ReplayInv, EnvelopesAreSent, Working
  <2>3. QED
    BY <1>2, <2>1, <2>2
<1>6. SettledIsLeftAlone' /\ OneCallPerBatch'
  BY DEF IInv, ReplayInv, SettledIsLeftAlone, Settled, OneCallPerBatch
<1>7. QED
  BY <1>1, <1>3, <1>4, <1>5, <1>6, ReplayNext

\* An id that can be claimed belongs to no envelope applied or at work.
LEMMA ReplayClaim ==
    ASSUME IInv, NEW c \in Calls, Claim(c)
    PROVE  IInv'
<1> DEFINE i == env[c]
<1>1. i \in Ids /\ sent[i] # NotSent
  BY DEF Claim, IInv, ReplayInv, EnvelopesAreSent
<1>2. sent[i].at \in Int /\ now \in Int /\ seen[i] = Never /\ FreshnessWindow \in Int
  BY <1>1, WindowAssumption DEF Claim, IInv, ReplayTypes
<1>3. ~Unclaimable(i)
  BY <1>2 DEF Claim, Fresh, Unclaimable
<1>4. /\ i \notin Settled
      /\ \A d \in Calls : Working(d) => env[d] # i
  BY <1>3 DEF IInv, ReplayInv
<1>5. /\ UNCHANGED <<now, status, sent, env, consumed, broken>>
      /\ seen' = [seen EXCEPT ![i] = now] /\ pc' = [pc EXCEPT ![c] = "claimed"]
  BY DEF Claim, peerVars, locals
<1>6. ReplayTypes'
  BY <1>1, <1>2, <1>5 DEF IInv, ReplayTypes
<1>7. \A d \in Calls : Working(d)' => d = c \/ Working(d)
  BY <1>5 DEF Working, IInv, ReplayTypes
<1>8. EnvelopesAreSent'
  BY <1>1, <1>5 DEF IInv, ReplayTypes, ReplayInv, EnvelopesAreSent, Settled
<1>9. ASSUME NEW j \in Ids, j # i, Unclaimable(j)
      PROVE  UnclaimableNext(j)
  BY <1>5, <1>9 DEF Unclaimable, UnclaimableNext, IInv, ReplayTypes
<1>10. UnclaimableNext(i)
  <2>1. seen'[i] = now /\ sent'[i] = sent[i] /\ now # Never
    BY <1>1, <1>5 DEF IInv, ReplayTypes, Never
  <2>2. QED
    BY <1>2, <2>1 DEF Claim, Fresh, UnclaimableNext
<1>11. \A j \in Settled' : UnclaimableNext(j)
  BY <1>4, <1>5, <1>9 DEF IInv, ReplayTypes, ReplayInv, Settled
<1>12. ASSUME NEW d \in Calls, Working(d)'
       PROVE  UnclaimableNext(env'[d])
  <2>1. env'[d] = env[d]
    BY <1>5
  <2>2. CASE d = c
    BY <1>10, <2>1, <2>2
  <2>3. CASE Working(d)
    BY <1>4, <1>9, <2>1, <2>3 DEF IInv, ReplayInv, EnvelopesAreSent, Working
  <2>4. QED
    BY <1>7, <1>12, <2>2, <2>3
<1>13. SettledIsLeftAlone' /\ OneCallPerBatch'
  BY <1>4, <1>5, <1>7 DEF IInv, ReplayInv, SettledIsLeftAlone, Settled, OneCallPerBatch
<1>14. QED
  BY <1>6, <1>8, <1>11, <1>12, <1>13, ReplayNext

\* What a call's return leaves of the other calls.
LEMMA ReplayCallReturns ==
    ASSUME IInv, NEW c \in Calls,
           pc' = [pc EXCEPT ![c] = "idle"], env' = [env EXCEPT ![c] = NoBatch]
    PROVE  /\ pc' \in [Calls -> {"idle", "admitted", "claimed", "charged"}]
           /\ env' \in [Calls -> Ids \cup {NoBatch}]
           /\ \A d \in Calls : pc'[d] # "idle" => d # c /\ pc'[d] = pc[d] /\ env'[d] = env[d]
           /\ \A d \in Calls : Working(d)' => d # c /\ Working(d) /\ env'[d] = env[d]
  BY DEF IInv, ReplayTypes, Working

\* A call that releases its claim ends the only work on the envelope.
LEMMA ReplayReleased ==
    ASSUME IInv, NEW c \in Calls, Working(c),
           UNCHANGED <<now, status, sent, consumed, broken>>,
           seen' = [seen EXCEPT ![env[c]] = Never],
           pc' = [pc EXCEPT ![c] = "idle"], env' = [env EXCEPT ![c] = NoBatch]
    PROVE  IInv'
<1> DEFINE i == env[c]
<1>1. i \in Ids
  BY DEF Working, IInv, ReplayInv, EnvelopesAreSent
<1>2. /\ i \notin Settled
      /\ \A d \in Calls : d # c /\ Working(d) => env[d] # i
  BY DEF IInv, ReplayInv, SettledIsLeftAlone, OneCallPerBatch
<1>3. ReplayTypes'
  BY <1>1, ReplayCallReturns DEF IInv, ReplayTypes, Never
<1>4. EnvelopesAreSent'
  BY ReplayCallReturns DEF IInv, ReplayInv, EnvelopesAreSent, Settled
<1>5. ASSUME NEW j \in Ids, j # i, Unclaimable(j)
      PROVE  UnclaimableNext(j)
  BY <1>5 DEF Unclaimable, UnclaimableNext, IInv, ReplayTypes
<1>6. \A j \in Settled' : UnclaimableNext(j)
  BY <1>2, <1>5 DEF IInv, ReplayTypes, ReplayInv, Settled
<1>7. \A d \in Calls : Working(d)' => UnclaimableNext(env'[d])
  BY <1>2, <1>5, ReplayCallReturns DEF IInv, ReplayInv, EnvelopesAreSent, Working
<1>8. SettledIsLeftAlone' /\ OneCallPerBatch'
  BY ReplayCallReturns DEF IInv, ReplayInv, SettledIsLeftAlone, Settled, OneCallPerBatch
<1>9. QED
  BY <1>3, <1>4, <1>6, <1>7, <1>8, ReplayNext

\* So does one that keeps it, having applied the batch or been cut short: the
\* envelope joins the settled ones.
LEMMA ReplaySettled ==
    ASSUME IInv, NEW c \in Calls, Working(c),
           UNCHANGED <<now, status, sent, seen>>,
           Settled' = Settled \cup {env[c]}, consumed' \subseteq Ids, broken' \subseteq Ids,
           pc' = [pc EXCEPT ![c] = "idle"], env' = [env EXCEPT ![c] = NoBatch]
    PROVE  IInv'
<1> DEFINE i == env[c]
<1>1. i \in Ids /\ sent[i] # NotSent /\ Unclaimable(i)
  BY DEF Working, IInv, ReplayInv, EnvelopesAreSent
<1>2. \A d \in Calls : d # c /\ Working(d) => env[d] # i
  BY DEF IInv, ReplayInv, OneCallPerBatch
<1>3. ReplayTypes'
  BY ReplayCallReturns DEF IInv, ReplayTypes
<1>4. EnvelopesAreSent'
  BY <1>1, ReplayCallReturns DEF IInv, ReplayInv, EnvelopesAreSent
<1>5. \A j \in Ids : Unclaimable(j) => UnclaimableNext(j)
  BY DEF Unclaimable, UnclaimableNext
<1>6. \A j \in Settled' : UnclaimableNext(j)
  BY <1>1, <1>5 DEF IInv, ReplayTypes, ReplayInv, Settled
<1>7. \A d \in Calls : Working(d)' => UnclaimableNext(env'[d])
  BY <1>5, ReplayCallReturns DEF IInv, ReplayInv, EnvelopesAreSent, Working
<1>8. SettledIsLeftAlone' /\ OneCallPerBatch'
  BY <1>2, ReplayCallReturns DEF IInv, ReplayInv, SettledIsLeftAlone, OneCallPerBatch
<1>9. QED
  BY <1>3, <1>4, <1>6, <1>7, <1>8, ReplayNext

\* The ways a call that holds a claim can end.
LEMMA ReplayEnd ==
    ASSUME IInv, NEW c \in Calls, Working(c),
           FinishApplied(c) \/ FinishLimited(c) \/ Fail(c) \/ Abandon(c)
    PROVE  IInv'
<1>1. env[c] \in Ids
  BY DEF Working, IInv, ReplayInv, EnvelopesAreSent
<1>2. /\ UNCHANGED <<now, status, sent>>
      /\ pc' = [pc EXCEPT ![c] = "idle"] /\ env' = [env EXCEPT ![c] = NoBatch]
  BY DEF FinishApplied, FinishLimited, Fail, Abandon, Return, peerVars
<1>3. \/ seen' = [seen EXCEPT ![env[c]] = Never] /\ UNCHANGED <<consumed, broken>>
      \/ UNCHANGED <<seen, consumed>> /\ broken' = broken \cup {env[c]}
      \/ UNCHANGED <<seen, broken>> /\ consumed' = consumed \cup {env[c]}
  BY DEF FinishApplied, FinishLimited, Fail, Abandon, Release, Working
<1>4. QED
  BY <1>1, <1>2, <1>3, ReplayReleased, ReplaySettled DEF IInv, ReplayTypes, Settled

\* What the sweep forgets was seen two windows ago, so it is out of its own.
LEMMA ReplaySweep ==
    ASSUME IInv, SweepBatches
    PROVE  IInv'
<1>1. /\ UNCHANGED <<now, status, sent, consumed, broken, pc, env>>
      /\ seen' = [i \in Ids |-> IF seen[i] < now - 2 * FreshnessWindow THEN Never ELSE seen[i]]
  BY DEF SweepBatches, peerVars, locals
<1>2. ReplayTypes'
  BY <1>1 DEF IInv, ReplayTypes, Never
<1>3. ASSUME NEW i \in Ids, Unclaimable(i)
      PROVE  UnclaimableNext(i)
  <2>1. sent[i].at \in Int /\ seen[i] \in Int /\ now \in Nat /\ FreshnessWindow \in Nat /\ sent'[i] = sent[i]
    BY <1>1, WindowAssumption DEF IInv, ReplayTypes
  <2>2. CASE seen[i] < now - 2 * FreshnessWindow
    BY <1>1, <1>3, <2>1, <2>2 DEF Unclaimable, UnclaimableNext
  <2>3. CASE ~(seen[i] < now - 2 * FreshnessWindow)
    BY <1>1, <1>3, <2>1, <2>3 DEF Unclaimable, UnclaimableNext
  <2>4. QED
    BY <2>2, <2>3
<1>4. EnvelopesAreSent' /\ SettledIsLeftAlone' /\ OneCallPerBatch'
  BY <1>1 DEF IInv, ReplayInv, EnvelopesAreSent, SettledIsLeftAlone, Settled, OneCallPerBatch, Working
<1>5. \A c \in Calls : Working(c)' => UnclaimableNext(env'[c])
  BY <1>1, <1>3 DEF IInv, ReplayInv, EnvelopesAreSent, Working
<1>6. \A i \in Settled' : UnclaimableNext(i)
  BY <1>1, <1>3 DEF IInv, ReplayTypes, ReplayInv, Settled
<1>7. QED
  BY <1>2, <1>4, <1>5, <1>6, ReplayNext

\* A removed peer takes every claim with it, and nothing is claimed again.
LEMMA ReplayRemove ==
    ASSUME IInv, RemovePeer
    PROVE  IInv'
<1>1. UNCHANGED <<now, sent, consumed, broken, pc, env>> /\ seen' = [i \in Ids |-> Never] /\ status' = "removed"
  BY DEF RemovePeer, locals
<1>2. ReplayTypes'
  BY <1>1 DEF IInv, ReplayTypes, Never
<1>3. EnvelopesAreSent' /\ SettledIsLeftAlone' /\ OneCallPerBatch'
  BY <1>1 DEF IInv, ReplayInv, EnvelopesAreSent, SettledIsLeftAlone, Settled, OneCallPerBatch, Working
<1>4. \A i : UnclaimableNext(i)
  BY <1>1 DEF UnclaimableNext
<1>5. QED
  BY <1>2, <1>3, <1>4, ReplayNext

\* The steps that touch no claim, one by one.
LEMMA ReplayAdmit ==
    ASSUME IInv, NEW c \in Calls, NEW i \in Ids, Admit(c, i)
    PROVE  IInv'
<1>1. /\ UNCHANGED <<now, status, seen, sent, consumed, broken>>
      /\ pc[c] = "idle" /\ sent[i] # NotSent
      /\ pc' = [pc EXCEPT ![c] = "admitted"] /\ env' = [env EXCEPT ![c] = i]
  BY DEF Admit, peerVars
<1>2. \A d \in Calls : Working(d)' => Working(d) /\ env'[d] = env[d]
  BY <1>1 DEF Working, IInv, ReplayTypes
<1>3. \A d \in Calls : pc'[d] # "idle" => env'[d] \in Ids /\ sent[env'[d]] # NotSent
  BY <1>1 DEF IInv, ReplayTypes, ReplayInv, EnvelopesAreSent
<1>4. QED
  BY <1>1, <1>2, <1>3, QuietStep DEF IInv, ReplayTypes

LEMMA ReplayReturn ==
    ASSUME IInv, NEW c \in Calls, ~Working(c), RefuseClaim(c) \/ Abandon(c)
    PROVE  IInv'
<1>1. /\ UNCHANGED <<now, status, seen, sent, consumed, broken>>
      /\ pc' = [pc EXCEPT ![c] = "idle"] /\ env' = [env EXCEPT ![c] = NoBatch]
  BY DEF RefuseClaim, Abandon, Return, peerVars, Working, IInv, ReplayTypes
<1>2. \A d \in Calls : pc'[d] # "idle" => pc'[d] = pc[d] /\ env'[d] = env[d]
  BY <1>1 DEF IInv, ReplayTypes
<1>3. \A d \in Calls : Working(d)' => Working(d) /\ env'[d] = env[d]
  BY <1>2 DEF Working
<1>4. QED
  BY <1>1, <1>2, <1>3, QuietStep DEF IInv, ReplayTypes, ReplayInv, EnvelopesAreSent

LEMMA ReplayWork ==
    ASSUME IInv, NEW c \in Calls,
           \/ \E m \in Issued : ChargePeer(c, m) \/ \E o \in Orgs : ChargeOrigin(c, o, m)
           \/ Walk(c)
    PROVE  IInv'
<1>1. /\ UNCHANGED <<now, status, seen, sent, env, consumed, broken>>
      /\ pc' = pc \/ (pc[c] = "claimed" /\ pc' = [pc EXCEPT ![c] = "charged"])
  BY DEF ChargePeer, ChargeOrigin, Walk, ApplyTombstone, SkipForRate, RejectInvalid, StoreUpdate, peerVars
<1>2. \A d \in Calls : (Working(d)' => Working(d)) /\ (pc'[d] # "idle" => pc[d] # "idle")
  BY <1>1 DEF Working, IInv, ReplayTypes
<1>3. /\ now' \in Nat /\ now <= now'
      /\ pc' \in [Calls -> {"idle", "admitted", "claimed", "charged"}]
      /\ env' \in [Calls -> Ids \cup {NoBatch}]
      /\ sent' \in [Ids -> [at : Int, events : Batches \cup {<<>>}]]
  BY <1>1 DEF IInv, ReplayTypes
<1>4. \A d \in Calls : pc'[d] # "idle" => env'[d] \in Ids /\ sent[env'[d]] # NotSent
  BY <1>1, <1>2 DEF IInv, ReplayInv, EnvelopesAreSent
<1>5. QED
  BY <1>1, <1>2, <1>3, <1>4, QuietStep

LEMMA ReplaySend ==
    ASSUME IInv, NEW i \in Ids, NEW b \in Batches, NEW at \in (now - MaxSkew)..(now + MaxSkew),
           Send(i, b, at)
    PROVE  IInv'
<1>1. /\ UNCHANGED <<now, status, seen, pc, env, consumed, broken>>
      /\ sent[i] = NotSent /\ sent' = [sent EXCEPT ![i] = [at |-> at, events |-> b]]
  BY DEF Send, peerVars, locals
<1>2. sent' \in [Ids -> [at : Int, events : Batches \cup {<<>>}]]
  BY <1>1 DEF IInv, ReplayTypes
<1>3. \A j \in Ids : sent[j] # NotSent => sent'[j] = sent[j]
  BY <1>1 DEF IInv, ReplayTypes
<1>4. \A d \in Calls : Working(d)' => Working(d)
  BY <1>1 DEF Working
<1>5. QED
  BY <1>1, <1>2, <1>3, <1>4, QuietStep DEF IInv, ReplayTypes, ReplayInv, EnvelopesAreSent

LEMMA ReplayOther ==
    ASSUME IInv,
           \/ SetInboundStatus \/ Tick \/ SweepEvents \/ UNCHANGED vars
           \/ \E limit \in Overrides \cup {NoOverride} : SetPeerRateLimit(limit)
    PROVE  IInv'
<1>1. /\ UNCHANGED <<seen, sent, pc, env, consumed, broken>>
      /\ now' = now \/ now' = now + 1
      /\ status = "removed" => status' = "removed"
  BY DEF SetInboundStatus, Tick, SweepEvents, SetPeerRateLimit, vars, peerVars, locals
<1>2. \A d \in Calls : Working(d)' => Working(d)
  BY <1>1 DEF Working
<1>3. now' \in Nat /\ now <= now'
  BY <1>1 DEF IInv, ReplayTypes
<1>4. QED
  BY <1>1, <1>2, <1>3, QuietStep DEF IInv, ReplayTypes, ReplayInv, EnvelopesAreSent

LEMMA ReplayStep == IInv /\ [Next]_vars => IInv'
<1> SUFFICES ASSUME IInv, [Next]_vars
             PROVE  IInv'
  OBVIOUS
<1>1. ASSUME NEW c \in Calls, DeliverEvents(c)
      PROVE  IInv'
  <2>1. FinishApplied(c) \/ FinishLimited(c) \/ Fail(c) => Working(c)
    BY DEF FinishApplied, FinishLimited, Finished, Fail, Working
  <2>2. RefuseClaim(c) => ~Working(c)
    BY DEF RefuseClaim, Working
  <2>3. QED
    BY <1>1, <2>1, <2>2, ReplayAdmit, ReplayClaim, ReplayReturn, ReplayWork, ReplayEnd DEF DeliverEvents
<1>2. QED
  BY <1>1, ReplaySend, ReplayRemove, ReplayOther, ReplaySweep DEF Next

\* Whatever the constants: a batch applied in full is never worked on again.
THEOREM ReceiverRefusesReplays == Spec => []ReplayIsRefused
<1>1. IInv => ReplayIsRefused
  BY DEF IInv, ReplayInv, SettledIsLeftAlone, Settled, ReplayIsRefused
<1>2. QED
  BY <1>1, ReplayInit, ReplayStep, PTL DEF Spec

\* Whatever the constants: no two calls work on the same envelope at once.
THEOREM ReceiverWorksAlone == Spec => []OneCallPerBatch
<1>1. IInv => OneCallPerBatch
  BY DEF IInv, ReplayInv
<1>2. QED
  BY <1>1, ReplayInit, ReplayStep, PTL DEF Spec

----------------------------------------------------------------------------
(* DirectoryReceiver implements Inbox. *)

LEMMA PhaseStutters ==
    ASSUME UNCHANGED <<consumed, broken>>,
           \A d \in Calls : Working(d)' <=> Working(d),
           \A d \in Calls : Working(d) => env'[d] = env[d]
    PROVE  UNCHANGED Phase
<1>1. ASSUME NEW i \in Ids
      PROVE  AtWork(i)' <=> AtWork(i)
  BY DEF AtWork
<1>2. \A i \in Ids : PhaseOf(i)' = PhaseOf(i)
  BY <1>1 DEF PhaseOf
<1>3. QED
  BY <1>2 DEF Phase

LEMMA PhaseMoves ==
    ASSUME NEW i \in Ids, \A j \in Ids \ {i} : PhaseOf(j)' = PhaseOf(j)
    PROVE  Phase' = [Phase EXCEPT ![i] = PhaseOf(i)'] /\ Phase[i] = PhaseOf(i)
  BY DEF Phase

LEMMA ClaimTakes ==
    ASSUME IInv, NEW c \in Calls, NEW i \in Ids, env[c] = i, Claim(c)
    PROVE  Promise!Take(i)
<1>1. sent[i].at \in Int /\ now \in Int /\ FreshnessWindow \in Int
  BY WindowAssumption DEF Claim, IInv, ReplayTypes, ReplayInv, EnvelopesAreSent
<1>2. ~Unclaimable(i)
  BY <1>1 DEF Claim, Fresh, Unclaimable
<1>3. i \notin Settled /\ ~AtWork(i)
  BY <1>2 DEF IInv, ReplayInv, AtWork
<1>4. UNCHANGED <<env, consumed, broken>> /\ pc' = [pc EXCEPT ![c] = "claimed"] /\ ~Working(c)
  BY DEF Claim, locals, Working
<1>5. Working(c)' /\ \A d \in Calls : d # c => (Working(d)' <=> Working(d))
  BY <1>4 DEF Working, IInv, ReplayTypes
<1>6. AtWork(i)' /\ \A j \in Ids \ {i} : AtWork(j)' <=> AtWork(j)
  BY <1>4, <1>5 DEF AtWork
<1>7. /\ PhaseOf(i) = "new" /\ PhaseOf(i)' = "working"
      /\ \A j \in Ids \ {i} : PhaseOf(j)' = PhaseOf(j)
  BY <1>3, <1>4, <1>6 DEF PhaseOf, Settled
<1>8. Phase[i] = "new" /\ Phase' = [Phase EXCEPT ![i] = "working"]
  <2>1. Phase' = [Phase EXCEPT ![i] = PhaseOf(i)'] /\ Phase[i] = PhaseOf(i)
    BY <1>1, <1>7, PhaseMoves
  <2>2. QED
    BY <1>7, <2>1
<1>9. QED
  BY <1>8 DEF Promise!Take

LEMMA EndSettles ==
    ASSUME IInv, NEW c \in Calls, NEW i \in Ids, env[c] = i, Working(c),
           FinishApplied(c) \/ FinishLimited(c) \/ Fail(c) \/ Abandon(c)
    PROVE  Promise!Apply(i) \/ Promise!GiveBack(i) \/ Promise!Abandon(i)
<1>1. i \notin Settled
  BY DEF Working, IInv, ReplayInv, EnvelopesAreSent, SettledIsLeftAlone
<1>2. pc' = [pc EXCEPT ![c] = "idle"] /\ env' = [env EXCEPT ![c] = NoBatch]
  BY DEF FinishApplied, FinishLimited, Fail, Abandon, Return
<1>3. \/ UNCHANGED <<consumed, broken>>
      \/ UNCHANGED consumed /\ broken' = broken \cup {i}
      \/ UNCHANGED broken /\ consumed' = consumed \cup {i}
  BY DEF FinishApplied, FinishLimited, Fail, Abandon, Release, Working
<1>4. /\ ~Working(c)'
      /\ \A d \in Calls : d # c => (Working(d)' <=> Working(d)) /\ env'[d] = env[d]
  BY <1>2 DEF Working, IInv, ReplayTypes
<1>5. \A d \in Calls : d # c /\ Working(d) => env[d] # i
  BY DEF IInv, ReplayInv, OneCallPerBatch
<1>6. AtWork(i) /\ ~AtWork(i)' /\ \A j \in Ids \ {i} : AtWork(j)' <=> AtWork(j)
  <2>1. AtWork(i)
    BY DEF AtWork
  <2>2. ~AtWork(i)'
    BY <1>4, <1>5 DEF AtWork
  <2>3. ASSUME NEW j \in Ids \ {i}
        PROVE  AtWork(j)' <=> AtWork(j)
    <3>1. \A d \in Calls : (Working(d) /\ env[d] = j)' <=> (Working(d) /\ env[d] = j)
      BY <1>4
    <3>2. QED
      BY <3>1 DEF AtWork
  <2>4. QED
    BY <2>1, <2>2, <2>3
<1>7. /\ PhaseOf(i) = "working" /\ PhaseOf(i)' \in {"applied", "abandoned", "new"}
      /\ \A j \in Ids \ {i} : PhaseOf(j)' = PhaseOf(j)
  BY <1>1, <1>3, <1>6 DEF PhaseOf, Settled
<1>8. Phase' = [Phase EXCEPT ![i] = PhaseOf(i)'] /\ Phase[i] = PhaseOf(i)
  BY <1>1, <1>7, PhaseMoves
<1>9. QED
  BY <1>7, <1>8 DEF Promise!Apply, Promise!GiveBack, Promise!Abandon

LEMMA RestStutters ==
    ASSUME IInv,
           \/ \E i \in Ids, b \in Batches, at \in (now - MaxSkew)..(now + MaxSkew) : Send(i, b, at)
           \/ SetInboundStatus \/ RemovePeer \/ Tick \/ SweepBatches \/ SweepEvents \/ UNCHANGED vars
           \/ \E limit \in Overrides \cup {NoOverride} : SetPeerRateLimit(limit)
    PROVE  UNCHANGED Phase
<1>1. UNCHANGED <<pc, env, consumed, broken>>
  BY DEF Send, SetInboundStatus, RemovePeer, Tick, SweepBatches, SweepEvents, SetPeerRateLimit,
         vars, peerVars, locals
<1>2. QED
  BY <1>1, PhaseStutters DEF Working

LEMMA CallKeepsPromise ==
    ASSUME IInv, NEW c \in Calls, DeliverEvents(c)
    PROVE  [Promise!Next]_Phase
<1>1. CASE Claim(c)
  <2>1. env[c] \in Ids
    BY <1>1 DEF Claim, IInv, ReplayInv, EnvelopesAreSent
  <2>2. QED
    BY <1>1, <2>1, ClaimTakes DEF Promise!Next
<1>2. CASE Working(c) /\ (FinishApplied(c) \/ FinishLimited(c) \/ Fail(c) \/ Abandon(c))
  <2>1. env[c] \in Ids
    BY <1>2 DEF Working, IInv, ReplayInv, EnvelopesAreSent
  <2>2. QED
    BY <1>2, <2>1, EndSettles DEF Promise!Next
<1>3. CASE \E i \in Ids : Admit(c, i)
  <2>1. /\ UNCHANGED <<consumed, broken>> /\ pc[c] = "idle" /\ pc' = [pc EXCEPT ![c] = "admitted"]
        /\ \A d \in Calls : d # c => env'[d] = env[d]
    BY <1>3 DEF Admit, IInv, ReplayTypes
  <2>2. \A d \in Calls : (Working(d)' <=> Working(d)) /\ (Working(d) => d # c)
    BY <2>1 DEF Working, IInv, ReplayTypes
  <2>3. QED
    BY <2>1, <2>2, PhaseStutters
<1>4. CASE ~Working(c) /\ (RefuseClaim(c) \/ Abandon(c))
  <2>1. /\ UNCHANGED <<consumed, broken>>
        /\ pc' = [pc EXCEPT ![c] = "idle"] /\ env' = [env EXCEPT ![c] = NoBatch]
    BY <1>4 DEF RefuseClaim, Abandon, Return, Working, IInv, ReplayTypes
  <2>2. \A d \in Calls : (Working(d)' <=> Working(d)) /\ (Working(d) => env'[d] = env[d])
    BY <1>4, <2>1 DEF Working, IInv, ReplayTypes
  <2>3. QED
    BY <2>1, <2>2, PhaseStutters
<1>5. CASE \/ \E m \in Issued : ChargePeer(c, m) \/ \E o \in Orgs : ChargeOrigin(c, o, m)
           \/ Walk(c)
  <2>1. /\ UNCHANGED <<env, consumed, broken>>
        /\ pc' = pc \/ (pc[c] = "claimed" /\ pc' = [pc EXCEPT ![c] = "charged"])
    BY <1>5 DEF ChargePeer, ChargeOrigin, Walk, ApplyTombstone, SkipForRate, RejectInvalid, StoreUpdate
  <2>2. \A d \in Calls : Working(d)' <=> Working(d)
    BY <2>1 DEF Working, IInv, ReplayTypes
  <2>3. QED
    BY <2>1, <2>2, PhaseStutters
<1>6. RefuseClaim(c) => ~Working(c)
  BY DEF RefuseClaim, Working
<1>7. FinishApplied(c) \/ FinishLimited(c) \/ Fail(c) => Working(c)
  BY DEF FinishApplied, FinishLimited, Finished, Fail, Working
<1>8. QED
  BY <1>1, <1>2, <1>3, <1>4, <1>5, <1>6, <1>7 DEF DeliverEvents

\* Whatever the constants, DeliverEvents does with an envelope what Inbox says
\* a directory does, and no more.
THEOREM ReceiverKeepsPromise == Spec => KeepsPromise
<1>1. Init => Promise!Init
  BY DEF Init, Promise!Init, Phase, PhaseOf, AtWork, Working
<1>2. IInv /\ [Next]_vars => [Promise!Next]_Phase
  <2> SUFFICES ASSUME IInv, [Next]_vars
               PROVE  [Promise!Next]_Phase
    OBVIOUS
  <2>1. CASE \E c \in Calls : DeliverEvents(c)
    BY <2>1, CallKeepsPromise
  <2>2. CASE ~\E c \in Calls : DeliverEvents(c)
    BY <2>2, RestStutters DEF Next
  <2>3. QED
    BY <2>1, <2>2
<1>3. QED
  BY <1>1, <1>2, ReplayInit, ReplayStep, PTL DEF Spec, KeepsPromise, Promise!Spec

----------------------------------------------------------------------------
(* What is left of a claim *)

ClaimInv == IInv /\ OnlyBrokenCallsKeepTheirClaim

LEMMA ClaimInit == Init => ClaimInv
  BY ReplayInit DEF Init, ClaimInv, OnlyBrokenCallsKeepTheirClaim

\* A step after which whoever held a claim holds it still, or it was forgotten.
LEMMA ClaimsKept ==
    ASSUME ClaimInv, IInv',
           \A i \in Ids : seen'[i] # Never => seen[i] # Never,
           consumed \subseteq consumed', broken \subseteq broken',
           \A d \in Calls : Working(d) => Working(d)' /\ env'[d] = env[d]
    PROVE  ClaimInv'
  BY DEF ClaimInv, OnlyBrokenCallsKeepTheirClaim

\* A call that ends has settled its envelope or forgotten it.
LEMMA ClaimEnds ==
    ASSUME ClaimInv, IInv', NEW c \in Calls, Working(c),
           FinishApplied(c) \/ FinishLimited(c) \/ Fail(c) \/ Abandon(c)
    PROVE  ClaimInv'
<1>1. env[c] \in Ids
  BY DEF ClaimInv, Working, IInv, ReplayInv, EnvelopesAreSent
<1>2. \A d \in Calls \ {c} : Working(d) => Working(d)' /\ env'[d] = env[d]
  BY DEF FinishApplied, FinishLimited, Fail, Abandon, Return, Working, ClaimInv, IInv, ReplayTypes
<1>3. \/ seen' = [seen EXCEPT ![env[c]] = Never] /\ UNCHANGED <<consumed, broken>>
      \/ UNCHANGED <<seen, consumed>> /\ broken' = broken \cup {env[c]}
      \/ UNCHANGED <<seen, broken>> /\ consumed' = consumed \cup {env[c]}
  BY DEF FinishApplied, FinishLimited, Fail, Abandon, Release, Working
<1>4. ASSUME NEW i \in Ids, seen'[i] # Never
      PROVE  i \in (consumed \cup broken)' \/ \E d \in Calls : Working(d)' /\ env'[d] = i
  <2>1. seen[i] # Never /\ consumed \subseteq consumed' /\ broken \subseteq broken'
    BY <1>1, <1>3, <1>4 DEF ClaimInv, IInv, ReplayTypes
  <2>2. CASE i = env[c]
    BY <1>1, <1>3, <1>4, <2>2 DEF ClaimInv, IInv, ReplayTypes
  <2>3. CASE i # env[c]
    BY <1>2, <2>1, <2>3 DEF ClaimInv, OnlyBrokenCallsKeepTheirClaim
  <2>4. QED
    BY <2>2, <2>3
<1>5. QED
  BY <1>4 DEF ClaimInv, OnlyBrokenCallsKeepTheirClaim

LEMMA ClaimStep == ClaimInv /\ [Next]_vars => ClaimInv'
<1> SUFFICES ASSUME ClaimInv, [Next]_vars
             PROVE  ClaimInv'
  OBVIOUS
<1>1. IInv'
  BY ReplayStep DEF ClaimInv
<1>2. ASSUME NEW c \in Calls, Claim(c)
      PROVE  ClaimInv'
  <2>1. env[c] \in Ids /\ ~Working(c) /\ UNCHANGED <<env, consumed, broken>>
    BY <1>2 DEF Claim, locals, Working, ClaimInv, IInv, ReplayInv, EnvelopesAreSent
  <2>2. Working(c)' /\ \A d \in Calls : Working(d) => Working(d)'
    BY <1>2, <2>1 DEF Claim, Working, ClaimInv, IInv, ReplayTypes
  <2>3. \A i \in Ids : i = env[c] \/ seen'[i] = seen[i]
    BY <1>2 DEF Claim, ClaimInv, IInv, ReplayTypes
  <2>4. QED
    BY <1>1, <2>1, <2>2, <2>3 DEF ClaimInv, OnlyBrokenCallsKeepTheirClaim
<1>3. ASSUME NEW c \in Calls,
             \/ \E i \in Ids : Admit(c, i)
             \/ RefuseClaim(c) \/ (~Working(c) /\ Abandon(c))
      PROVE  ClaimInv'
  <2>1. UNCHANGED <<seen, consumed, broken>> /\ ~Working(c)
    BY <1>3 DEF Admit, RefuseClaim, Abandon, Return, Working, ClaimInv, IInv, ReplayTypes
  <2>2. \A d \in Calls : d # c => pc'[d] = pc[d] /\ env'[d] = env[d]
    BY <1>3 DEF Admit, RefuseClaim, Abandon, Return, ClaimInv, IInv, ReplayTypes
  <2>3. QED
    BY <1>1, <2>1, <2>2, ClaimsKept DEF Working
<1>4. ASSUME NEW c \in Calls,
             \/ \E m \in Issued : ChargePeer(c, m) \/ \E o \in Orgs : ChargeOrigin(c, o, m)
             \/ Walk(c)
      PROVE  ClaimInv'
  <2>1. /\ UNCHANGED <<seen, env, consumed, broken>>
        /\ pc' = pc \/ pc' = [pc EXCEPT ![c] = "charged"]
    BY <1>4 DEF ChargePeer, ChargeOrigin, Walk, ApplyTombstone, SkipForRate, RejectInvalid, StoreUpdate
  <2>2. \A d \in Calls : Working(d) => Working(d)'
    BY <2>1 DEF Working, ClaimInv, IInv, ReplayTypes
  <2>3. QED
    BY <1>1, <2>1, <2>2, ClaimsKept
<1>5. ASSUME NEW c \in Calls, DeliverEvents(c)
      PROVE  ClaimInv'
  <2>1. FinishApplied(c) \/ FinishLimited(c) \/ Fail(c) => Working(c)
    BY DEF FinishApplied, FinishLimited, Finished, Fail, Working
  <2>2. QED
    <3>1. CASE Working(c) /\ (FinishApplied(c) \/ FinishLimited(c) \/ Fail(c) \/ Abandon(c))
      BY <1>1, <3>1, ClaimEnds
    <3>2. CASE Claim(c)
      BY <1>2, <3>2
    <3>3. CASE (\E i \in Ids : Admit(c, i)) \/ RefuseClaim(c) \/ (~Working(c) /\ Abandon(c))
      BY <1>3, <3>3
    <3>4. CASE \/ \E m \in Issued : ChargePeer(c, m) \/ \E o \in Orgs : ChargeOrigin(c, o, m)
               \/ Walk(c)
      BY <1>4, <3>4
    <3>5. QED
      BY <1>5, <2>1, <3>1, <3>2, <3>3, <3>4 DEF DeliverEvents
<1>6. ASSUME ~\E c \in Calls : DeliverEvents(c)
      PROVE  ClaimInv'
  <2>1. UNCHANGED <<pc, env, consumed, broken>>
    BY <1>6 DEF Next, Send, SetInboundStatus, RemovePeer, Tick, SweepBatches, SweepEvents, SetPeerRateLimit,
           vars, peerVars, locals
  <2>2. \A i \in Ids : seen'[i] # Never => seen[i] # Never
    <3>1. CASE SweepBatches \/ RemovePeer
      BY <3>1 DEF SweepBatches, RemovePeer
    <3>2. CASE ~(SweepBatches \/ RemovePeer)
      BY <1>6, <3>2 DEF Next, Send, SetInboundStatus, Tick, SweepEvents, SetPeerRateLimit, vars
    <3>3. QED
      BY <3>1, <3>2
  <2>3. QED
    BY <1>1, <2>1, <2>2, ClaimsKept DEF Working
<1>7. QED
  BY <1>5, <1>6

\* Whatever the constants: a claim outlives its call only when the batch was
\* applied in full, or the call ended without being able to release it.
THEOREM ReceiverReleasesClaims == Spec => []OnlyBrokenCallsKeepTheirClaim
<1>1. ClaimInv => OnlyBrokenCallsKeepTheirClaim
  BY DEF ClaimInv
<1>2. QED
  BY <1>1, ClaimInit, ClaimStep, PTL DEF Spec

----------------------------------------------------------------------------
(* Types *)

\* TypeOK, with what it takes for granted of a call that is not at work: it
\* starts at the first event of its batch.
TableTypes ==
    /\ now \in Minutes
    /\ status \in {"approved", "waiting", "removed"}
    /\ override \in Overrides \cup {NoOverride}
    /\ seen \in [Ids -> Minutes \cup {Never}]
    /\ rows \in [Events -> [from : Ids, ends : Nat] \cup {NoRow}]
    /\ window \in [Accounts -> [start : Minutes \cup {Never}, count : Nat]]
    /\ sent \in [Ids -> [at : Int, events : Batches \cup {<<>>}]]
    /\ consumed \subseteq Ids /\ broken \subseteq Ids
    /\ stored \in [Accounts \X Minutes -> Nat]
    /\ faults \in Nat
LocalTypes ==
    /\ pc \in [Calls -> {"idle", "admitted", "claimed", "charged"}]
    /\ env \in [Calls -> Ids \cup {NoBatch}]
    /\ own \in [Calls -> Overrides \cup {NoOverride}]
    /\ budget \in [Calls -> [Accounts -> Nat]]
    /\ unpaid \in [Calls -> SUBSET Orgs]
    /\ receipt \in [Calls -> [accepted : Nat, rejected : Nat, limited : Nat]]
    /\ reached \in [Calls -> SUBSET Nat]
    /\ minute \in [Calls -> [Accounts -> Minutes \cup {Never}]]
NextTypes ==
    /\ next \in [Calls -> Nat]
    /\ \A c \in Calls : IF pc[c] = "idle" THEN next[c] = 1 ELSE next[c] \in 1..Len(Batch(c)) + 1
ReceiverTypes == TableTypes /\ LocalTypes /\ NextTypes

LEMMA MinutesAreNumbers == Minutes \subseteq Nat /\ 0 \in Minutes /\ Never \notin Nat
  BY WindowAssumption DEF Minutes, Never

LEMMA TypesInit == Init => ReceiverTypes
<1> SUFFICES ASSUME Init
             PROVE  ReceiverTypes
  OBVIOUS
<1>1. TableTypes
  BY MinutesAreNumbers DEF Init, TableTypes, NotSent, NoRow
<1>2. LocalTypes /\ NextTypes
  BY DEF Init, LocalTypes, NextTypes, NoReceipt
<1>3. QED
  BY <1>1, <1>2 DEF ReceiverTypes

LEMMA SentIsSequence ==
    ASSUME TableTypes, NEW i \in Ids
    PROVE  sent[i].events \in Seq(FederatedEvent) /\ Len(sent[i].events) \in Nat
<1>1. sent[i].events \in Batches \cup {<<>>}
  BY DEF TableTypes
<1>2. <<>> \in Seq(FederatedEvent)
  OBVIOUS
<1>3. sent[i].events \in Seq(FederatedEvent)
  BY <1>1, <1>2, BatchesAssumption
<1>4. QED
  BY <1>3

\* A batch is a sequence of events, and any part of it can be counted.
LEMMA BatchIsFinite ==
    ASSUME ReceiverTypes, IInv, NEW c \in Calls, pc[c] # "idle"
    PROVE  /\ env[c] \in Ids
           /\ Batch(c) \in Seq(FederatedEvent) /\ Len(Batch(c)) \in Nat /\ DOMAIN Batch(c) = 1..Len(Batch(c))
           /\ \A part \in SUBSET (DOMAIN Batch(c)) : Cardinality(part) \in Nat
<1>1. env[c] \in Ids
  BY DEF IInv, ReplayInv, EnvelopesAreSent
<1>2. Batch(c) \in Seq(FederatedEvent)
  BY <1>1, SentIsSequence DEF Batch, ReceiverTypes
<1>3. Len(Batch(c)) \in Nat /\ DOMAIN Batch(c) = 1..Len(Batch(c))
  BY <1>2
<1>4. IsFiniteSet(1..Len(Batch(c)))
  BY <1>3, FS_Interval
<1>5. \A part \in SUBSET (1..Len(Batch(c))) : Cardinality(part) \in Nat
  BY <1>4, FS_Subset, FS_CardinalityType
<1>6. QED
  BY <1>1, <1>2, <1>3, <1>5

\* An allowance never gives more than was asked, takes nothing back, and counts
\* what it gave.
LEMMA AllowanceTypes ==
    ASSUME TableTypes, NEW a \in Accounts, NEW m \in Minutes, NEW wanted \in Nat, NEW limit \in Int
    PROVE  /\ NewCount(a, m, wanted, limit) \in Nat
           /\ Allowed(a, m, wanted, limit) \in 0..wanted
           /\ Most(window[a].start, m) \in Minutes
<1>1. window[a].start \in Minutes \cup {Never} /\ window[a].count \in Nat /\ m \in Nat
  BY MinutesAreNumbers DEF TableTypes
<1>2. Used(a, m) \in Nat
  BY <1>1 DEF Used
<1>3. Most(window[a].start, m) \in Minutes
  BY <1>1, WindowAssumption DEF Most, Minutes, Never
<1>4. QED
  BY <1>2, <1>3 DEF NewCount, Allowed, Least, Most

LEMMA TakeAllowanceTypes ==
    ASSUME TableTypes, LocalTypes, NEW c \in Calls, NEW a \in Accounts, NEW m \in Minutes, NEW wanted \in Nat,
           NEW limit \in Int, TakeAllowance(c, a, m, wanted, limit)
    PROVE  /\ window' \in [Accounts -> [start : Minutes \cup {Never}, count : Nat]]
           /\ minute' \in [Calls -> [Accounts -> Minutes \cup {Never}]]
<1> DEFINE start == Most(window[a].start, m)
           count == NewCount(a, m, wanted, limit)
<1>1. start \in Minutes /\ count \in Nat
  BY AllowanceTypes
<1>2. /\ window' = [window EXCEPT ![a] = [start |-> start, count |-> count]]
      /\ minute' = [minute EXCEPT ![c][a] = start]
  BY DEF TakeAllowance
<1> HIDE DEF start, count
<1>3. QED
  BY <1>1, <1>2 DEF TableTypes, LocalTypes

\* A call that returns is as if it had never been.
LEMMA ReturnTypes ==
    ASSUME ReceiverTypes, NEW c \in Calls, Return(c), UNCHANGED sent
    PROVE  LocalTypes' /\ NextTypes'
<1>1. LocalTypes'
  BY DEF Return, ReceiverTypes, LocalTypes, NoReceipt
<1>2. NextTypes'
  BY DEF Return, ReceiverTypes, LocalTypes, NextTypes, Batch
<1>3. QED
  BY <1>1, <1>2

LEMMA TypesEnd ==
    ASSUME ReceiverTypes, IInv, NEW c \in Calls,
           RefuseClaim(c) \/ FinishApplied(c) \/ FinishLimited(c) \/ Fail(c) \/ Abandon(c)
    PROVE  ReceiverTypes'
<1>1. Return(c) /\ UNCHANGED <<sent, now, status, override, rows, window, stored>>
  BY DEF RefuseClaim, FinishApplied, FinishLimited, Fail, Abandon, peerVars
<1>2. pc[c] # "idle" /\ env[c] \in Ids
  <2>1. pc[c] # "idle"
    BY DEF RefuseClaim, FinishApplied, FinishLimited, Finished, Fail, Abandon
  <2>2. QED
    BY <2>1 DEF IInv, ReplayInv, EnvelopesAreSent
<1>3. /\ seen' \in [Ids -> Minutes \cup {Never}] /\ faults' \in Nat
      /\ consumed' \subseteq Ids /\ broken' \subseteq Ids
  <2>1. CASE FinishLimited(c) \/ Fail(c)
    <3>1. Release(c) /\ UNCHANGED consumed
      BY <2>1 DEF FinishLimited, Fail
    <3>2. /\ seen' = [seen EXCEPT ![env[c]] = Never] \/ seen' = seen
          /\ broken' = broken \cup {env[c]} \/ broken' = broken
          /\ faults' = faults + 1 \/ faults' = faults
      BY <3>1 DEF Release
    <3>3. seen' \in [Ids -> Minutes \cup {Never}]
      BY <1>2, <3>2 DEF ReceiverTypes, TableTypes
    <3>4. broken' \subseteq Ids /\ faults' \in Nat
      BY <1>2, <3>2 DEF ReceiverTypes, TableTypes
    <3>5. QED
      BY <3>1, <3>3, <3>4 DEF ReceiverTypes, TableTypes
  <2>2. CASE RefuseClaim(c) \/ FinishApplied(c) \/ Abandon(c)
    BY <1>2, <2>2 DEF RefuseClaim, FinishApplied, Abandon, ReceiverTypes, TableTypes
  <2>3. QED
    BY <2>1, <2>2
<1>4. QED
  BY <1>1, <1>3, ReturnTypes DEF ReceiverTypes, TableTypes

LEMMA TypesAdmission ==
    ASSUME ReceiverTypes, IInv, NEW c \in Calls, Claim(c) \/ \E i \in Ids : Admit(c, i)
    PROVE  ReceiverTypes'
<1>1. CASE Claim(c)
  <2>1. TableTypes'
    BY <1>1 DEF Claim, ReceiverTypes, TableTypes, peerVars
  <2>2. LocalTypes' /\ NextTypes'
    BY <1>1 DEF Claim, ReceiverTypes, LocalTypes, NextTypes, locals, Batch
  <2>3. QED
    BY <2>1, <2>2 DEF ReceiverTypes
<1>2. ASSUME NEW i \in Ids, Admit(c, i)
      PROVE  ReceiverTypes'
  <2>1. TableTypes'
    BY <1>2 DEF Admit, ReceiverTypes, TableTypes, peerVars
  <2>2. LocalTypes'
    BY <1>2 DEF Admit, ReceiverTypes, TableTypes, LocalTypes
  <2>3. NextTypes'
    <3>2. Len(sent[i].events) \in Nat
      BY SentIsSequence DEF ReceiverTypes
    <3>3. /\ UNCHANGED <<next, sent>> /\ next[c] = 1
          /\ pc' = [pc EXCEPT ![c] = "admitted"] /\ env' = [env EXCEPT ![c] = i]
      BY <1>2 DEF Admit, ReceiverTypes, NextTypes
    <3>4. QED
      BY <3>2, <3>3 DEF ReceiverTypes, LocalTypes, NextTypes, Batch
  <2>4. QED
    BY <2>1, <2>2, <2>3 DEF ReceiverTypes
<1>3. QED
  BY <1>1, <1>2

LEMMA TypesChargePeer ==
    ASSUME ReceiverTypes, IInv, NEW c \in Calls, NEW m \in Issued, ChargePeer(c, m)
    PROVE  ReceiverTypes'
<1> DEFINE limit == IF own[c] = NoOverride THEN PeerLimit ELSE own[c]
           wanted == Cardinality(Updates(Batch(c)))
           counted == limit > 0 /\ wanted > 0
           allowed == IF counted THEN Allowed(Peer, m, wanted, limit) ELSE wanted
           share == [o \in Orgs |-> Cardinality({i \in Admissible(Batch(c), allowed) : Batch(c)[i].org = o})]
<1>1. pc[c] = "claimed" /\ m \in Minutes /\ Peer \in Accounts /\ Orgs \subseteq Accounts
  BY DEF ChargePeer, Issued, Accounts
<1>2. wanted \in Nat /\ limit \in Int
  <2>1. Updates(Batch(c)) \subseteq DOMAIN Batch(c)
    BY DEF Updates
  <2>2. wanted \in Nat
    BY <1>1, <2>1, BatchIsFinite
  <2>3. limit \in Int
    BY LimitsAssumption DEF ReceiverTypes, LocalTypes
  <2>4. QED
    BY <2>2, <2>3
<1>3. allowed \in 0..wanted
  BY <1>1, <1>2, AllowanceTypes DEF ReceiverTypes
<1>4. \A o \in Orgs : share[o] \in Nat
  <2>1. \A o \in Orgs : {i \in Admissible(Batch(c), allowed) : Batch(c)[i].org = o} \subseteq DOMAIN Batch(c)
    BY DEF Admissible, Updates
  <2>2. QED
    BY <1>1, <2>1, BatchIsFinite
<1>5. /\ IF counted THEN TakeAllowance(c, Peer, m, wanted, limit) ELSE UNCHANGED <<window, minute>>
      /\ budget' = [budget EXCEPT ![c] = [a \in Accounts |-> IF a = Peer THEN allowed ELSE share[a]]]
      /\ unpaid' = [unpaid EXCEPT ![c] = {o \in Orgs : share[o] > 0}]
      /\ receipt' = [receipt EXCEPT ![c].limited = wanted - allowed]
      /\ pc' = [pc EXCEPT ![c] = "charged"]
      /\ UNCHANGED <<now, peerVars, seen, rows, sent, faults, env, own, next, reached, consumed, broken, stored>>
  BY DEF ChargePeer
<1>6. [a \in Accounts |-> IF a = Peer THEN allowed ELSE share[a]] \in [Accounts -> Nat]
  BY <1>2, <1>3, <1>4 DEF Accounts
<1>7. wanted - allowed \in Nat
  BY <1>2, <1>3
<1> HIDE DEF limit, wanted, counted, allowed, share
<1>8. /\ window' \in [Accounts -> [start : Minutes \cup {Never}, count : Nat]]
      /\ minute' \in [Calls -> [Accounts -> Minutes \cup {Never}]]
  <2>1. CASE counted
    BY <1>1, <1>2, <1>5, <2>1, TakeAllowanceTypes DEF ReceiverTypes
  <2>2. CASE ~counted
    BY <1>5, <2>2 DEF ReceiverTypes, TableTypes, LocalTypes
  <2>3. QED
    BY <2>1, <2>2
<1>9. TableTypes'
  BY <1>5, <1>8 DEF ReceiverTypes, TableTypes, peerVars
<1>10. LocalTypes'
  <2>1. budget' \in [Calls -> [Accounts -> Nat]] /\ unpaid' \in [Calls -> SUBSET Orgs]
    BY <1>5, <1>6 DEF ReceiverTypes, LocalTypes
  <2>2. receipt' \in [Calls -> [accepted : Nat, rejected : Nat, limited : Nat]]
    BY <1>5, <1>7 DEF ReceiverTypes, LocalTypes
  <2>3. QED
    BY <1>5, <1>8, <2>1, <2>2 DEF ReceiverTypes, LocalTypes
<1>11. NextTypes'
  BY <1>1, <1>5 DEF ReceiverTypes, LocalTypes, NextTypes, Batch
<1>12. QED
  BY <1>9, <1>10, <1>11 DEF ReceiverTypes

LEMMA TypesChargeOrigin ==
    ASSUME ReceiverTypes, NEW c \in Calls, NEW o \in Orgs, NEW m \in Issued, ChargeOrigin(c, o, m)
    PROVE  ReceiverTypes'
<1> DEFINE limit == IF OriginLimit <= 0 THEN Unlimited ELSE OriginLimit
           wanted == budget[c][o]
           allowed == Allowed(o, m, wanted, limit)
<1>1. m \in Minutes /\ o \in Accounts
  BY DEF Issued, Accounts
<1>2. wanted \in Nat /\ limit \in Int
  BY <1>1, LimitsAssumption DEF ReceiverTypes, LocalTypes, Unlimited
<1>3. allowed \in 0..wanted
  BY <1>1, <1>2, AllowanceTypes DEF ReceiverTypes
<1>4. /\ TakeAllowance(c, o, m, wanted, limit)
      /\ budget' = [budget EXCEPT ![c][o] = allowed]
      /\ unpaid' = [unpaid EXCEPT ![c] = @ \ {o}]
      /\ receipt' = [receipt EXCEPT ![c].limited = @ + wanted - allowed]
      /\ UNCHANGED <<now, peerVars, seen, rows, sent, faults, pc, env, own, next, reached, consumed, broken, stored>>
  BY DEF ChargeOrigin
<1> HIDE DEF limit, wanted, allowed
<1>5. /\ window' \in [Accounts -> [start : Minutes \cup {Never}, count : Nat]]
      /\ minute' \in [Calls -> [Accounts -> Minutes \cup {Never}]]
  BY <1>1, <1>2, <1>4, TakeAllowanceTypes DEF ReceiverTypes
<1>6. TableTypes'
  BY <1>4, <1>5 DEF ReceiverTypes, TableTypes, peerVars
<1>7. LocalTypes'
  <2>1. budget' \in [Calls -> [Accounts -> Nat]] /\ unpaid' \in [Calls -> SUBSET Orgs]
    BY <1>1, <1>2, <1>3, <1>4 DEF ReceiverTypes, LocalTypes
  <2>2. receipt[c].limited + wanted - allowed \in Nat
    BY <1>2, <1>3 DEF ReceiverTypes, LocalTypes
  <2>3. receipt' \in [Calls -> [accepted : Nat, rejected : Nat, limited : Nat]]
    BY <1>4, <2>2 DEF ReceiverTypes, LocalTypes
  <2>4. QED
    BY <1>4, <1>5, <2>1, <2>3 DEF ReceiverTypes, LocalTypes
<1>8. NextTypes'
  BY <1>4 DEF ReceiverTypes, NextTypes, Batch
<1>9. QED
  BY <1>6, <1>7, <1>8 DEF ReceiverTypes

LEMMA TypesWalk ==
    ASSUME ReceiverTypes, IInv, NEW c \in Calls, Walk(c)
    PROVE  ReceiverTypes'
<1>1. pc[c] = "charged" /\ next[c] \in DOMAIN Batch(c)
  BY DEF Walk, ApplyTombstone, SkipForRate, RejectInvalid, StoreUpdate, Walking
<1>2. /\ env[c] \in Ids /\ next[c] \in Nat /\ next[c] + 1 \in 1..Len(Batch(c)) + 1
      /\ Current(c) \in FederatedEvent
  BY <1>1, BatchIsFinite DEF Current
<1>3. Current(c).event \in Events /\ Current(c).org \in Orgs /\ Current(c).ends \in Nat
  BY <1>2 DEF FederatedEvent
<1>4. /\ UNCHANGED <<now, peerVars, seen, window, sent, faults, pc, env, own, unpaid, minute, consumed, broken>>
      /\ next' = [next EXCEPT ![c] = @ + 1]
  BY DEF Walk, ApplyTombstone, SkipForRate, RejectInvalid, StoreUpdate, Acted
<1>5. rows' \in [Events -> [from : Ids, ends : Nat] \cup {NoRow}] /\ stored' \in [Accounts \X Minutes -> Nat]
  <2>1. CASE StoreUpdate(c)
    <3>1. [from |-> env[c], ends |-> Current(c).ends] \in [from : Ids, ends : Nat]
      BY <1>2, <1>3
    <3>2. rows' = [rows EXCEPT ![Current(c).event] = [from |-> env[c], ends |-> Current(c).ends]]
      BY <2>1 DEF StoreUpdate
    <3> DEFINE taken(k) == k[1] \in {Peer, Current(c).org} /\ minute[c][k[1]] = k[2]
    <3>3. stored' = [k \in Accounts \X Minutes |-> IF taken(k) THEN stored[k] + 1 ELSE stored[k]]
      BY <2>1 DEF StoreUpdate, ReceiverTypes, TableTypes
    <3> HIDE DEF taken
    <3>4. QED
      BY <1>3, <3>1, <3>2, <3>3 DEF ReceiverTypes, TableTypes
  <2>2. CASE ApplyTombstone(c) \/ SkipForRate(c) \/ RejectInvalid(c)
    BY <1>3, <2>2 DEF ApplyTombstone, SkipForRate, RejectInvalid, ReceiverTypes, TableTypes
  <2>3. QED
    BY <2>1, <2>2 DEF Walk
<1>6. budget' \in [Calls -> [Accounts -> Nat]]
  <2>1. CASE RejectInvalid(c) \/ StoreUpdate(c)
    <3>1. Spend(c) /\ ~OverBudget(c)
      BY <2>1 DEF RejectInvalid, StoreUpdate
    <3>2. Peer \in Accounts /\ Current(c).org \in Accounts /\ Peer # Current(c).org
      BY <1>3, AccountsAssumption DEF Accounts
    <3>3. budget[c][Peer] - 1 \in Nat /\ budget[c][Current(c).org] - 1 \in Nat
      BY <3>1, <3>2 DEF OverBudget, ReceiverTypes, LocalTypes
    <3>4. budget' = [budget EXCEPT ![c] = [@ EXCEPT ![Peer] = budget[c][Peer] - 1,
                                                    ![Current(c).org] = budget[c][Current(c).org] - 1]]
      BY <3>1, <3>2 DEF Spend, ReceiverTypes, LocalTypes
    <3>5. QED
      BY <3>2, <3>3, <3>4 DEF ReceiverTypes, LocalTypes
  <2>2. CASE ApplyTombstone(c) \/ SkipForRate(c)
    BY <2>2 DEF ApplyTombstone, SkipForRate, ReceiverTypes, LocalTypes
  <2>3. QED
    BY <2>1, <2>2 DEF Walk
<1>7. receipt' \in [Calls -> [accepted : Nat, rejected : Nat, limited : Nat]] /\ reached' \in [Calls -> SUBSET Nat]
  <2>1. reached' = reached \/ reached' = [reached EXCEPT ![c] = @ \cup {next[c]}]
    BY DEF Walk, ApplyTombstone, SkipForRate, RejectInvalid, StoreUpdate, Acted
  <2>2. \/ receipt' = receipt
        \/ receipt' = [receipt EXCEPT ![c].accepted = @ + 1]
        \/ receipt' = [receipt EXCEPT ![c].rejected = @ + 1]
    <3>1. CASE ApplyTombstone(c)
      BY <3>1 DEF ApplyTombstone
    <3>2. CASE SkipForRate(c) \/ RejectInvalid(c) \/ StoreUpdate(c)
      BY <3>2 DEF SkipForRate, RejectInvalid, StoreUpdate
    <3>3. QED
      BY <3>1, <3>2 DEF Walk
  <2>3. reached' \in [Calls -> SUBSET Nat]
    <3>1. reached[c] \cup {next[c]} \in SUBSET Nat /\ reached \in [Calls -> SUBSET Nat]
      BY <1>2 DEF ReceiverTypes, LocalTypes
    <3>2. CASE reached' = reached
      BY <3>1, <3>2
    <3>3. CASE reached' = [reached EXCEPT ![c] = @ \cup {next[c]}]
      BY <3>1, <3>3
    <3>4. QED
      BY <2>1, <3>2, <3>3
  <2>4. receipt' \in [Calls -> [accepted : Nat, rejected : Nat, limited : Nat]]
    <3>1. /\ receipt \in [Calls -> [accepted : Nat, rejected : Nat, limited : Nat]]
          /\ receipt[c].accepted + 1 \in Nat /\ receipt[c].rejected + 1 \in Nat
      BY DEF ReceiverTypes, LocalTypes
    <3>2. CASE receipt' = receipt
      BY <3>1, <3>2
    <3>3. CASE receipt' = [receipt EXCEPT ![c].accepted = @ + 1]
      BY <3>1, <3>3
    <3>4. CASE receipt' = [receipt EXCEPT ![c].rejected = @ + 1]
      BY <3>1, <3>4
    <3>5. QED
      BY <2>2, <3>2, <3>3, <3>4
  <2>5. QED
    BY <2>3, <2>4
<1>8. TableTypes'
  BY <1>4, <1>5 DEF ReceiverTypes, TableTypes, peerVars
<1>9. LocalTypes'
  BY <1>4, <1>6, <1>7 DEF ReceiverTypes, LocalTypes
<1>10. NextTypes'
  BY <1>1, <1>2, <1>4 DEF ReceiverTypes, NextTypes, Batch
<1>11. QED
  BY <1>8, <1>9, <1>10 DEF ReceiverTypes

LEMMA TypesOther ==
    ASSUME ReceiverTypes, IInv, [Next]_vars, ~\E c \in Calls : DeliverEvents(c)
    PROVE  ReceiverTypes'
<1>1. CASE UNCHANGED vars
  BY <1>1 DEF vars, peerVars, locals, ReceiverTypes, TableTypes, LocalTypes, NextTypes, Batch
<1>2. ASSUME NEW i \in Ids, NEW b \in Batches, NEW at \in (now - MaxSkew)..(now + MaxSkew), Send(i, b, at)
      PROVE  ReceiverTypes'
  <2>1. at \in Int
    OBVIOUS
  <2>2. TableTypes' /\ LocalTypes'
    BY <1>2, <2>1 DEF Send, peerVars, locals, ReceiverTypes, TableTypes, LocalTypes
  <2>3. \A c \in Calls : pc[c] # "idle" => Batch(c)' = Batch(c)
    BY <1>2 DEF Send, locals, IInv, ReplayInv, EnvelopesAreSent, ReceiverTypes, TableTypes, Batch
  <2>4. NextTypes'
    BY <1>2, <2>3 DEF Send, locals, ReceiverTypes, NextTypes
  <2>5. QED
    BY <2>2, <2>4 DEF ReceiverTypes
<1>3. CASE \/ SetInboundStatus \/ RemovePeer \/ Tick \/ SweepBatches \/ SweepEvents
           \/ \E limit \in Overrides \cup {NoOverride} : SetPeerRateLimit(limit)
  <2>1. UNCHANGED <<sent, pc, locals>>
    BY <1>3 DEF SetInboundStatus, RemovePeer, Tick, SweepBatches, SweepEvents, SetPeerRateLimit
  <2>2. LocalTypes' /\ NextTypes'
    BY <2>1 DEF locals, ReceiverTypes, LocalTypes, NextTypes, Batch
  <2>3. TableTypes'
    <3>1. CASE SetInboundStatus \/ \E limit \in Overrides \cup {NoOverride} : SetPeerRateLimit(limit)
      BY <3>1 DEF SetInboundStatus, SetPeerRateLimit, ReceiverTypes, TableTypes
    <3>2. CASE RemovePeer
      BY <3>2, MinutesAreNumbers DEF RemovePeer, ReceiverTypes, TableTypes
    <3>3. CASE Tick
      <4>1. now' \in Minutes
        BY <3>3, WindowAssumption DEF Tick, ReceiverTypes, TableTypes, Minutes
      <4>2. QED
        BY <3>3, <4>1 DEF Tick, peerVars, ReceiverTypes, TableTypes
    <3>4. CASE SweepBatches \/ SweepEvents
      BY <3>4 DEF SweepBatches, SweepEvents, peerVars, ReceiverTypes, TableTypes
    <3>5. QED
      BY <1>3, <3>1, <3>2, <3>3, <3>4
  <2>4. QED
    BY <2>2, <2>3 DEF ReceiverTypes
<1>4. QED
  BY <1>1, <1>2, <1>3 DEF Next

LEMMA TypesStep ==
    ASSUME ReceiverTypes, IInv, [Next]_vars
    PROVE  ReceiverTypes'
<1>1. ASSUME NEW c \in Calls, DeliverEvents(c)
      PROVE  ReceiverTypes'
  BY <1>1, TypesEnd, TypesAdmission, TypesChargePeer, TypesChargeOrigin, TypesWalk DEF DeliverEvents
<1>2. QED
  BY <1>1, TypesOther

\* Whatever the constants, every variable of a receiver holds what its column
\* or its local can hold: no allowance, budget or receipt goes below zero, and
\* no call walks off its batch.
THEOREM ReceiverTypeOK == Spec => []TypeOK
<1>1. ReceiverTypes => TypeOK
  BY DEF ReceiverTypes, TableTypes, LocalTypes, NextTypes, TypeOK
<1>2. QED
  BY <1>1, TypesInit, TypesStep, ReplayInit, ReplayStep, PTL DEF Spec

----------------------------------------------------------------------------
(* Deletions *)

\* A call starts at the first event, and has acted on the tombstones it passed.
PassedTombstones(c) ==
    /\ pc[c] # "charged" => next[c] = 1
    /\ pc[c] # "idle" => \A i \in DOMAIN Batch(c) : i < next[c] /\ Batch(c)[i].deleted => i \in reached[c]
TombstonesInv == \A c \in Calls : PassedTombstones(c)

LEMMA TombstonesInit == Init => TombstonesInv
  BY DEF Init, TombstonesInv, PassedTombstones

\* A call whose locals do not change, and one that is at its first event.
LEMMA TombstonesQuiet ==
    ASSUME NEW c \in Calls, PassedTombstones(c), pc[c] # "idle" => Batch(c)' = Batch(c),
           UNCHANGED <<pc[c], next[c], reached[c]>>
    PROVE  PassedTombstones(c)'
  BY DEF PassedTombstones

LEMMA TombstonesAtFirst ==
    ReceiverTypes /\ IInv => \A c \in Calls : next[c] = 1 => PassedTombstones(c)
<1> SUFFICES ASSUME ReceiverTypes, IInv, NEW c \in Calls, next[c] = 1
             PROVE  PassedTombstones(c)
  OBVIOUS
<1>1. CASE pc[c] = "idle"
  BY <1>1 DEF PassedTombstones
<1>2. CASE pc[c] # "idle"
  BY <1>2, BatchIsFinite DEF PassedTombstones
<1>3. QED
  BY <1>1, <1>2

\* Another call's step leaves this one's locals alone.
LEMMA CallsAreApart ==
    ASSUME ReceiverTypes, NEW c \in Calls, DeliverEvents(c), NEW d \in Calls, d # c
    PROVE  UNCHANGED <<pc[d], next[d], reached[d], env[d], sent>>
<1>1. UNCHANGED <<pc[d], env[d], sent>>
  BY DEF DeliverEvents, Admit, Claim, RefuseClaim, ChargePeer, ChargeOrigin, Walk, ApplyTombstone,
     SkipForRate, RejectInvalid, StoreUpdate, FinishApplied, FinishLimited, Fail, Abandon, Return,
     locals, ReceiverTypes, LocalTypes
<1>2. UNCHANGED <<next[d], reached[d]>>
  BY DEF DeliverEvents, Admit, Claim, RefuseClaim, ChargePeer, ChargeOrigin, Walk, ApplyTombstone,
     SkipForRate, RejectInvalid, StoreUpdate, FinishApplied, FinishLimited, Fail, Abandon, Return,
     Acted, locals, ReceiverTypes, LocalTypes, NextTypes
<1>3. QED
  BY <1>1, <1>2

\* Only a turn of the walk passes an event: it acts on it, or it is an update.
LEMMA TombstonesWalk ==
    ASSUME ReceiverTypes, IInv, TombstonesInv, NEW c \in Calls, Walk(c)
    PROVE  PassedTombstones(c)'
<1>1. pc[c] = "charged" /\ next[c] \in DOMAIN Batch(c)
  BY DEF Walk, ApplyTombstone, SkipForRate, RejectInvalid, StoreUpdate, Walking
<1>2. UNCHANGED <<sent, pc, env>> /\ next' = [next EXCEPT ![c] = @ + 1]
  BY DEF Walk, ApplyTombstone, SkipForRate, RejectInvalid, StoreUpdate, Acted
<1>3. /\ reached[c] \subseteq reached'[c]
      /\ Batch(c)[next[c]].deleted => next[c] \in reached'[c]
  <2>1. CASE SkipForRate(c)
    BY <2>1 DEF SkipForRate, Current
  <2>2. CASE ApplyTombstone(c) \/ RejectInvalid(c) \/ StoreUpdate(c)
    <3>1. reached' = [reached EXCEPT ![c] = @ \cup {next[c]}]
      BY <2>2 DEF ApplyTombstone, RejectInvalid, StoreUpdate, Acted
    <3>2. QED
      BY <3>1 DEF ReceiverTypes, LocalTypes
  <2>3. QED
    BY <2>1, <2>2 DEF Walk
<1>4. next'[c] = next[c] + 1 /\ next[c] \in Nat /\ DOMAIN Batch(c) \subseteq Nat
  BY <1>1, <1>2, BatchIsFinite DEF ReceiverTypes, NextTypes
<1>5. \A i \in DOMAIN Batch(c) : i < next[c] /\ Batch(c)[i].deleted => i \in reached[c]
  BY <1>1 DEF TombstonesInv, PassedTombstones
<1>6. \A i \in DOMAIN Batch(c) : i < next'[c] => i < next[c] \/ i = next[c]
  BY <1>4
<1>7. Batch(c)' = Batch(c) /\ pc'[c] = "charged"
  BY <1>1, <1>2 DEF Batch
<1>8. QED
  BY <1>3, <1>5, <1>6, <1>7 DEF PassedTombstones

LEMMA TombstonesStep ==
    ASSUME ReceiverTypes, IInv, TombstonesInv, [Next]_vars, ReceiverTypes', IInv'
    PROVE  TombstonesInv'
<1>1. \A c \in Calls : next'[c] = 1 => PassedTombstones(c)'
  <2>1. ReceiverTypes' /\ IInv' => (\A c \in Calls : next[c] = 1 => PassedTombstones(c))'
    BY TombstonesAtFirst, PTL
  <2>2. QED
    BY <2>1
<1>2. ASSUME NEW c \in Calls, DeliverEvents(c)
      PROVE  PassedTombstones(c)'
  <2>1. CASE Walk(c)
    BY <2>1, TombstonesWalk
  <2>2. CASE \/ \E i \in Ids : Admit(c, i)
             \/ Claim(c) \/ \E m \in Issued : ChargePeer(c, m)
    <3>1. pc[c] # "charged" /\ UNCHANGED next
      BY <2>2 DEF Admit, Claim, ChargePeer, locals
    <3>2. next[c] = 1
      BY <3>1 DEF TombstonesInv, PassedTombstones
    <3>3. QED
      BY <1>1, <3>1, <3>2
  <2>3. CASE \E m \in Issued : \E o \in Orgs : ChargeOrigin(c, o, m)
    <3>1. UNCHANGED <<sent, env, pc, next, reached>>
      BY <2>3 DEF ChargeOrigin
    <3>2. QED
      BY <3>1, TombstonesQuiet DEF TombstonesInv, Batch
  <2>4. CASE RefuseClaim(c) \/ FinishApplied(c) \/ FinishLimited(c) \/ Fail(c) \/ Abandon(c)
    <3>1. next' = [next EXCEPT ![c] = 1]
      BY <2>4 DEF RefuseClaim, FinishApplied, FinishLimited, Fail, Abandon, Return
    <3>2. QED
      BY <1>1, <3>1 DEF ReceiverTypes, NextTypes
  <2>5. QED
    BY <1>2, <2>1, <2>2, <2>3, <2>4 DEF DeliverEvents
<1>3. ASSUME NEW c \in Calls, DeliverEvents(c), NEW d \in Calls, d # c
      PROVE  PassedTombstones(d)'
  BY <1>3, CallsAreApart, TombstonesQuiet DEF TombstonesInv, Batch
<1>4. ASSUME ~\E c \in Calls : DeliverEvents(c), NEW d \in Calls
      PROVE  PassedTombstones(d)'
  <2>1. UNCHANGED <<pc, next, reached, env>>
    BY <1>4 DEF Next, vars, Send, SetInboundStatus, RemovePeer, SetPeerRateLimit, Tick, SweepBatches,
       SweepEvents, locals
  <2>2. pc[d] # "idle" => sent'[env[d]] = sent[env[d]]
    BY <1>4 DEF Next, vars, Send, SetInboundStatus, RemovePeer, SetPeerRateLimit, Tick, SweepBatches,
       SweepEvents, IInv, ReplayInv, EnvelopesAreSent, ReceiverTypes, TableTypes
  <2>3. QED
    BY <2>1, <2>2, TombstonesQuiet DEF TombstonesInv, Batch
<1>5. QED
  BY <1>2, <1>3, <1>4 DEF TombstonesInv

LEMMA TombstonesAreReached == ReceiverTypes /\ IInv /\ TombstonesInv => ActsOnTombstones
<1> SUFFICES ASSUME ReceiverTypes, IInv, TombstonesInv, NEW c \in Calls, Finished(c),
                    NEW i \in DOMAIN Batch(c), Batch(c)[i].deleted
             PROVE  i \in reached[c]
  BY DEF ActsOnTombstones, Updates
<1>1. pc[c] = "charged" /\ next[c] \notin DOMAIN Batch(c)
  BY DEF Finished
<1>2. DOMAIN Batch(c) = 1..Len(Batch(c)) /\ Len(Batch(c)) \in Nat
  BY <1>1, BatchIsFinite
<1>3. next[c] \in 1..Len(Batch(c)) + 1
  BY <1>1 DEF ReceiverTypes, NextTypes
<1>4. i < next[c]
  BY <1>1, <1>2, <1>3
<1>5. QED
  BY <1>1, <1>4 DEF TombstonesInv, PassedTombstones

\* Whatever the constants, a call that comes to the end of its batch has acted
\* on each tombstone in it, whatever its allowances were.
THEOREM ReceiverActsOnTombstones == Spec => []ActsOnTombstones
  BY TombstonesAreReached, TombstonesInit, TombstonesStep, TypesInit, TypesStep, ReplayInit, ReplayStep,
     PTL DEF Spec

----------------------------------------------------------------------------
(* The allowances *)

\* What calls may still store on the allowance of a minute, one pair for each.
Owed(a, m) == {p \in Calls \X Nat : minute[p[1]][a] = m /\ p[2] \in 1..budget[p[1]][a]}
Counted(a, m) == stored[<<a, m>>] + Cardinality(Owed(a, m))

\* The window has counted what was stored in its minute and what still may be.
WindowHolds(a, m) ==
    /\ IsFiniteSet(Owed(a, m))
    /\ WithinLimit(a, Counted(a, m)) /\ WithinLimit(a, window[a].count)
    /\ window[a].start = m => Counted(a, m) <= window[a].count
    /\ window[a].start < m => stored[<<a, m>>] = 0 /\ Owed(a, m) = {}

UncountedYet == \A c \in Calls, a \in Accounts :
    pc[c] # "charged" \/ a \in unpaid[c] => minute[c][a] = Never

RateInv ==
    /\ NeverOverLimit /\ UncountedYet
    /\ status # "removed" => \A a \in Accounts, m \in Minutes : WindowHolds(a, m)

LEMMA LimitsAreNumbers == \A a \in Accounts : Limits(a) \subseteq Int
  BY LimitsAssumption DEF Limits, Unlimited

LEMMA WithinLess ==
    ASSUME NEW a \in Accounts, NEW n \in Nat, NEW k \in 0..n, WithinLimit(a, n)
    PROVE  WithinLimit(a, k)
<1>1. CASE n = 0
  BY <1>1 DEF WithinLimit
<1>2. ASSUME NEW limit \in Limits(a), n <= limit
      PROVE  WithinLimit(a, k)
  <2>1. limit \in Int
    BY LimitsAreNumbers
  <2>2. k <= limit
    BY <1>2, <2>1
  <2>3. QED
    BY <2>2 DEF WithinLimit
<1>3. QED
  BY <1>1, <1>2 DEF WithinLimit

LEMMA RateInit == Init => RateInv
<1> SUFFICES ASSUME Init
             PROVE  RateInv
  OBVIOUS
<1>1. \A c \in Calls, a \in Accounts : minute[c][a] = Never
  BY DEF Init
<1>2. \A a \in Accounts, m \in Minutes : stored[<<a, m>>] = 0 /\ window[a].count = 0 /\ window[a].start = Never
  BY DEF Init
<1>3. \A a \in Accounts, m \in Minutes : Owed(a, m) = {}
  BY <1>1, MinutesAreNumbers DEF Owed
<1>4. \A a \in Accounts, m \in Minutes : Counted(a, m) = 0
  <2> SUFFICES ASSUME NEW a \in Accounts, NEW m \in Minutes
               PROVE  Counted(a, m) = 0
    OBVIOUS
  <2>1. Owed(a, m) = {} /\ stored[<<a, m>>] = 0
    BY <1>2, <1>3
  <2>2. Cardinality(Owed(a, m)) = 0
    BY <2>1, FS_EmptySet
  <2>3. QED
    BY <2>1, <2>2 DEF Counted
<1>5. \A a \in Accounts, m \in Minutes : WindowHolds(a, m)
  BY <1>2, <1>3, <1>4, FS_EmptySet, MinutesAreNumbers DEF WindowHolds, WithinLimit
<1>6. QED
  BY <1>1, <1>2, <1>5 DEF RateInv, NeverOverLimit, WithinLimit, UncountedYet

\* A call whose minute has not moved owes no more than it did.
LEMMA OwedKept ==
    ASSUME ReceiverTypes, ReceiverTypes', NEW a \in Accounts, NEW m \in Minutes,
           \A d \in Calls : minute'[d][a] = m => minute[d][a] = m /\ budget'[d][a] <= budget[d][a]
    PROVE  Owed(a, m)' \subseteq Owed(a, m)
<1>1. \A d \in Calls : budget[d][a] \in Nat /\ budget'[d][a] \in Nat
  BY DEF ReceiverTypes, LocalTypes
<1>2. ASSUME NEW d \in Calls, NEW i \in Nat, minute'[d][a] = m, i \in 1..budget'[d][a]
      PROVE  minute[d][a] = m /\ i \in 1..budget[d][a]
  BY <1>1, <1>2
<1>3. Owed(a, m)' = {p \in Calls \X Nat : minute'[p[1]][a] = m /\ p[2] \in 1..budget'[p[1]][a]}
  BY DEF Owed
<1>4. QED
  BY <1>2, <1>3 DEF Owed

LEMMA WindowKept ==
    ASSUME ReceiverTypes, NEW a \in Accounts, NEW m \in Minutes, WindowHolds(a, m),
           Owed(a, m)' \subseteq Owed(a, m), window'[a] = window[a],
           stored'[<<a, m>>] = stored[<<a, m>>]
    PROVE  WindowHolds(a, m)'
<1>1. IsFiniteSet(Owed(a, m)) /\ IsFiniteSet(Owed(a, m)') /\ Cardinality(Owed(a, m)') <= Cardinality(Owed(a, m))
  BY FS_Subset DEF WindowHolds
<1>2. Cardinality(Owed(a, m)) \in Nat /\ Cardinality(Owed(a, m)') \in Nat /\ stored[<<a, m>>] \in Nat
  BY <1>1, FS_CardinalityType DEF ReceiverTypes, TableTypes
<1>3. Counted(a, m) \in Nat /\ Counted(a, m)' \in 0..Counted(a, m)
  BY <1>1, <1>2 DEF Counted
<1>4. WithinLimit(a, Counted(a, m)')
  BY <1>3, WithinLess DEF WindowHolds
<1>5. window[a].count \in Nat
  BY DEF ReceiverTypes, TableTypes
<1>6. QED
  BY <1>1, <1>3, <1>4, <1>5 DEF WindowHolds, WithinLimit, Limits

\* The one statement takes for a call what its limit leaves of the minute.
LEMMA AllowanceTaken ==
    ASSUME ReceiverTypes, ReceiverTypes', NEW c \in Calls, NEW a \in Accounts, NEW m0 \in Minutes,
           NEW wanted \in Nat, NEW limit \in Limits(a), TakeAllowance(c, a, m0, wanted, limit),
           budget'[c][a] = Allowed(a, m0, wanted, limit),
           \A d \in Calls \ {c} : budget'[d][a] = budget[d][a],
           minute[c][a] = Never, UNCHANGED stored, \A m \in Minutes : WindowHolds(a, m)
    PROVE  \A m \in Minutes : WindowHolds(a, m)'
<1> DEFINE start == Most(window[a].start, m0)
           count == NewCount(a, m0, wanted, limit)
           k == Allowed(a, m0, wanted, limit)
<1>1. limit \in Int /\ count \in Nat /\ k \in Nat /\ start \in Minutes /\ m0 \in Nat
  BY LimitsAreNumbers, AllowanceTypes, MinutesAreNumbers DEF ReceiverTypes
<1>2. window[a].count \in Nat /\ window[a].start \in Int
  <2>1. window[a].count \in Nat /\ window[a].start \in Minutes \cup {Never}
    BY DEF ReceiverTypes, TableTypes
  <2>2. Minutes \subseteq Int /\ Never \in Int
    BY MinutesAreNumbers DEF Never
  <2>3. QED
    BY <2>1, <2>2
<1>3. /\ window'[a].start = start /\ window'[a].count = count
      /\ minute'[c][a] = start /\ \A d \in Calls \ {c} : minute'[d][a] = minute[d][a]
  BY DEF TakeAllowance, ReceiverTypes, TableTypes, LocalTypes
<1>4. WithinLimit(a, count)
  <2>1. CASE count <= limit
    BY <2>1 DEF WithinLimit
  <2>2. CASE ~(count <= limit)
    <3>1. count \in 0..window[a].count
      BY <1>1, <1>2, <2>2 DEF NewCount, Used, Least, Most
    <3>2. QED
      BY <1>1, <1>2, <3>1, WithinLess DEF WindowHolds
  <2>3. QED
    BY <2>1, <2>2
<1>5. k = count - Used(a, m0)
  BY DEF Allowed
<1>6. IF window[a].start < m0 THEN start = m0 /\ Used(a, m0) = 0
      ELSE start = window[a].start /\ Used(a, m0) = window[a].count
  BY <1>1, <1>2 DEF Most, Used
<1>7. Never \notin Minutes /\ start >= window[a].start /\ Minutes \subseteq Nat
  <2>1. start >= window[a].start
    BY <1>1, <1>2 DEF Most
  <2>2. QED
    BY <2>1, MinutesAreNumbers
<1> HIDE DEF start, count, k
<1>8. ASSUME NEW m \in Minutes, m # start
      PROVE  WindowHolds(a, m)'
  <2>1. Owed(a, m)' \subseteq Owed(a, m)
    <3>1. \A d \in Calls : minute'[d][a] = m => minute[d][a] = m /\ budget'[d][a] <= budget[d][a]
      <4>1. \A d \in Calls : budget[d][a] \in Nat
        BY DEF ReceiverTypes, LocalTypes
      <4>2. QED
        BY <1>3, <1>7, <1>8, <4>1
    <3>2. QED
      BY <3>1, OwedKept
  <2>2. IsFiniteSet(Owed(a, m)) /\ IsFiniteSet(Owed(a, m)') /\ Cardinality(Owed(a, m)') <= Cardinality(Owed(a, m))
    BY <2>1, FS_Subset DEF WindowHolds
  <2>3. Cardinality(Owed(a, m)) \in Nat /\ Cardinality(Owed(a, m)') \in Nat /\ stored[<<a, m>>] \in Nat
    BY <2>2, FS_CardinalityType DEF ReceiverTypes, TableTypes
  <2>4. Counted(a, m) \in Nat /\ Counted(a, m)' \in 0..Counted(a, m)
    BY <2>2, <2>3 DEF Counted
  <2>5. WithinLimit(a, Counted(a, m)')
    BY <2>4, WithinLess DEF WindowHolds
  <2>6. start < m => window[a].start < m
    <3>1. m \in Nat /\ start \in Nat
      BY <1>1, <1>7
    <3>2. QED
      BY <1>2, <1>7, <3>1
  <2>7. QED
    BY <1>3, <1>4, <1>8, <2>1, <2>2, <2>5, <2>6 DEF WindowHolds, WithinLimit, Limits
<1>9. ASSUME NEW m \in Minutes, m = start
      PROVE  WindowHolds(a, m)'
  <2> DEFINE new == {c} \X (1..k)
  <2>1. IsFiniteSet(new) /\ Cardinality(new) = k
    <3>1. IsFiniteSet(1..k) /\ Cardinality(1..k) = k
      BY <1>1, FS_Interval
    <3>2. IsFiniteSet({c}) /\ Cardinality({c}) = 1
      BY FS_Singleton
    <3>3. IsFiniteSet(new) /\ Cardinality(new) = Cardinality({c}) * Cardinality(1..k)
      BY <3>1, <3>2, FS_Product
    <3>4. QED
      BY <1>1, <3>1, <3>2, <3>3
  <2>2. Owed(a, m)' = Owed(a, m) \cup new /\ Owed(a, m) \cap new = {}
    <3>1. Owed(a, m)' = {p \in Calls \X Nat : minute'[p[1]][a] = m /\ p[2] \in 1..budget'[p[1]][a]}
      BY DEF Owed
    <3>2. budget'[c][a] = k /\ minute[c][a] # m
      BY <1>1, <1>7, <1>9 DEF k
    <3>3. new = {p \in Calls \X Nat : p[1] = c /\ p[2] \in 1..k}
      BY <1>1
    <3> HIDE DEF new
    <3>4. QED
      BY <1>3, <1>9, <3>1, <3>2, <3>3 DEF Owed
  <2>3. IsFiniteSet(Owed(a, m)) /\ Cardinality(Owed(a, m)) \in Nat
    BY <1>1, FS_CardinalityType DEF WindowHolds
  <2> HIDE DEF new
  <2>4. IsFiniteSet(Owed(a, m)') /\ Cardinality(Owed(a, m)') = Cardinality(Owed(a, m)) + k
    BY <1>1, <2>1, <2>2, <2>3, FS_Union, FS_EmptySet
  <2>5. stored[<<a, m>>] \in Nat /\ Counted(a, m)' = Counted(a, m) + k /\ Counted(a, m) \in Nat
    <3>1. stored[<<a, m>>] \in Nat /\ stored'[<<a, m>>] = stored[<<a, m>>]
      BY DEF ReceiverTypes, TableTypes
    <3>2. QED
      BY <1>1, <2>3, <2>4, <3>1 DEF Counted
  <2>6. Counted(a, m)' <= count
    <3>1. CASE window[a].start < m0
      <4>1. stored[<<a, m>>] = 0 /\ Owed(a, m) = {}
        BY <1>1, <1>6, <1>9, <3>1 DEF WindowHolds
      <4>2. Counted(a, m) = 0
        BY <4>1, FS_EmptySet DEF Counted
      <4>3. QED
        BY <1>1, <1>5, <1>6, <2>5, <3>1, <4>2
    <3>2. CASE ~(window[a].start < m0)
      <4>1. Counted(a, m) <= window[a].count
        BY <1>1, <1>6, <1>9, <3>2 DEF WindowHolds
      <4>2. QED
        BY <1>1, <1>2, <1>5, <1>6, <2>5, <3>2, <4>1
    <3>3. QED
      BY <3>1, <3>2
  <2>7. WithinLimit(a, Counted(a, m)')
    BY <1>1, <1>4, <2>5, <2>6, WithinLess
  <2>8. ~(m < m)
    BY <1>1, <1>7
  <2>9. QED
    BY <1>3, <1>4, <1>9, <2>4, <2>6, <2>7, <2>8 DEF WindowHolds, WithinLimit, Limits
<1>10. QED
  BY <1>8, <1>9

LEMMA LocalsAreApart ==
    ASSUME ReceiverTypes, NEW c \in Calls, DeliverEvents(c), NEW d \in Calls, d # c
    PROVE  UNCHANGED <<budget[d], unpaid[d], minute[d], receipt[d]>>
<1>1. UNCHANGED <<budget[d], unpaid[d]>>
  BY DEF DeliverEvents, Admit, Claim, RefuseClaim, ChargePeer, ChargeOrigin, Walk, ApplyTombstone,
     SkipForRate, RejectInvalid, StoreUpdate, FinishApplied, FinishLimited, Fail, Abandon, Return,
     Spend, locals, ReceiverTypes, LocalTypes
<1>2. UNCHANGED minute[d]
  BY DEF DeliverEvents, Admit, Claim, RefuseClaim, ChargePeer, ChargeOrigin, TakeAllowance, Walk,
     ApplyTombstone, SkipForRate, RejectInvalid, StoreUpdate, FinishApplied, FinishLimited, Fail,
     Abandon, Return, locals, ReceiverTypes, LocalTypes
<1>3. UNCHANGED receipt[d]
  BY DEF DeliverEvents, Admit, Claim, RefuseClaim, ChargePeer, ChargeOrigin, Walk, ApplyTombstone,
     SkipForRate, RejectInvalid, StoreUpdate, FinishApplied, FinishLimited, Fail, Abandon, Return,
     locals, ReceiverTypes, LocalTypes
<1>4. QED
  BY <1>1, <1>2, <1>3

\* A step that takes no allowance and stores nothing.
LEMMA RateQuiet ==
    ASSUME ReceiverTypes, ReceiverTypes', RateInv, UncountedYet', UNCHANGED <<window, stored>>,
           status' # "removed" => status # "removed",
           \A d \in Calls, a \in Accounts :
                minute'[d][a] = Never \/ (minute'[d][a] = minute[d][a] /\ budget'[d][a] <= budget[d][a])
    PROVE  RateInv'
<1>1. ASSUME status' # "removed", NEW a \in Accounts, NEW m \in Minutes
      PROVE  WindowHolds(a, m)'
  <2>1. Owed(a, m)' \subseteq Owed(a, m)
    BY OwedKept, MinutesAreNumbers
  <2>2. QED
    BY <1>1, <2>1, WindowKept DEF RateInv
<1>2. NeverOverLimit'
  BY DEF RateInv, NeverOverLimit, WithinLimit, Limits
<1>3. QED
  BY <1>1, <1>2 DEF RateInv

\* Whatever the locals of a call are, it has counted nothing before it is charged.
LEMMA RateSettled ==
    ASSUME ReceiverTypes, ReceiverTypes', RateInv, NEW c \in Calls,
           \/ \E i \in Ids : Admit(c, i)
           \/ Claim(c) \/ RefuseClaim(c) \/ FinishApplied(c) \/ FinishLimited(c) \/ Fail(c) \/ Abandon(c)
           \/ ApplyTombstone(c) \/ SkipForRate(c)
    PROVE  RateInv'
<1>1. UNCHANGED <<window, stored, status>>
  BY DEF Admit, Claim, RefuseClaim, FinishApplied, FinishLimited, Fail, Abandon, ApplyTombstone,
     SkipForRate, peerVars
<1>2. CASE \E i \in Ids : Admit(c, i)
  <2>1. UNCHANGED <<minute, budget, unpaid>> /\ pc' = [pc EXCEPT ![c] = "admitted"] /\ pc[c] = "idle"
    BY <1>2 DEF Admit
  <2>2. UncountedYet'
    BY <2>1 DEF RateInv, UncountedYet, ReceiverTypes, LocalTypes
  <2>3. QED
    BY <1>1, <2>1, <2>2, RateQuiet DEF ReceiverTypes, LocalTypes
<1>3. CASE Claim(c)
  <2>1. UNCHANGED <<minute, budget, unpaid>> /\ pc' = [pc EXCEPT ![c] = "claimed"] /\ pc[c] = "admitted"
    BY <1>3 DEF Claim, locals
  <2>2. UncountedYet'
    BY <2>1 DEF RateInv, UncountedYet, ReceiverTypes, LocalTypes
  <2>3. QED
    BY <1>1, <2>1, <2>2, RateQuiet DEF ReceiverTypes, LocalTypes
<1>4. CASE RefuseClaim(c) \/ FinishApplied(c) \/ FinishLimited(c) \/ Fail(c) \/ Abandon(c)
  <2>1. Return(c)
    BY <1>4 DEF RefuseClaim, FinishApplied, FinishLimited, Fail, Abandon
  <2>2. \A d \in Calls, a \in Accounts :
          IF d = c THEN minute'[d][a] = Never
          ELSE /\ minute'[d][a] = minute[d][a] /\ budget'[d][a] = budget[d][a]
               /\ budget[d][a] \in Nat /\ unpaid'[d] = unpaid[d] /\ pc'[d] = pc[d]
    BY <2>1 DEF Return, ReceiverTypes, LocalTypes
  <2>3. UncountedYet'
    BY <2>2 DEF RateInv, UncountedYet
  <2>4. \A d \in Calls, a \in Accounts :
            minute'[d][a] = Never \/ (minute'[d][a] = minute[d][a] /\ budget'[d][a] <= budget[d][a])
    BY <2>2
  <2>5. QED
    BY <1>1, <2>3, <2>4, RateQuiet
<1>5. CASE ApplyTombstone(c) \/ SkipForRate(c)
  <2>1. UNCHANGED <<minute, budget, unpaid, pc>>
    BY <1>5 DEF ApplyTombstone, SkipForRate
  <2>2. UncountedYet'
    BY <2>1 DEF RateInv, UncountedYet
  <2>3. QED
    BY <1>1, <2>1, <2>2, RateQuiet DEF ReceiverTypes, LocalTypes
<1>6. QED
  BY <1>2, <1>3, <1>4, <1>5

LEMMA RateChargePeer ==
    ASSUME ReceiverTypes, ReceiverTypes', IInv, RateInv, NEW c \in Calls, NEW m0 \in Issued,
           ChargePeer(c, m0)
    PROVE  RateInv'
<1> DEFINE limit == IF own[c] = NoOverride THEN PeerLimit ELSE own[c]
           wanted == Cardinality(Updates(Batch(c)))
           counted == limit > 0 /\ wanted > 0
           allowed == IF counted THEN Allowed(Peer, m0, wanted, limit) ELSE wanted
           share == [o \in Orgs |-> Cardinality({i \in Admissible(Batch(c), allowed) : Batch(c)[i].org = o})]
<1>1. pc[c] = "claimed" /\ m0 \in Minutes /\ Peer \in Accounts /\ Orgs \subseteq Accounts
  BY DEF ChargePeer, Issued, Accounts
<1>2. wanted \in Nat /\ limit \in Limits(Peer) /\ limit \in Int
  <2>1. Updates(Batch(c)) \subseteq DOMAIN Batch(c)
    BY DEF Updates
  <2>2. wanted \in Nat
    BY <1>1, <2>1, BatchIsFinite
  <2>3. limit \in Limits(Peer)
    BY DEF Limits, ReceiverTypes, LocalTypes
  <2>4. QED
    BY <1>1, <2>2, <2>3, LimitsAreNumbers
<1>3. /\ IF counted THEN TakeAllowance(c, Peer, m0, wanted, limit) ELSE UNCHANGED <<window, minute>>
      /\ counted => status # "removed"
      /\ budget' = [budget EXCEPT ![c] = [a \in Accounts |-> IF a = Peer THEN allowed ELSE share[a]]]
      /\ unpaid' = [unpaid EXCEPT ![c] = {o \in Orgs : share[o] > 0}]
      /\ pc' = [pc EXCEPT ![c] = "charged"]
      /\ UNCHANGED <<status, stored>>
  BY DEF ChargePeer, peerVars
<1>4. \A a \in Accounts : minute[c][a] = Never
  BY <1>1 DEF RateInv, UncountedYet
<1>5. \A d \in Calls \ {c} : budget'[d] = budget[d] /\ pc'[d] = pc[d] /\ unpaid'[d] = unpaid[d]
  BY <1>3 DEF ReceiverTypes, LocalTypes
<1>6. budget'[c][Peer] = allowed /\ Peer \notin unpaid'[c]
  BY <1>1, <1>3, AccountsAssumption DEF ReceiverTypes, LocalTypes
<1> HIDE DEF limit, wanted, counted, allowed, share
<1>7. CASE ~counted
  <2>1. UNCHANGED <<window, minute>>
    BY <1>3, <1>7
  <2>2. UncountedYet'
    BY <1>4, <1>5, <2>1 DEF RateInv, UncountedYet
  <2>3. \A d \in Calls, a \in Accounts : budget[d][a] \in Nat
    BY DEF ReceiverTypes, LocalTypes
  <2>4. \A d \in Calls, a \in Accounts :
            minute'[d][a] = Never \/ (minute'[d][a] = minute[d][a] /\ budget'[d][a] <= budget[d][a])
    BY <1>4, <1>5, <2>1, <2>3
  <2>5. QED
    BY <1>3, <2>1, <2>2, <2>4, RateQuiet
<1>8. CASE counted
  <2>1. TakeAllowance(c, Peer, m0, wanted, limit) /\ status # "removed"
    BY <1>3, <1>8
  <2>2. /\ \A d \in Calls, a \in Accounts : d # c \/ a # Peer => minute'[d][a] = minute[d][a]
        /\ \A a \in Accounts : a # Peer => window'[a] = window[a]
    BY <2>1 DEF TakeAllowance, ReceiverTypes, TableTypes, LocalTypes
  <2>3. UncountedYet'
    BY <1>4, <1>5, <1>6, <2>2, <1>3 DEF RateInv, UncountedYet, ReceiverTypes, LocalTypes
  <2>4. \A m \in Minutes : WindowHolds(Peer, m)'
    <3>1. allowed = Allowed(Peer, m0, wanted, limit)
      BY <1>8 DEF allowed
    <3>2. \A d \in Calls \ {c} : budget'[d][Peer] = budget[d][Peer]
      BY <1>5
    <3>3. \A m \in Minutes : WindowHolds(Peer, m)
      BY <1>1, <2>1 DEF RateInv
    <3>4. QED
      BY <1>1, <1>2, <1>3, <1>4, <1>6, <2>1, <3>1, <3>2, <3>3, AllowanceTaken
  <2>5. ASSUME NEW a \in Accounts \ {Peer}, NEW m \in Minutes
        PROVE  WindowHolds(a, m)'
    <3>1. \A d \in Calls : budget[d][a] \in Nat
      BY DEF ReceiverTypes, LocalTypes
    <3>2. \A d \in Calls : minute'[d][a] = m => minute[d][a] = m /\ budget'[d][a] <= budget[d][a]
      BY <1>4, <1>5, <2>2, <3>1, MinutesAreNumbers
    <3>3. Owed(a, m)' \subseteq Owed(a, m)
      BY <3>2, OwedKept
    <3>4. QED
      BY <1>3, <2>1, <2>2, <3>3, WindowKept DEF RateInv
  <2>6. NeverOverLimit'
    BY <1>3 DEF RateInv, NeverOverLimit, WithinLimit, Limits
  <2>7. QED
    BY <2>3, <2>4, <2>5, <2>6 DEF RateInv
<1>9. QED
  BY <1>7, <1>8

LEMMA RateChargeOrigin ==
    ASSUME ReceiverTypes, ReceiverTypes', RateInv, NEW c \in Calls, NEW o \in Orgs, NEW m0 \in Issued,
           ChargeOrigin(c, o, m0)
    PROVE  RateInv'
<1> DEFINE limit == IF OriginLimit <= 0 THEN Unlimited ELSE OriginLimit
           wanted == budget[c][o]
           allowed == Allowed(o, m0, wanted, limit)
<1>1. m0 \in Minutes /\ o \in Accounts /\ o # Peer /\ pc[c] = "charged" /\ o \in unpaid[c]
  BY AccountsAssumption DEF ChargeOrigin, Issued, Accounts
<1>2. wanted \in Nat /\ limit \in Limits(o)
  BY <1>1, LimitsAssumption DEF ReceiverTypes, LocalTypes, Limits
<1>3. /\ TakeAllowance(c, o, m0, wanted, limit) /\ status # "removed"
      /\ budget' = [budget EXCEPT ![c][o] = allowed]
      /\ unpaid' = [unpaid EXCEPT ![c] = @ \ {o}]
      /\ UNCHANGED <<status, pc, stored>>
  BY DEF ChargeOrigin, peerVars
<1>4. minute[c][o] = Never
  BY <1>1 DEF RateInv, UncountedYet
<1> HIDE DEF limit, wanted, allowed
<1>5. /\ \A d \in Calls, a \in Accounts :
            d # c \/ a # o => minute'[d][a] = minute[d][a] /\ budget'[d][a] = budget[d][a]
      /\ \A a \in Accounts : a # o => window'[a] = window[a]
      /\ budget'[c][o] = allowed
      /\ \A d \in Calls : unpaid'[d] \subseteq unpaid[d]
      /\ o \notin unpaid'[c]
  <2>1. /\ \A d \in Calls, a \in Accounts : d # c \/ a # o => minute'[d][a] = minute[d][a]
        /\ \A a \in Accounts : a # o => window'[a] = window[a]
    BY <1>3 DEF TakeAllowance, ReceiverTypes, TableTypes, LocalTypes
  <2>2. /\ \A d \in Calls, a \in Accounts : d # c \/ a # o => budget'[d][a] = budget[d][a]
        /\ budget'[c][o] = allowed
    BY <1>1, <1>3 DEF ReceiverTypes, LocalTypes
  <2>3. (\A d \in Calls : unpaid'[d] \subseteq unpaid[d]) /\ o \notin unpaid'[c]
    BY <1>3 DEF ReceiverTypes, LocalTypes
  <2>4. QED
    BY <2>1, <2>2, <2>3
<1>6. UncountedYet'
  BY <1>1, <1>3, <1>5 DEF RateInv, UncountedYet
<1>7. \A m \in Minutes : WindowHolds(o, m)'
  <2>1. \A m \in Minutes : WindowHolds(o, m)
    BY <1>1, <1>3 DEF RateInv
  <2>2. budget'[c][o] = Allowed(o, m0, wanted, limit)
    BY <1>5 DEF allowed
  <2>3. \A d \in Calls \ {c} : budget'[d][o] = budget[d][o]
    BY <1>1, <1>5
  <2>4. QED
    BY <1>1, <1>2, <1>3, <1>4, <2>1, <2>2, <2>3, AllowanceTaken
<1>8. ASSUME NEW a \in Accounts \ {o}, NEW m \in Minutes
      PROVE  WindowHolds(a, m)'
  <2>1. \A d \in Calls : budget[d][a] \in Nat
    BY DEF ReceiverTypes, LocalTypes
  <2>2. \A d \in Calls : minute'[d][a] = m => minute[d][a] = m /\ budget'[d][a] <= budget[d][a]
    BY <1>5, <2>1
  <2>3. Owed(a, m)' \subseteq Owed(a, m)
    BY <2>2, OwedKept
  <2>4. QED
    BY <1>3, <1>5, <2>3, WindowKept DEF RateInv
<1>9. NeverOverLimit'
  BY <1>3 DEF RateInv, NeverOverLimit, WithinLimit, Limits
<1>10. QED
  BY <1>6, <1>7, <1>8, <1>9 DEF RateInv

\* A turn of the walk that spends: one update less is owed on either allowance,
\* and one more is stored on both if it is stored.
LEMMA RateSpends ==
    ASSUME ReceiverTypes, ReceiverTypes', IInv, RateInv, NEW c \in Calls, RejectInvalid(c) \/ StoreUpdate(c)
    PROVE  RateInv'
<1> DEFINE org == Current(c).org
<1>1. pc[c] = "charged" /\ next[c] \in DOMAIN Batch(c) /\ Spend(c) /\ ~OverBudget(c)
  BY DEF RejectInvalid, StoreUpdate, Walking
<1>2. Current(c) \in FederatedEvent
  BY <1>1, BatchIsFinite DEF Current
<1>3. org \in Orgs /\ org \in Accounts /\ Peer \in Accounts /\ org # Peer
  BY <1>2, AccountsAssumption DEF FederatedEvent, Accounts
<1>4. UNCHANGED <<window, minute, unpaid, pc, status>>
  BY DEF RejectInvalid, StoreUpdate, peerVars
<1> HIDE DEF org
<1>5. \A d \in Calls, a \in Accounts : budget'[d][a] =
        IF d = c /\ a \in {Peer, org} THEN budget[d][a] - 1 ELSE budget[d][a]
  <2>1. budget' = [budget EXCEPT ![c][Peer] = budget[c][Peer] - 1, ![c][org] = budget[c][org] - 1]
    BY <1>1, <1>3 DEF Spend, org, ReceiverTypes, LocalTypes
  <2>2. QED
    BY <1>3, <2>1 DEF ReceiverTypes, LocalTypes
<1>6. \A d \in Calls, a \in Accounts : budget[d][a] \in Nat
  BY DEF ReceiverTypes, LocalTypes
<1>7. UncountedYet'
  BY <1>4 DEF RateInv, UncountedYet
<1>8. \A a \in Accounts, m \in Minutes : Owed(a, m)' \subseteq Owed(a, m)
  <2>1. \A d \in Calls, a \in Accounts : minute'[d][a] = minute[d][a] /\ budget'[d][a] <= budget[d][a]
    BY <1>4, <1>5, <1>6
  <2>2. QED
    BY <2>1, OwedKept
<1>9. CASE RejectInvalid(c)
  <2>1. UNCHANGED stored
    BY <1>9 DEF RejectInvalid
  <2>2. \A a \in Accounts, m \in Minutes : status # "removed" => WindowHolds(a, m)'
    BY <1>4, <1>8, <2>1, WindowKept DEF RateInv
  <2>3. NeverOverLimit'
    BY <2>1 DEF RateInv, NeverOverLimit, WithinLimit, Limits
  <2>4. QED
    BY <1>4, <1>7, <2>2, <2>3 DEF RateInv
<1>10. CASE StoreUpdate(c)
  <2>1. status # "removed" /\ \A a \in Accounts, m \in Minutes : stored'[<<a, m>>] =
            IF a \in {Peer, org} /\ minute[c][a] = m THEN stored[<<a, m>>] + 1 ELSE stored[<<a, m>>]
    BY <1>10 DEF StoreUpdate, org, ReceiverTypes, TableTypes
  <2>2. ASSUME NEW a \in Accounts, NEW m \in Minutes, a \in {Peer, org}, minute[c][a] = m
        PROVE  WindowHolds(a, m)' /\ WithinLimit(a, stored'[<<a, m>>])
    <3> DEFINE last == <<c, budget[c][a]>>
    <3>1. budget[c][a] > 0 /\ budget'[c][a] = budget[c][a] - 1 /\ budget[c][a] \in Nat
      BY <1>1, <1>5, <1>6, <2>2 DEF OverBudget, org
    <3>2. Owed(a, m)' = Owed(a, m) \ {last} /\ last \in Owed(a, m)
      <4>1. Owed(a, m)' = {p \in Calls \X Nat : minute'[p[1]][a] = m /\ p[2] \in 1..budget'[p[1]][a]}
        BY DEF Owed
      <4>2. last \in Owed(a, m)
        BY <2>2, <3>1 DEF Owed
      <4>3. ASSUME NEW d \in Calls, NEW i \in Nat
            PROVE  <<d, i>> \in Owed(a, m)' <=> <<d, i>> \in Owed(a, m) \ {last}
        <5>1. CASE d = c
          BY <1>4, <2>2, <3>1, <4>1, <5>1 DEF Owed
        <5>2. CASE d # c
          BY <1>4, <1>5, <4>1, <5>2 DEF Owed
        <5>3. QED
          BY <5>1, <5>2
      <4>4. Owed(a, m)' \subseteq Calls \X Nat /\ Owed(a, m) \subseteq Calls \X Nat
        BY <4>1 DEF Owed
      <4>5. QED
        BY <4>2, <4>3, <4>4
    <3>3. WindowHolds(a, m)
      BY <2>1 DEF RateInv
    <3>4. /\ IsFiniteSet(Owed(a, m)')
          /\ Cardinality(Owed(a, m)') = Cardinality(Owed(a, m)) - 1 /\ Cardinality(Owed(a, m)) \in Nat
      BY <3>2, <3>3, FS_RemoveElement, FS_CardinalityType DEF WindowHolds
    <3>5. stored[<<a, m>>] \in Nat /\ stored'[<<a, m>>] = stored[<<a, m>>] + 1
      BY <2>1, <2>2 DEF ReceiverTypes, TableTypes
    <3>6. Counted(a, m)' = Counted(a, m) /\ Counted(a, m) \in Nat
      BY <3>4, <3>5 DEF Counted
    <3>7. Cardinality(Owed(a, m)') \in Nat
      BY <3>4, FS_CardinalityType
    <3>8. stored'[<<a, m>>] \in 0..Counted(a, m)
      BY <3>4, <3>5, <3>7 DEF Counted
    <3>9. WithinLimit(a, stored'[<<a, m>>])
      BY <3>3, <3>6, <3>8, WithinLess DEF WindowHolds
    <3>10. ~(window[a].start < m)
      BY <3>2, <3>3 DEF WindowHolds
    <3>11. QED
      BY <1>4, <3>3, <3>4, <3>6, <3>9, <3>10 DEF WindowHolds, WithinLimit, Limits
  <2>3. ASSUME NEW a \in Accounts, NEW m \in Minutes, ~(a \in {Peer, org} /\ minute[c][a] = m)
        PROVE  WindowHolds(a, m)' /\ WithinLimit(a, stored'[<<a, m>>])
    <3>1. stored'[<<a, m>>] = stored[<<a, m>>] /\ WindowHolds(a, m) /\ WithinLimit(a, stored[<<a, m>>])
      BY <2>1, <2>3 DEF RateInv, NeverOverLimit
    <3>2. QED
      BY <1>4, <1>8, <3>1, WindowKept
  <2>4. NeverOverLimit'
    BY <2>2, <2>3 DEF NeverOverLimit, WithinLimit, Limits
  <2>5. QED
    BY <1>7, <2>2, <2>3, <2>4 DEF RateInv
<1>11. QED
  BY <1>9, <1>10

LEMMA RateStep ==
    ASSUME ReceiverTypes, IInv, RateInv, [Next]_vars, ReceiverTypes'
    PROVE  RateInv'
<1>1. ASSUME NEW c \in Calls, DeliverEvents(c)
      PROVE  RateInv'
  BY <1>1, RateSettled, RateChargePeer, RateChargeOrigin, RateSpends DEF DeliverEvents, Walk
<1>2. CASE RemovePeer
  <2>1. status' = "removed" /\ UNCHANGED <<stored, minute, pc, unpaid>>
    BY <1>2 DEF RemovePeer, locals
  <2>2. QED
    BY <2>1 DEF RateInv, NeverOverLimit, WithinLimit, Limits, UncountedYet
<1>3. CASE ~RemovePeer /\ ~\E c \in Calls : DeliverEvents(c)
  <2>1. UNCHANGED <<window, stored, minute, budget, pc, unpaid>>
    BY <1>3 DEF Next, vars, Send, SetInboundStatus, SetPeerRateLimit, Tick, SweepBatches, SweepEvents,
       locals
  <2>2. status' # "removed" => status # "removed"
    BY <1>3 DEF Next, vars, Send, SetInboundStatus, SetPeerRateLimit, Tick, SweepBatches, SweepEvents,
       peerVars
  <2>3. UncountedYet'
    BY <2>1 DEF RateInv, UncountedYet
  <2>4. QED
    BY <2>1, <2>2, <2>3, RateQuiet DEF ReceiverTypes, LocalTypes
<1>4. QED
  BY <1>1, <1>2, <1>3

\* However many calls are at work, on however many retries, with statements
\* that run late for their minute and limits changed inside it, no more updates
\* are stored on the allowance of a minute than a limit that was set.
THEOREM ReceiverStaysWithinLimits == Spec => []NeverOverLimit
<1>1. RateInv => NeverOverLimit
  BY DEF RateInv
<1>2. QED
  BY <1>1, RateInit, RateStep, TypesInit, TypesStep, ReplayInit, ReplayStep, PTL DEF Spec

----------------------------------------------------------------------------
(* Counting the updates of a batch *)

\* The first, the second, and so on to the last of a finite set of numbers.
LEMMA RankIsBijection ==
    ASSUME NEW S \in SUBSET Nat, IsFiniteSet(S)
    PROVE  [i \in S |-> Cardinality({j \in S : j <= i})] \in Bijection(S, 1..Cardinality(S))
<1> DEFINE upTo(i) == {j \in S : j <= i}
           rank == [i \in S |-> Cardinality(upTo(i))]
<1>1. \A i \in S : IsFiniteSet(upTo(i)) /\ Cardinality(upTo(i)) \in 1..Cardinality(S)
  <2> SUFFICES ASSUME NEW i \in S
               PROVE  IsFiniteSet(upTo(i)) /\ Cardinality(upTo(i)) \in 1..Cardinality(S)
    OBVIOUS
  <2>1. upTo(i) \in SUBSET S /\ i \in upTo(i)
    OBVIOUS
  <2>2. IsFiniteSet(upTo(i)) /\ Cardinality(upTo(i)) <= Cardinality(S)
    BY <2>1, FS_Subset
  <2>3. Cardinality(upTo(i)) # 0
    BY <2>1, <2>2, FS_EmptySet
  <2>4. Cardinality(upTo(i)) \in Nat /\ Cardinality(S) \in Nat
    BY <2>2, FS_CardinalityType
  <2> HIDE DEF upTo
  <2>5. QED
    BY <2>2, <2>3, <2>4
<1>2. ASSUME NEW i \in S, NEW k \in S, i < k
      PROVE  Cardinality(upTo(i)) < Cardinality(upTo(k))
  <2>1. upTo(i) \in SUBSET (upTo(k) \ {k}) /\ k \in upTo(k)
    <3>1. ASSUME NEW j \in S, j <= i
          PROVE  j <= k /\ j # k
      <4>1. i \in Nat /\ j \in Nat /\ k \in Nat
        OBVIOUS
      <4>2. QED
        BY <1>2, <3>1, <4>1
    <3>2. k <= k
      <4>1. k \in Nat
        OBVIOUS
      <4>2. QED
        BY <4>1
    <3>3. \A j \in upTo(i) : j \in upTo(k) \ {k}
      BY <3>1, Zenon
    <3>4. k \in upTo(k)
      BY <3>2, Zenon
    <3>5. QED
      BY <3>3, <3>4, Zenon
  <2>2. IsFiniteSet(upTo(k)) /\ IsFiniteSet(upTo(k) \ {k})
    BY <1>1, FS_RemoveElement
  <2>3. Cardinality(upTo(i)) <= Cardinality(upTo(k) \ {k})
    BY <2>1, <2>2, FS_Subset
  <2>4. Cardinality(upTo(k) \ {k}) = Cardinality(upTo(k)) - 1
    BY <2>1, <2>2, FS_RemoveElement
  <2>5. Cardinality(upTo(k)) \in Nat /\ Cardinality(upTo(i)) \in Nat
    BY <1>1, FS_CardinalityType
  <2> HIDE DEF upTo
  <2>6. QED
    BY <2>3, <2>4, <2>5
<1> HIDE DEF upTo
<1>3. Cardinality(S) \in Nat
  BY FS_CardinalityType
<1>4. rank \in [S -> 1..Cardinality(S)]
  BY <1>1
<1>5. \A i, k \in S : rank[i] = rank[k] => i = k
  <2>1. ASSUME NEW i \in S, NEW k \in S, rank[i] = rank[k]
        PROVE  i = k
    <3>1. Cardinality(upTo(i)) = Cardinality(upTo(k)) /\ Cardinality(upTo(i)) \in Nat
      BY <1>1, <2>1
    <3>2. ~(i < k) /\ ~(k < i)
      BY <1>2, <3>1
    <3>3. QED
      BY <3>2
  <2>2. QED
    BY <2>1
<1> HIDE DEF rank
<1>6. rank \in Injection(S, 1..Cardinality(S))
  BY <1>4, <1>5 DEF Injection, IsInjective
<1>7. IsFiniteSet(1..Cardinality(S)) /\ Cardinality(1..Cardinality(S)) = Cardinality(S)
  BY <1>3, FS_Interval
<1>8. rank \in Surjection(S, 1..Cardinality(S))
  BY <1>6, <1>7, FS_Injection
<1>9. QED
  BY <1>6, <1>8 DEF Bijection, rank, upTo

\* The first n of them are n.
LEMMA FirstOnes ==
    ASSUME NEW S \in SUBSET Nat, IsFiniteSet(S), NEW n \in 0..Cardinality(S)
    PROVE  Cardinality({i \in S : Cardinality({j \in S : j <= i}) <= n}) = n
<1> DEFINE rank == [i \in S |-> Cardinality({j \in S : j <= i})]
           first == {i \in S : rank[i] <= n}
           f == [i \in first |-> rank[i]]
<1>1. rank \in Bijection(S, 1..Cardinality(S))
  BY RankIsBijection
<1> HIDE DEF rank
<1>2. /\ rank \in [S -> 1..Cardinality(S)]
      /\ \A i, k \in S : rank[i] = rank[k] => i = k
      /\ \A k \in 1..Cardinality(S) : \E i \in S : rank[i] = k
  BY <1>1 DEF Bijection, Injection, IsInjective, Surjection
<1>3. Cardinality(S) \in Nat
  BY FS_CardinalityType
<1>4. f \in Bijection(first, 1..n)
  <2>1. f \in [first -> 1..n]
    <3>1. ASSUME NEW i \in first
          PROVE  rank[i] \in 1..n
      <4>1. rank[i] \in 1..Cardinality(S) /\ rank[i] <= n
        BY <1>2
      <4>2. QED
        BY <1>3, <4>1
    <3>2. QED
      BY <3>1
  <2>2. \A i, k \in first : f[i] = f[k] => i = k
    BY <1>2
  <2>3. \A k \in 1..n : \E i \in first : f[i] = k
    <3>1. ASSUME NEW k \in 1..n
          PROVE  \E i \in first : f[i] = k
      <4>1. PICK i \in S : rank[i] = k
        BY <1>2, <1>3
      <4>2. i \in first
        BY <4>1
      <4>3. QED
        BY <4>1, <4>2
    <3>2. QED
      BY <3>1
  <2> HIDE DEF f, first
  <2>4. QED
    BY <2>1, <2>2, <2>3 DEF Bijection, Injection, IsInjective, Surjection
<1>5. IsFiniteSet(first)
  BY FS_Subset
<1>6. ExistsBijection(first, 1..n)
  BY <1>4 DEF ExistsBijection
<1>7. Cardinality(1..n) = Cardinality(first)
  BY <1>5, <1>6, FS_Bijection
<1>8. Cardinality(1..n) = n
  BY <1>3, FS_Interval
<1>9. first = {i \in S : Cardinality({j \in S : j <= i}) <= n}
  BY DEF rank
<1>10. QED
  BY <1>7, <1>8, <1>9

\* What is left of the organizations' budgets: one pair for each update.
Unspent(given) == {p \in Orgs \X Nat : p[2] \in 1..given[p[1]]}

\* Each update goes to one organization, which is given as many as it has.
SharedOut(A, of, given) ==
    /\ A \in SUBSET Nat /\ IsFiniteSet(A)
    /\ \A i \in A : of[i] \in Orgs
    /\ \A o \in Orgs : given[o] = Cardinality({i \in A : of[i] = o})

\* Shared out among organizations, the updates are as many as they were.
LEMMA SharesAddUp ==
    ASSUME NEW A, NEW of, NEW given, SharedOut(A, of, given)
    PROVE  IsFiniteSet(Unspent(given)) /\ Cardinality(Unspent(given)) = Cardinality(A)
<1> DEFINE share(o) == {i \in A : of[i] = o}
           rank(o) == [i \in share(o) |-> Cardinality({j \in share(o) : j <= i})]
           pairs == {p \in Orgs \X Nat : p[2] \in 1..Cardinality(share(p[1]))}
           f == [i \in A |-> <<of[i], rank(of[i])[i]>>]
<1> A \in SUBSET Nat /\ IsFiniteSet(A) /\ \A i \in A : of[i] \in Orgs
  BY DEF SharedOut
<1>1. \A o \in Orgs : /\ share(o) \subseteq Nat /\ IsFiniteSet(share(o)) /\ Cardinality(share(o)) \in Nat
                      /\ rank(o) \in Bijection(share(o), 1..Cardinality(share(o)))
  <2>1. ASSUME NEW o \in Orgs
        PROVE  share(o) \in SUBSET Nat /\ IsFiniteSet(share(o)) /\ Cardinality(share(o)) \in Nat
    BY FS_Subset, FS_CardinalityType
  <2> HIDE DEF share
  <2>2. QED
    BY <2>1, RankIsBijection
<1> HIDE DEF rank
<1>2. \A o \in Orgs :
        /\ rank(o) \in [share(o) -> 1..Cardinality(share(o))]
        /\ \A i, k \in share(o) : rank(o)[i] = rank(o)[k] => i = k
        /\ \A k \in 1..Cardinality(share(o)) : \E i \in share(o) : rank(o)[i] = k
  BY <1>1 DEF Bijection, Injection, IsInjective, Surjection
<1>3. f \in Bijection(A, pairs)
  <2>1. f \in [A -> pairs]
    <3>1. ASSUME NEW i \in A
          PROVE  <<of[i], rank(of[i])[i]>> \in pairs
      <4>1. of[i] \in Orgs /\ i \in share(of[i])
        OBVIOUS
      <4> HIDE DEF share
      <4>2. rank(of[i])[i] \in 1..Cardinality(share(of[i])) /\ Cardinality(share(of[i])) \in Nat
        BY <1>1, <1>2, <4>1
      <4>3. QED
        BY <4>1, <4>2
    <3>2. QED
      BY <3>1
  <2>2. \A i, k \in A : f[i] = f[k] => i = k
    <3>1. ASSUME NEW i \in A, NEW k \in A, f[i] = f[k]
          PROVE  i = k
      <4>1. of[i] = of[k] /\ rank(of[i])[i] = rank(of[i])[k]
        BY <3>1
      <4>2. i \in share(of[i]) /\ k \in share(of[i]) /\ of[i] \in Orgs
        BY <4>1
      <4>3. QED
        BY <1>2, <4>1, <4>2
    <3>2. QED
      BY <3>1
  <2>3. \A p \in pairs : \E i \in A : f[i] = p
    <3>1. ASSUME NEW o \in Orgs, NEW k \in 1..Cardinality(share(o))
          PROVE  \E i \in A : f[i] = <<o, k>>
      <4>1. PICK i \in share(o) : rank(o)[i] = k
        BY <1>2
      <4>2. i \in A /\ of[i] = o
        OBVIOUS
      <4>3. QED
        BY <4>1, <4>2
    <3>2. ASSUME NEW p \in pairs
          PROVE  \E i \in A : f[i] = p
      <4>1. p = <<p[1], p[2]>> /\ p[1] \in Orgs /\ p[2] \in 1..Cardinality(share(p[1]))
        OBVIOUS
      <4> HIDE DEF f, pairs, share
      <4>2. QED
        BY <3>1, <4>1
    <3>3. QED
      BY <3>2
  <2> HIDE DEF f, pairs
  <2>4. QED
    BY <2>1, <2>2, <2>3 DEF Bijection, Injection, IsInjective, Surjection
<1> HIDE DEF f
<1>4. ExistsBijection(A, pairs)
  BY <1>3 DEF ExistsBijection
<1>5. Unspent(given) = pairs
  <2>1. \A o \in Orgs : given[o] = Cardinality(share(o))
    BY DEF SharedOut
  <2> HIDE DEF share
  <2>2. QED
    BY <2>1 DEF Unspent
<1> HIDE DEF pairs
<1>6. QED
  BY <1>4, <1>5, FS_Bijection

----------------------------------------------------------------------------
(* The receipt *)

\* The updates of an organization that are yet to be walked.
ToCome(b, n, o) == {i \in Updates(b) : i >= n /\ b[i].org = o}

\* Of a call that has come to event n of b, given a budget, with receipt r and
\* having acted on the events done: every update is refused, done or budgeted
\* for, and each organization has as many to come as it has budget.
SumsHold(b, n, given, r, done) ==
    /\ done \subseteq DOMAIN b /\ \A i \in done : i < n
    /\ r.accepted + r.rejected = Cardinality(done)
    /\ IsFiniteSet(Unspent(given))
    /\ r.limited + Cardinality(done \cap Updates(b)) + Cardinality(Unspent(given))
         = Cardinality(Updates(b))
    /\ Cardinality(Unspent(given)) <= given[Peer]
    /\ \A o \in Orgs : given[o] <= Cardinality(ToCome(b, n, o))

Receipt == [accepted : Nat, rejected : Nat, limited : Nat]

LEMMA BatchParts ==
    ASSUME NEW b \in Seq(FederatedEvent)
    PROVE  /\ Len(b) \in Nat /\ DOMAIN b = 1..Len(b) /\ DOMAIN b \subseteq Nat
           /\ \A i \in DOMAIN b : b[i].org \in Orgs
           /\ Updates(b) \subseteq DOMAIN b
           /\ \A part \in SUBSET (DOMAIN b) : IsFiniteSet(part) /\ Cardinality(part) \in Nat
           /\ \A n \in Nat, o \in Orgs : ToCome(b, n, o) \subseteq DOMAIN b
<1>1. Len(b) \in Nat /\ DOMAIN b = 1..Len(b) /\ \A i \in DOMAIN b : b[i] \in FederatedEvent
  OBVIOUS
<1>2. IsFiniteSet(DOMAIN b)
  BY <1>1, FS_Interval
<1>3. \A part \in SUBSET (DOMAIN b) : IsFiniteSet(part) /\ Cardinality(part) \in Nat
  BY <1>2, FS_Subset, FS_CardinalityType
<1>4. QED
  BY <1>1, <1>3 DEF Updates, ToCome, FederatedEvent

\* The shares of the organizations are what the peer's allowance admits.
LEMMA SumsCharged ==
    ASSUME NEW b \in Seq(FederatedEvent), NEW allowed \in 0..Cardinality(Updates(b)),
           NEW given \in [Accounts -> Nat], NEW r \in Receipt, given[Peer] = allowed,
           \A o \in Orgs : given[o] = Cardinality({i \in Admissible(b, allowed) : b[i].org = o}),
           r.accepted = 0, r.rejected = 0, r.limited = Cardinality(Updates(b)) - allowed
    PROVE  SumsHold(b, 1, given, r, {})
<1> DEFINE A == Admissible(b, allowed)
           of == [i \in A |-> b[i].org]
<1>1. /\ Updates(b) \in SUBSET Nat /\ IsFiniteSet(Updates(b)) /\ Cardinality(Updates(b)) \in Nat
      /\ A \in SUBSET (DOMAIN b) /\ A \in SUBSET Nat /\ IsFiniteSet(A) /\ A \subseteq Updates(b)
  BY BatchParts DEF Admissible
<1>2. Cardinality(A) = allowed
  BY <1>1, FirstOnes DEF Admissible
<1> HIDE DEF A
<1>3. IsFiniteSet(Unspent(given)) /\ Cardinality(Unspent(given)) = Cardinality(A)
  <2>1. \A i \in A : of[i] \in Orgs
    BY <1>1, BatchParts
  <2>2. \A o \in Orgs : {i \in A : of[i] = o} = {i \in A : b[i].org = o}
    OBVIOUS
  <2>3. \A o \in Orgs : given[o] = Cardinality({i \in A : of[i] = o})
    BY <2>2 DEF A
  <2> HIDE DEF of
  <2>4. SharedOut(A, of, given)
    BY <1>1, <2>1, <2>3 DEF SharedOut
  <2>5. QED
    BY <2>4, SharesAddUp
<1>4. Cardinality(Unspent(given)) = allowed /\ given[Peer] = allowed
  BY <1>2, <1>3
<1>5. Cardinality({}) = 0 /\ {} \cap Updates(b) = {}
  BY FS_EmptySet
<1>6. ASSUME NEW o \in Orgs
      PROVE  given[o] <= Cardinality(ToCome(b, 1, o))
  <2>1. {i \in A : b[i].org = o} \in SUBSET ToCome(b, 1, o)
    BY <1>1, BatchParts DEF ToCome
  <2>2. IsFiniteSet(ToCome(b, 1, o))
    BY BatchParts
  <2>3. QED
    BY <2>1, <2>2, FS_Subset DEF A
<1>7. QED
  BY <1>1, <1>2, <1>3, <1>4, <1>5, <1>6 DEF SumsHold

\* An organization gets less than its share: the rest is refused for rate.
LEMMA SumsPaid ==
    ASSUME NEW b \in Seq(FederatedEvent), NEW n \in Nat, NEW given \in [Accounts -> Nat],
           NEW r \in Receipt, NEW done, SumsHold(b, n, given, r, done),
           NEW o \in Orgs, NEW k \in 0..given[o], NEW rest \in Receipt,
           rest.accepted = r.accepted, rest.rejected = r.rejected,
           rest.limited = r.limited + given[o] - k
    PROVE  SumsHold(b, n, [given EXCEPT ![o] = k], rest, done)
<1> DEFINE left == [given EXCEPT ![o] = k]
           cut == {o} \X ((k + 1)..given[o])
<1>1. o \in Accounts /\ o # Peer /\ given[o] \in Nat /\ k \in Nat /\ Orgs \subseteq Accounts /\ Peer \in Accounts
  BY AccountsAssumption DEF Accounts
<1>2. \A a \in Accounts : left[a] = IF a = o THEN k ELSE given[a]
  OBVIOUS
<1> HIDE DEF left
<1>3. IsFiniteSet(cut) /\ Cardinality(cut) = given[o] - k
  <2>1. IsFiniteSet((k + 1)..given[o]) /\ Cardinality((k + 1)..given[o]) = given[o] - k
    <3>1. k + 1 \in Int /\ given[o] \in Int /\ k <= given[o]
      BY <1>1
    <3>2. /\ IsFiniteSet((k + 1)..given[o])
          /\ Cardinality((k + 1)..given[o]) = IF k + 1 > given[o] THEN 0 ELSE given[o] - (k + 1) + 1
      BY <3>1, FS_Interval
    <3>3. QED
      BY <1>1, <3>1, <3>2
  <2>2. IsFiniteSet({o}) /\ Cardinality({o}) = 1
    BY FS_Singleton
  <2>3. IsFiniteSet(cut) /\ Cardinality(cut) = Cardinality({o}) * Cardinality((k + 1)..given[o])
    BY <2>1, <2>2, FS_Product
  <2>4. QED
    BY <1>1, <2>1, <2>2, <2>3
<1>4. Unspent(given) = Unspent(left) \cup cut /\ Unspent(left) \cap cut = {}
  <2>1. cut = {p \in Orgs \X Nat : p[1] = o /\ p[2] \in (k + 1)..given[o]}
    BY <1>1
  <2>2. ASSUME NEW a \in Orgs, NEW i \in Nat
        PROVE  /\ i \in 1..given[a] <=> (i \in 1..left[a] \/ (a = o /\ i \in (k + 1)..given[o]))
               /\ ~(i \in 1..left[a] /\ a = o /\ i \in (k + 1)..given[o])
    BY <1>1, <1>2
  <2> HIDE DEF cut
  <2>3. QED
    BY <2>1, <2>2 DEF Unspent
<1> HIDE DEF cut
<1>5. IsFiniteSet(Unspent(given)) /\ IsFiniteSet(Unspent(left))
  BY <1>4, FS_Subset DEF SumsHold
<1>6. /\ Cardinality(Unspent(given)) = Cardinality(Unspent(left)) + given[o] - k
      /\ Cardinality(Unspent(left)) \in Nat
  <2>1. /\ Cardinality(Unspent(left)) \in Nat /\ Cardinality(cut) \in Nat
        /\ Cardinality(Unspent(left) \cap cut) = 0
    BY <1>3, <1>4, <1>5, FS_EmptySet, FS_CardinalityType
  <2>2. Cardinality(Unspent(left) \cup cut)
          = Cardinality(Unspent(left)) + Cardinality(cut) - Cardinality(Unspent(left) \cap cut)
    BY <1>3, <1>5, FS_Union
  <2>3. Cardinality(Unspent(given)) = Cardinality(Unspent(left)) + Cardinality(cut)
    BY <1>4, <2>1, <2>2
  <2>4. QED
    BY <1>1, <1>3, <2>1, <2>3
<1>7. /\ Cardinality(done \cap Updates(b)) \in Nat /\ Cardinality(Updates(b)) \in Nat
      /\ \A a \in Orgs : Cardinality(ToCome(b, n, a)) \in Nat
  BY BatchParts DEF SumsHold
<1>8. \A a \in Orgs : left[a] <= Cardinality(ToCome(b, n, a))
  BY <1>1, <1>2, <1>7 DEF SumsHold
<1>9. r.limited \in Nat /\ rest.limited = r.limited + given[o] - k
  BY DEF Receipt
<1>10. left[Peer] = given[Peer] /\ given[Peer] \in Nat
  BY <1>1, <1>2
<1>11. SumsHold(b, n, left, rest, done)
  <2>1. rest.limited + Cardinality(done \cap Updates(b)) + Cardinality(Unspent(left)) = Cardinality(Updates(b))
    BY <1>1, <1>6, <1>7, <1>9 DEF SumsHold
  <2>2. Cardinality(Unspent(left)) <= left[Peer]
    BY <1>1, <1>6, <1>10 DEF SumsHold
  <2>3. QED
    BY <1>5, <1>8, <2>1, <2>2 DEF SumsHold
<1>12. QED
  BY <1>11 DEF left

\* Past one event: those to come lose it, if it is an update.
LEMMA ToComeNext ==
    ASSUME NEW b \in Seq(FederatedEvent), NEW n \in DOMAIN b, NEW o \in Orgs
    PROVE  Cardinality(ToCome(b, n + 1, o)) =
             IF n \in Updates(b) /\ b[n].org = o THEN Cardinality(ToCome(b, n, o)) - 1
             ELSE Cardinality(ToCome(b, n, o))
<1>1. n \in Nat /\ Updates(b) \subseteq Nat
  BY BatchParts
<1>2. IsFiniteSet(ToCome(b, n, o))
  BY <1>1, BatchParts
<1>3. ToCome(b, n + 1, o) = ToCome(b, n, o) \ {n}
  <2>1. \A i \in Updates(b) : i >= n + 1 <=> (i >= n /\ i # n)
    BY <1>1
  <2>2. QED
    BY <2>1 DEF ToCome
<1>4. n \in ToCome(b, n, o) <=> n \in Updates(b) /\ b[n].org = o
  BY <1>1 DEF ToCome
<1>5. QED
  BY <1>2, <1>3, <1>4, FS_RemoveElement

LEMMA SumsTombstone ==
    ASSUME NEW b \in Seq(FederatedEvent), NEW n \in DOMAIN b, NEW given \in [Accounts -> Nat],
           NEW r \in Receipt, NEW done, SumsHold(b, n, given, r, done), b[n].deleted,
           NEW rest \in Receipt, rest.limited = r.limited,
           rest.accepted + rest.rejected = r.accepted + r.rejected + 1
    PROVE  SumsHold(b, n + 1, given, rest, done \cup {n})
<1>1. n \in Nat /\ n \notin Updates(b) /\ done \subseteq Nat
  BY BatchParts DEF Updates, SumsHold
<1>2. n \notin done /\ \A i \in done \cup {n} : i < n + 1
  BY <1>1 DEF SumsHold
<1>3. IsFiniteSet(done) /\ Cardinality(done \cup {n}) = Cardinality(done) + 1
  BY <1>2, BatchParts, FS_AddElement DEF SumsHold
<1>4. (done \cup {n}) \cap Updates(b) = done \cap Updates(b) /\ done \cup {n} \subseteq DOMAIN b
  BY <1>1 DEF SumsHold
<1>5. \A o \in Orgs : Cardinality(ToCome(b, n + 1, o)) = Cardinality(ToCome(b, n, o))
  BY <1>1, ToComeNext
<1>6. QED
  BY <1>2, <1>3, <1>4, <1>5 DEF SumsHold

\* Only an update of an organization that has no budget left is skipped.
LEMMA SumsSkip ==
    ASSUME NEW b \in Seq(FederatedEvent), NEW n \in DOMAIN b, NEW given \in [Accounts -> Nat],
           NEW r \in Receipt, NEW done, SumsHold(b, n, given, r, done),
           given[Peer] <= 0 \/ given[b[n].org] <= 0
    PROVE  SumsHold(b, n + 1, given, r, done)
<1> DEFINE org == b[n].org
<1>1. n \in Nat /\ org \in Orgs /\ org \in Accounts /\ Peer \in Accounts /\ done \subseteq Nat
  BY BatchParts DEF Accounts, SumsHold
<1> HIDE DEF org
<1>2. given[org] = 0
  <2>1. CASE given[org] <= 0
    BY <1>1, <2>1
  <2>2. CASE given[Peer] <= 0
    <3>1. Cardinality(Unspent(given)) = 0
      <4>1. Cardinality(Unspent(given)) \in Nat /\ Cardinality(Unspent(given)) <= given[Peer]
        BY FS_CardinalityType DEF SumsHold
      <4>2. QED
        BY <1>1, <2>2, <4>1
    <3>2. Unspent(given) = {}
      BY <3>1, FS_EmptySet DEF SumsHold
    <3>3. <<org, 1>> \notin Unspent(given) /\ given[org] \in Nat
      BY <1>1, <3>2
    <3>4. QED
      BY <1>1, <3>3 DEF Unspent
  <2>3. QED
    BY <2>1, <2>2 DEF org
<1>3. \A i \in done : i < n + 1
  BY <1>1 DEF SumsHold
<1>4. ASSUME NEW o \in Orgs
      PROVE  given[o] <= Cardinality(ToCome(b, n + 1, o))
  <2>1. CASE o = org
    <3>1. Cardinality(ToCome(b, n + 1, o)) \in Nat
      BY <1>1, BatchParts
    <3>2. QED
      BY <1>2, <2>1, <3>1
  <2>2. CASE o # org
    BY <2>2, ToComeNext DEF SumsHold, org
  <2>3. QED
    BY <2>1, <2>2
<1>5. QED
  BY <1>3, <1>4 DEF SumsHold

LEMMA SumsSpend ==
    ASSUME NEW b \in Seq(FederatedEvent), NEW n \in DOMAIN b, NEW given \in [Accounts -> Nat],
           NEW r \in Receipt, NEW done, SumsHold(b, n, given, r, done), ~b[n].deleted,
           given[Peer] > 0, given[b[n].org] > 0, NEW left \in [Accounts -> Nat],
           \A a \in Accounts : left[a] = IF a \in {Peer, b[n].org} THEN given[a] - 1 ELSE given[a],
           NEW rest \in Receipt, rest.limited = r.limited,
           rest.accepted + rest.rejected = r.accepted + r.rejected + 1
    PROVE  SumsHold(b, n + 1, left, rest, done \cup {n})
<1> DEFINE org == b[n].org
           last == <<org, given[org]>>
<1>1. /\ n \in Nat /\ n \in Updates(b) /\ done \subseteq Nat /\ Orgs \subseteq Accounts
      /\ org \in Orgs /\ Peer \in Accounts /\ org # Peer /\ Peer \notin Orgs
  BY BatchParts, AccountsAssumption DEF Updates, SumsHold, Accounts
<1>2. /\ left[Peer] = given[Peer] - 1 /\ left[org] = given[org] - 1
      /\ \A o \in Orgs : o # org => left[o] = given[o]
      /\ given[Peer] \in Nat /\ given[org] \in Nat /\ given[org] > 0 /\ given[Peer] > 0
  BY <1>1
<1> HIDE DEF org
<1>3. n \notin done /\ \A i \in done \cup {n} : i < n + 1
  BY <1>1 DEF SumsHold
<1>4. IsFiniteSet(done) /\ Cardinality(done \cup {n}) = Cardinality(done) + 1
  BY <1>3, BatchParts, FS_AddElement DEF SumsHold
<1>5. /\ done \cup {n} \subseteq DOMAIN b
      /\ Cardinality((done \cup {n}) \cap Updates(b)) = Cardinality(done \cap Updates(b)) + 1
      /\ Cardinality(done \cap Updates(b)) \in Nat
  <2>1. (done \cup {n}) \cap Updates(b) = (done \cap Updates(b)) \cup {n} /\ n \notin done \cap Updates(b)
    BY <1>1, <1>3
  <2>2. IsFiniteSet(done \cap Updates(b)) /\ Cardinality(done \cap Updates(b)) \in Nat
    BY BatchParts DEF SumsHold
  <2>3. QED
    BY <2>1, <2>2, FS_AddElement DEF SumsHold
<1>6. Unspent(left) = Unspent(given) \ {last} /\ last \in Unspent(given)
  <2>1. ASSUME NEW o \in Orgs, NEW i \in Nat
        PROVE  i \in 1..left[o] <=> i \in 1..given[o] /\ <<o, i>> # last
    <3>1. CASE o = org
      BY <1>2, <3>1
    <3>2. CASE o # org
      BY <1>2, <3>2
    <3>3. QED
      BY <3>1, <3>2
  <2>2. last \in Unspent(given)
    BY <1>1, <1>2 DEF Unspent
  <2> HIDE DEF last
  <2>3. ASSUME NEW p \in Orgs \X Nat
        PROVE  p \in Unspent(left) <=> p \in Unspent(given) \ {last}
    <3>1. p = <<p[1], p[2]>> /\ p[1] \in Orgs /\ p[2] \in Nat
      OBVIOUS
    <3>2. QED
      BY <2>1, <3>1 DEF Unspent
  <2>4. Unspent(left) \subseteq Orgs \X Nat /\ Unspent(given) \subseteq Orgs \X Nat
    BY DEF Unspent
  <2>5. QED
    BY <2>2, <2>3, <2>4
<1> HIDE DEF last
<1>7. /\ IsFiniteSet(Unspent(left)) /\ Cardinality(Unspent(left)) = Cardinality(Unspent(given)) - 1
      /\ Cardinality(Unspent(given)) \in Nat
  BY <1>6, FS_RemoveElement, FS_CardinalityType DEF SumsHold
<1>8. ASSUME NEW o \in Orgs
      PROVE  left[o] <= Cardinality(ToCome(b, n + 1, o))
  <2>1. /\ given[o] <= Cardinality(ToCome(b, n, o)) /\ Cardinality(ToCome(b, n, o)) \in Nat
        /\ given[o] \in Nat
    BY <1>1, BatchParts DEF SumsHold
  <2>2. CASE o = org
    <3>1. Cardinality(ToCome(b, n + 1, o)) = Cardinality(ToCome(b, n, o)) - 1
      BY <1>1, <2>2, ToComeNext DEF org
    <3>2. QED
      BY <1>2, <2>1, <2>2, <3>1
  <2>3. CASE o # org
    BY <1>2, <2>1, <2>3, ToComeNext DEF org
  <2>4. QED
    BY <2>2, <2>3
<1>9. rest.limited + Cardinality((done \cup {n}) \cap Updates(b)) + Cardinality(Unspent(left))
        = Cardinality(Updates(b))
  <2>1. r.limited \in Nat /\ Cardinality(Updates(b)) \in Nat
    BY BatchParts DEF Receipt
  <2>2. r.limited + Cardinality(done \cap Updates(b)) + Cardinality(Unspent(given)) = Cardinality(Updates(b))
    BY DEF SumsHold
  <2>3. QED
    BY <1>5, <1>7, <2>1, <2>2
<1>10. Cardinality(Unspent(left)) <= left[Peer]
  <2>1. Cardinality(Unspent(given)) <= given[Peer]
    BY DEF SumsHold
  <2>2. QED
    BY <1>2, <1>7, <2>1
<1>11. rest.accepted + rest.rejected = Cardinality(done \cup {n})
  BY <1>4 DEF SumsHold
<1>12. QED
  BY <1>3, <1>5, <1>7, <1>8, <1>9, <1>10, <1>11 DEF SumsHold

\* With nothing to come there is no budget left, and the receipt adds up.
LEMMA SumsAtEnd ==
    ASSUME NEW b \in Seq(FederatedEvent), NEW given \in [Accounts -> Nat], NEW r \in Receipt, NEW done,
           SumsHold(b, Len(b) + 1, given, r, done), DOMAIN b \ Updates(b) \subseteq done
    PROVE  r.accepted + r.rejected + r.limited = Len(b)
<1> DEFINE tombstones == DOMAIN b \ Updates(b)
<1>1. /\ Len(b) \in Nat /\ DOMAIN b = 1..Len(b) /\ Updates(b) \subseteq DOMAIN b
      /\ done \subseteq DOMAIN b /\ Orgs \subseteq Accounts
  BY BatchParts DEF SumsHold, Accounts
<1>2. \A o \in Orgs : given[o] = 0
  <2> SUFFICES ASSUME NEW o \in Orgs
               PROVE  given[o] = 0
    OBVIOUS
  <2>1. \A i \in Updates(b) : ~(i >= Len(b) + 1)
    BY <1>1
  <2>2. ToCome(b, Len(b) + 1, o) = {}
    BY <2>1 DEF ToCome
  <2>3. Cardinality(ToCome(b, Len(b) + 1, o)) = 0
    BY <2>2, FS_EmptySet
  <2>4. given[o] \in Nat /\ given[o] <= 0
    BY <1>1, <2>3 DEF SumsHold
  <2>5. QED
    BY <2>4
<1>3. Unspent(given) = {}
  BY <1>2 DEF Unspent
<1>4. Cardinality(Unspent(given)) = 0
  BY <1>3, FS_EmptySet
<1>5. IsFiniteSet(DOMAIN b) /\ IsFiniteSet(Updates(b)) /\ IsFiniteSet(done)
  BY <1>1, BatchParts
<1>6. /\ Cardinality(tombstones) = Cardinality(DOMAIN b) - Cardinality(DOMAIN b \cap Updates(b))
      /\ DOMAIN b \cap Updates(b) = Updates(b)
  BY <1>1, <1>5, FS_Difference
<1>7. /\ done \ Updates(b) = tombstones
      /\ Cardinality(done \ Updates(b)) = Cardinality(done) - Cardinality(done \cap Updates(b))
  BY <1>1, <1>5, FS_Difference
<1>8. Cardinality(DOMAIN b) = Len(b)
  <2>1. Cardinality(1..Len(b)) = IF 1 > Len(b) THEN 0 ELSE Len(b) - 1 + 1
    BY <1>1, FS_Interval
  <2>2. Cardinality(1..Len(b)) = Len(b)
    BY <1>1, <2>1
  <2>3. QED
    BY <1>1, <2>2
<1>9. /\ Cardinality(Updates(b)) \in Nat /\ Cardinality(done) \in Nat /\ r.limited \in Nat
      /\ Cardinality(done \cap Updates(b)) \in Nat /\ r.accepted \in Nat /\ r.rejected \in Nat
  BY <1>1, BatchParts DEF Receipt
<1>10. /\ r.accepted + r.rejected = Cardinality(done)
       /\ r.limited + Cardinality(done \cap Updates(b)) + Cardinality(Unspent(given)) = Cardinality(Updates(b))
  BY DEF SumsHold
<1>11. /\ Cardinality(tombstones) = Len(b) - Cardinality(Updates(b))
       /\ Cardinality(tombstones) = Cardinality(done) - Cardinality(done \cap Updates(b))
  <2> HIDE DEF tombstones
  <2>1. QED
    BY <1>6, <1>7, <1>8
<1> HIDE DEF tombstones
<1>12. QED
  BY <1>1, <1>4, <1>9, <1>10, <1>11

\* Before it is charged a call has refused and done nothing; then its receipt,
\* its budgets and what it acted on are the updates of the batch.
ReceiptHolds(c) ==
    IF pc[c] # "charged"
    THEN receipt[c].accepted = 0 /\ receipt[c].rejected = 0 /\ reached[c] = {}
    ELSE SumsHold(Batch(c), next[c], budget[c], receipt[c], reached[c])
SumsInv == \A c \in Calls : ReceiptHolds(c)

LEMMA SumsInit == Init => SumsInv
  BY DEF Init, SumsInv, ReceiptHolds, NoReceipt

LEMMA SumsQuiet ==
    ASSUME NEW c \in Calls, ReceiptHolds(c), pc[c] = "charged" => Batch(c)' = Batch(c),
           UNCHANGED <<pc[c], next[c], budget[c], receipt[c], reached[c]>>
    PROVE  ReceiptHolds(c)'
  BY DEF ReceiptHolds, SumsHold

LEMMA SumsChargePeer ==
    ASSUME ReceiverTypes, ReceiverTypes', IInv, TombstonesInv, SumsInv,
           NEW c \in Calls, NEW m \in Issued, ChargePeer(c, m)
    PROVE  ReceiptHolds(c)'
<1> DEFINE limit == IF own[c] = NoOverride THEN PeerLimit ELSE own[c]
           wanted == Cardinality(Updates(Batch(c)))
           counted == limit > 0 /\ wanted > 0
           allowed == IF counted THEN Allowed(Peer, m, wanted, limit) ELSE wanted
           share == [o \in Orgs |-> Cardinality({i \in Admissible(Batch(c), allowed) : Batch(c)[i].org = o})]
<1>1. pc[c] = "claimed" /\ m \in Minutes /\ Peer \in Accounts
  BY DEF ChargePeer, Issued, Accounts
<1>2. Batch(c) \in Seq(FederatedEvent) /\ wanted \in Nat
  BY <1>1, BatchIsFinite DEF Updates
<1>3. limit \in Int
  BY LimitsAssumption DEF ReceiverTypes, LocalTypes
<1>4. allowed \in 0..wanted
  BY <1>1, <1>2, <1>3, AllowanceTypes DEF ReceiverTypes
<1>5. /\ budget' = [budget EXCEPT ![c] = [a \in Accounts |-> IF a = Peer THEN allowed ELSE share[a]]]
      /\ receipt' = [receipt EXCEPT ![c].limited = wanted - allowed]
      /\ pc' = [pc EXCEPT ![c] = "charged"]
      /\ UNCHANGED <<sent, env, next, reached>>
  BY DEF ChargePeer
<1>6. \A o \in Orgs : share[o] = Cardinality({i \in Admissible(Batch(c), allowed) : Batch(c)[i].org = o})
  OBVIOUS
<1>7. next[c] = 1 /\ receipt[c].accepted = 0 /\ receipt[c].rejected = 0 /\ reached[c] = {}
  BY <1>1 DEF TombstonesInv, PassedTombstones, SumsInv, ReceiptHolds
<1> HIDE DEF limit, counted, allowed, share
<1>8. /\ budget'[c][Peer] = allowed /\ \A o \in Orgs : budget'[c][o] = share[o]
      /\ budget'[c] \in [Accounts -> Nat]
  BY <1>5, AccountsAssumption DEF Accounts, ReceiverTypes, LocalTypes
<1>9. /\ receipt'[c].accepted = 0 /\ receipt'[c].rejected = 0 /\ receipt'[c].limited = wanted - allowed
      /\ receipt'[c] \in Receipt
  BY <1>5, <1>7 DEF ReceiverTypes, LocalTypes, Receipt
<1>10. SumsHold(Batch(c), 1, budget'[c], receipt'[c], {})
  BY <1>2, <1>4, <1>6, <1>8, <1>9, SumsCharged
<1>11. Batch(c)' = Batch(c) /\ next'[c] = 1 /\ reached'[c] = {} /\ pc'[c] = "charged"
  BY <1>5, <1>7 DEF Batch, ReceiverTypes, LocalTypes
<1>12. QED
  BY <1>10, <1>11 DEF ReceiptHolds, SumsHold

LEMMA SumsChargeOrigin ==
    ASSUME ReceiverTypes, ReceiverTypes', IInv, SumsInv,
           NEW c \in Calls, NEW o \in Orgs, NEW m \in Issued, ChargeOrigin(c, o, m)
    PROVE  ReceiptHolds(c)'
<1> DEFINE limit == IF OriginLimit <= 0 THEN Unlimited ELSE OriginLimit
           wanted == budget[c][o]
           allowed == Allowed(o, m, wanted, limit)
<1>1. pc[c] = "charged" /\ m \in Minutes /\ o \in Accounts /\ next[c] \in Nat
  BY DEF ChargeOrigin, Issued, Accounts, ReceiverTypes, NextTypes
<1>2. wanted \in Nat /\ limit \in Int /\ budget[c] \in [Accounts -> Nat]
  BY <1>1, LimitsAssumption DEF ReceiverTypes, LocalTypes, Unlimited
<1>3. allowed \in 0..wanted
  BY <1>1, <1>2, AllowanceTypes DEF ReceiverTypes
<1>4. /\ budget' = [budget EXCEPT ![c][o] = allowed]
      /\ receipt' = [receipt EXCEPT ![c].limited = @ + wanted - allowed]
      /\ UNCHANGED <<sent, pc, env, next, reached>>
  BY DEF ChargeOrigin
<1> HIDE DEF limit, allowed
<1>5. Batch(c) \in Seq(FederatedEvent) /\ SumsHold(Batch(c), next[c], budget[c], receipt[c], reached[c])
  BY <1>1, BatchIsFinite DEF SumsInv, ReceiptHolds
<1>6. budget'[c] = [budget[c] EXCEPT ![o] = allowed]
  BY <1>4 DEF ReceiverTypes, LocalTypes
<1>7. /\ receipt'[c].accepted = receipt[c].accepted /\ receipt'[c].rejected = receipt[c].rejected
      /\ receipt'[c].limited = receipt[c].limited + budget[c][o] - allowed
      /\ receipt[c] \in Receipt /\ receipt'[c] \in Receipt
  BY <1>4 DEF ReceiverTypes, LocalTypes, Receipt
<1>8. SumsHold(Batch(c), next[c], budget'[c], receipt'[c], reached[c])
  <2>1. allowed \in 0..budget[c][o]
    BY <1>3
  <2>2. SumsHold(Batch(c), next[c], [budget[c] EXCEPT ![o] = allowed], receipt'[c], reached[c])
    BY <1>1, <1>2, <1>5, <1>7, <2>1, SumsPaid
  <2>3. QED
    BY <1>6, <2>2
<1>9. Batch(c)' = Batch(c)
  BY <1>4 DEF Batch
<1>10. QED
  BY <1>1, <1>4, <1>8, <1>9 DEF ReceiptHolds, SumsHold

\* One turn of the walk, whatever it does with the event.
LEMMA SumsWalk ==
    ASSUME ReceiverTypes, ReceiverTypes', IInv, SumsInv, NEW c \in Calls, Walk(c)
    PROVE  ReceiptHolds(c)'
<1>1. pc[c] = "charged" /\ next[c] \in DOMAIN Batch(c)
  BY DEF Walk, ApplyTombstone, SkipForRate, RejectInvalid, StoreUpdate, Walking
<1>2. UNCHANGED <<sent, pc, env>> /\ next' = [next EXCEPT ![c] = @ + 1]
  BY DEF Walk, ApplyTombstone, SkipForRate, RejectInvalid, StoreUpdate, Acted
<1>3. /\ Batch(c) \in Seq(FederatedEvent) /\ Current(c) = Batch(c)[next[c]] /\ Current(c).org \in Orgs
      /\ SumsHold(Batch(c), next[c], budget[c], receipt[c], reached[c])
  BY <1>1, BatchIsFinite, BatchParts DEF SumsInv, ReceiptHolds, Current
<1>4. /\ budget[c] \in [Accounts -> Nat] /\ budget'[c] \in [Accounts -> Nat]
      /\ receipt[c] \in Receipt /\ receipt'[c] \in Receipt
  BY DEF ReceiverTypes, LocalTypes, Receipt
<1>5. next'[c] = next[c] + 1 /\ Batch(c)' = Batch(c) /\ pc'[c] = "charged"
  BY <1>1, <1>2 DEF Batch, ReceiverTypes, NextTypes
<1>6. reached' = [reached EXCEPT ![c] = @ \cup {next[c]}] => reached'[c] = reached[c] \cup {next[c]}
  BY DEF ReceiverTypes, LocalTypes
<1>7. ASSUME \/ receipt' = [receipt EXCEPT ![c].accepted = @ + 1]
             \/ receipt' = [receipt EXCEPT ![c].rejected = @ + 1]
      PROVE  /\ receipt'[c].limited = receipt[c].limited
             /\ receipt'[c].accepted + receipt'[c].rejected = receipt[c].accepted + receipt[c].rejected + 1
  <2>1. receipt[c].accepted \in Nat /\ receipt[c].rejected \in Nat
    BY <1>4 DEF Receipt
  <2>2. CASE receipt' = [receipt EXCEPT ![c].accepted = @ + 1]
    <3>1. receipt'[c] = [receipt[c] EXCEPT !.accepted = @ + 1]
      BY <2>2 DEF ReceiverTypes, LocalTypes
    <3>2. QED
      BY <1>4, <2>1, <3>1 DEF Receipt
  <2>3. CASE receipt' = [receipt EXCEPT ![c].rejected = @ + 1]
    <3>1. receipt'[c] = [receipt[c] EXCEPT !.rejected = @ + 1]
      BY <2>3 DEF ReceiverTypes, LocalTypes
    <3>2. QED
      BY <1>4, <2>1, <3>1 DEF Receipt
  <2>4. QED
    BY <1>7, <2>2, <2>3
<1>8. SumsHold(Batch(c), next[c] + 1, budget'[c], receipt'[c], reached'[c])
  <2>1. CASE ApplyTombstone(c)
    <3>1. UNCHANGED budget /\ Current(c).deleted /\ reached'[c] = reached[c] \cup {next[c]}
      BY <1>6, <2>1 DEF ApplyTombstone, Acted
    <3>2. \/ receipt' = [receipt EXCEPT ![c].accepted = @ + 1]
          \/ receipt' = [receipt EXCEPT ![c].rejected = @ + 1]
      BY <2>1 DEF ApplyTombstone
    <3>3. QED
      BY <1>1, <1>3, <1>4, <1>7, <3>1, <3>2, SumsTombstone
  <2>2. CASE SkipForRate(c)
    <3>1. UNCHANGED <<budget, receipt, reached>> /\ OverBudget(c)
      BY <2>2 DEF SkipForRate
    <3>2. QED
      BY <1>1, <1>3, <1>4, <3>1, SumsSkip DEF OverBudget
  <2>3. CASE RejectInvalid(c) \/ StoreUpdate(c)
    <3> DEFINE org == Current(c).org
    <3>1. ~Current(c).deleted /\ ~OverBudget(c) /\ Spend(c) /\ reached'[c] = reached[c] \cup {next[c]}
      BY <1>6, <2>3 DEF RejectInvalid, StoreUpdate, Acted
    <3>2. \/ receipt' = [receipt EXCEPT ![c].accepted = @ + 1]
          \/ receipt' = [receipt EXCEPT ![c].rejected = @ + 1]
      BY <2>3 DEF RejectInvalid, StoreUpdate
    <3>3. org \in Accounts /\ Peer \in Accounts /\ org # Peer
      BY <1>3, AccountsAssumption DEF Accounts
    <3>4. budget[c][Peer] > 0 /\ budget[c][org] > 0
      BY <1>4, <3>1, <3>3 DEF OverBudget
    <3>5. \A a \in Accounts : budget'[c][a] = IF a \in {Peer, org} THEN budget[c][a] - 1 ELSE budget[c][a]
      <4> HIDE DEF org
      <4>1. budget' = [budget EXCEPT ![c][Peer] = budget[c][Peer] - 1, ![c][org] = budget[c][org] - 1]
        BY <3>1, <3>3 DEF Spend, org, ReceiverTypes, LocalTypes
      <4>2. QED
        BY <3>3, <4>1 DEF ReceiverTypes, LocalTypes
    <3>6. /\ org = Batch(c)[next[c]].org /\ ~Batch(c)[next[c]].deleted
          /\ receipt'[c].limited = receipt[c].limited
          /\ receipt'[c].accepted + receipt'[c].rejected = receipt[c].accepted + receipt[c].rejected + 1
      BY <1>3, <1>7, <3>1, <3>2
    <3> HIDE DEF org
    <3>7. /\ budget[c][Batch(c)[next[c]].org] > 0
          /\ \A a \in Accounts : budget'[c][a] =
                IF a \in {Peer, Batch(c)[next[c]].org} THEN budget[c][a] - 1 ELSE budget[c][a]
      BY <3>4, <3>5, <3>6
    <3>8. SumsHold(Batch(c), next[c] + 1, budget'[c], receipt'[c], reached[c] \cup {next[c]})
      BY <1>1, <1>3, <1>4, <3>4, <3>6, <3>7, SumsSpend
    <3>9. QED
      BY <3>1, <3>8
  <2>4. QED
    BY <2>1, <2>2, <2>3 DEF Walk
<1>9. QED
  BY <1>5, <1>8 DEF ReceiptHolds, SumsHold

LEMMA SumsStep ==
    ASSUME ReceiverTypes, IInv, TombstonesInv, SumsInv, [Next]_vars, ReceiverTypes'
    PROVE  SumsInv'
<1>1. ASSUME NEW c \in Calls, DeliverEvents(c)
      PROVE  ReceiptHolds(c)'
  <2>1. CASE Walk(c)
    BY <2>1, SumsWalk
  <2>2. CASE \E m \in Issued : ChargePeer(c, m) \/ \E o \in Orgs : ChargeOrigin(c, o, m)
    BY <2>2, SumsChargePeer, SumsChargeOrigin
  <2>3. CASE Claim(c) \/ \E i \in Ids : Admit(c, i)
    <3>1. pc'[c] # "charged" /\ pc[c] # "charged" /\ UNCHANGED <<receipt, reached>>
      BY <2>3 DEF Claim, Admit, locals, ReceiverTypes, LocalTypes
    <3>2. QED
      BY <3>1 DEF SumsInv, ReceiptHolds
  <2>4. CASE RefuseClaim(c) \/ FinishApplied(c) \/ FinishLimited(c) \/ Fail(c) \/ Abandon(c)
    <3>1. Return(c)
      BY <2>4 DEF RefuseClaim, FinishApplied, FinishLimited, Fail, Abandon
    <3>2. pc'[c] = "idle" /\ receipt'[c] = NoReceipt /\ reached'[c] = {}
      BY <3>1 DEF Return, ReceiverTypes, LocalTypes
    <3>3. QED
      BY <3>2 DEF ReceiptHolds, NoReceipt
  <2>5. QED
    BY <1>1, <2>1, <2>2, <2>3, <2>4 DEF DeliverEvents
<1>2. ASSUME NEW c \in Calls, DeliverEvents(c), NEW d \in Calls, d # c
      PROVE  ReceiptHolds(d)'
  BY <1>2, CallsAreApart, LocalsAreApart, SumsQuiet DEF SumsInv, Batch
<1>3. ASSUME ~\E c \in Calls : DeliverEvents(c), NEW d \in Calls
      PROVE  ReceiptHolds(d)'
  <2>1. UNCHANGED <<pc, next, reached, env, budget, receipt>>
    BY <1>3 DEF Next, vars, Send, SetInboundStatus, RemovePeer, SetPeerRateLimit, Tick, SweepBatches,
       SweepEvents, locals
  <2>2. pc[d] # "idle" => sent'[env[d]] = sent[env[d]]
    BY <1>3 DEF Next, vars, Send, SetInboundStatus, RemovePeer, SetPeerRateLimit, Tick, SweepBatches,
       SweepEvents, IInv, ReplayInv, EnvelopesAreSent, ReceiverTypes, TableTypes
  <2>3. QED
    BY <2>1, <2>2, SumsQuiet DEF SumsInv, Batch
<1>4. QED
  BY <1>1, <1>2, <1>3 DEF SumsInv

\* Whatever the constants, the receipt of a call that is through accounts for
\* every event of its batch exactly once.
THEOREM ReceiverReceiptsAddUp == Spec => []ReceiptAddsUp
<1>1. ReceiverTypes /\ IInv /\ TombstonesInv /\ SumsInv => ReceiptAddsUp
  <2> SUFFICES ASSUME ReceiverTypes, IInv, TombstonesInv, SumsInv
               PROVE  ReceiptAddsUp
    OBVIOUS
  <2>1. ActsOnTombstones
    BY TombstonesAreReached
  <2>2. ASSUME NEW c \in Calls, Finished(c)
        PROVE  receipt[c].accepted + receipt[c].rejected + receipt[c].limited = Len(Batch(c))
    <3>1. pc[c] = "charged" /\ next[c] \notin DOMAIN Batch(c)
      BY <2>2 DEF Finished
    <3>2. /\ Batch(c) \in Seq(FederatedEvent) /\ DOMAIN Batch(c) = 1..Len(Batch(c)) /\ Len(Batch(c)) \in Nat
          /\ next[c] \in 1..Len(Batch(c)) + 1
      BY <3>1, BatchIsFinite DEF ReceiverTypes, NextTypes
    <3>3. next[c] = Len(Batch(c)) + 1
      BY <3>1, <3>2
    <3>4. SumsHold(Batch(c), Len(Batch(c)) + 1, budget[c], receipt[c], reached[c])
      BY <3>1, <3>3 DEF SumsInv, ReceiptHolds
    <3>5. DOMAIN Batch(c) \ Updates(Batch(c)) \subseteq reached[c]
      BY <2>1, <2>2 DEF ActsOnTombstones
    <3>6. budget[c] \in [Accounts -> Nat] /\ receipt[c] \in Receipt
      BY DEF ReceiverTypes, LocalTypes, Receipt
    <3>7. QED
      BY <3>2, <3>4, <3>5, <3>6, SumsAtEnd
  <2>3. QED
    BY <2>1, <2>2 DEF ReceiptAddsUp
<1>2. QED
  BY <1>1, SumsInit, SumsStep, TombstonesInit, TombstonesStep, TypesInit, TypesStep, ReplayInit, ReplayStep,
     PTL DEF Spec
=============================================================================
