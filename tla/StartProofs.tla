----------------------------- MODULE StartProofs -----------------------------
(***************************************************************************)
(* Theorems about DaemonStart, for any number of daemons and keys.         *)
(***************************************************************************)
EXTENDS DaemonStart, TLAPS

\* At most one daemon installs a key, and what it has written is in the file.
Installing ==
  /\ \A p, q \in Procs :
       pc[p] \in {"write", "sync"} /\ pc[q] \in {"write", "sync"} => p = q
  /\ \A p \in Procs : pc[p] = "sync" => keyFile = id[p]

\* The group has one creator: besides the owner and whoever administered it
\* before, at most one key; and the host shows no more than there is.
OneCreator ==
  /\ ~group.exists => group.admins = {}
  /\ \A a, b \in group.admins \ {Owner, Foreign} : a = b
  /\ shown.admins \subseteq group.admins
  /\ shown.meta => group.exists

\* A write does what its token says: it is of the token's key, and once it is
\* acknowledged its effect is there.
WritesTruthful ==
  \A p \in Procs :
    /\ \A k \in Keys : writes[p][CreateToken(k)] # None =>
         /\ writes[p][CreateToken(k)].author = k
         /\ writes[p][CreateToken(k)].status = "acked" => k \in group.admins
    /\ HostAcked(p, PromoteToken) => Owner \in group.admins

\* A daemon promotes the owner only if it administers the group itself, and
\* does without the promotion only if there is nothing to promote.
PlansHold ==
  \A p \in Procs :
    /\ pc[p] \in {"promote", "await_promote", "up"} => id[p] \in group.admins
    /\ pc[p] = "up" => Owner \in group.admins
    /\ pc[p] \in {"create_group", "await_create"} => toOwner[p] \/ id[p] = Owner

Inv == TypeOK /\ Installing /\ OneCreator /\ WritesTruthful /\ PlansHold

-----------------------------------------------------------------------------
\* Keys are neither of the two words for a file without one.
LEMMA KeysAreKeys == "absent" \notin Keys /\ "torn" \notin Keys
BY StartAssumption

\* The two kinds of token differ.
LEMMA TokenFacts ==
  /\ PromoteToken \in Tokens
  /\ \A k \in Keys : CreateToken(k) \in Tokens /\ CreateToken(k) # PromoteToken
  /\ \A t \in Tokens : t # PromoteToken => \E k \in Keys : t = CreateToken(k)
  /\ \A k, l : CreateToken(k) = CreateToken(l) => k = l
BY DEF Tokens, PromoteToken, CreateToken

\* An override is a key.
LEMMA OverrideIsKey ==
  ASSUME NEW p \in Procs, NEW override \in Overrides[p]
  PROVE  override \in Keys \cup {None}
BY DEF Keys

\* The initial states satisfy the invariant.
LEMMA InitInv == Init => Inv
<1> SUFFICES ASSUME Init PROVE Inv
  OBVIOUS
<1>1. Owner \in Keys /\ Foreign \in Admins /\ Owner \in Admins
  BY DEF Keys, Admins
<1>2. group.exists \in BOOLEAN /\ group.admins \in {{}, {Foreign}, {Owner}}
  /\ group \in [exists : BOOLEAN, admins : SUBSET Admins]
  /\ (~group.exists => group.admins = {})
  <2>1. CASE group = NoGroup
    BY <2>1 DEF NoGroup
  <2>2. CASE group \in [exists : {TRUE}, admins : {{Foreign}, {Owner}}]
    <3>1. group.exists = TRUE /\ group.admins \in {{Foreign}, {Owner}}
          /\ group = [exists |-> group.exists, admins |-> group.admins]
      BY <2>2
    <3> QED
      BY <3>1, <1>1
  <2> QED
    BY <2>1, <2>2 DEF Init
<1>3. TypeOK
  BY <1>1, <1>2 DEF Init, TypeOK
<1>4. Installing
  BY DEF Init, Installing
<1>5. OneCreator
  BY <1>2 DEF Init, OneCreator
<1>6. WritesTruthful
  BY TokenFacts DEF Init, WritesTruthful, HostAcked, Pending
<1>7. PlansHold
  BY DEF Init, PlansHold
<1> QED
  BY <1>3, <1>4, <1>5, <1>6, <1>7 DEF Inv

-----------------------------------------------------------------------------
(* The identity steps leave the group, the host and the stores alone.       *)

\* No daemon's identity step takes another off the path it is on.
LEMMA LocalStep ==
  ASSUME Inv, NEW p \in Procs, UNCHANGED hostVars,
         pc' \in [Procs -> Steps \cup {"down"}],
         id' \in [Procs -> Keys \cup {None}],
         toOwner' \in [Procs -> BOOLEAN],
         pc'[p] \in {"down", "load", "generate", "write", "sync", "reload", "observe"},
         \A q \in Procs \ {p} : pc'[q] = pc[q] /\ id'[q] = id[q] /\ toOwner'[q] = toOwner[q]
  PROVE  OneCreator' /\ WritesTruthful' /\ PlansHold'
<1>1. OneCreator'
  BY DEF Inv, OneCreator, hostVars
<1>2. WritesTruthful'
  BY DEF Inv, WritesTruthful, hostVars, HostAcked, Pending
<1>3. PlansHold'
  BY DEF Inv, PlansHold, hostVars
<1> QED
  BY <1>1, <1>2, <1>3

\* The identity file and the steps around it keep the invariant.
LEMMA IdentityStep ==
  ASSUME Inv, NEW p \in Procs,
         \/ \E override \in Overrides[p] : Start(p, override)
         \/ Load(p)
         \/ \E k \in Fresh : Generate(p, k)
         \/ WriteKey(p)
         \/ SyncKey(p)
         \/ PersistFails(p)
         \/ Reload(p)
  PROVE  Inv'
<1> USE DEF Goto, Registers, Ends, hostVars
<1>0. TypeOK /\ Installing
  BY DEF Inv
<1>1. CASE \E override \in Overrides[p] : Start(p, override)
  <2> PICK override \in Overrides[p] : Start(p, override)
    BY <1>1
  <2>1. override \in Keys \cup {None}
    BY OverrideIsKey
  <2>2. TypeOK'
    BY <1>0, <2>1 DEF Start, TypeOK, Steps
  <2>3. Installing'
    BY <1>0 DEF Start, TypeOK, Installing
  <2>4. OneCreator' /\ WritesTruthful' /\ PlansHold'
    BY <1>0, <2>2, LocalStep DEF Start, TypeOK
  <2> QED
    BY <2>2, <2>3, <2>4 DEF Inv
<1>2. CASE Load(p)
  <2>2. TypeOK'
    <3>1. CASE keyFile = "absent"
      BY <3>1, <1>0, <1>2, KeysAreKeys DEF Load, TypeOK, Steps
    <3>2. CASE keyFile = "torn"
      BY <3>2, <1>0, <1>2, KeysAreKeys DEF Load, TypeOK, Steps
    <3>3. CASE keyFile \in Keys
      <4>1. /\ pc' = [pc EXCEPT ![p] = "observe"]
            /\ id' = [id EXCEPT ![p] = keyFile]
            /\ UNCHANGED <<keyFile, toOwner, writes, group, shown>>
        BY <3>3, <1>2, KeysAreKeys DEF Load
      <4>2. pc' \in [Procs -> Steps \cup {"down"}]
        BY <4>1, <1>0 DEF TypeOK, Steps
      <4>3. id' \in [Procs -> Keys \cup {None}]
        BY <4>1, <3>3, <1>0 DEF TypeOK
      <4>4. \A q \in Procs :
              pc'[q] \notin {"down", "load", "generate", "reload"} => id'[q] \in Keys
        BY <4>1, <3>3, <1>0 DEF TypeOK
      <4>5. \A q \in Procs : pc'[q] = "write" => keyFile' = "torn"
        BY <4>1, <1>0 DEF TypeOK
      <4> QED
        BY <4>1, <4>2, <4>3, <4>4, <4>5, <1>0 DEF TypeOK
    <3> QED
      BY <3>1, <3>2, <3>3, <1>2 DEF Load
  <2>3. Installing'
    BY <1>0, <1>2, KeysAreKeys DEF Load, TypeOK, Installing
  <2>4. OneCreator' /\ WritesTruthful' /\ PlansHold'
    BY <1>0, <1>2, <2>2, LocalStep DEF Load, TypeOK
  <2> QED
    BY <2>2, <2>3, <2>4 DEF Inv
<1>3. CASE \E k \in Fresh : Generate(p, k)
  <2> PICK k \in Fresh : Generate(p, k)
    BY <1>3
  <2>1. k \in Keys
    BY DEF Keys
  <2>2. TypeOK'
    BY <1>0, <2>1, KeysAreKeys DEF Generate, TypeOK, Steps, Installing
  <2>3. Installing'
    <3>1. CASE keyFile # "absent"
      BY <3>1, <1>0 DEF Generate, TypeOK, Installing
    <3>2. CASE keyFile = "absent"
      <4>1. \A q \in Procs : pc[q] \notin {"write", "sync"}
        BY <3>2, <1>0, KeysAreKeys DEF TypeOK, Installing
      <4> QED
        BY <3>2, <4>1, <1>0 DEF Generate, TypeOK, Installing
    <3> QED
      BY <3>1, <3>2
  <2>4. OneCreator' /\ WritesTruthful' /\ PlansHold'
    BY <1>0, <2>1, <2>2, LocalStep DEF Generate, TypeOK
  <2> QED
    BY <2>2, <2>3, <2>4 DEF Inv
<1>4. CASE WriteKey(p)
  <2>2. TypeOK'
    BY <1>0, <1>4, KeysAreKeys DEF WriteKey, TypeOK, Steps, Installing
  <2>3. Installing'
    BY <1>0, <1>4, KeysAreKeys DEF WriteKey, TypeOK, Installing
  <2>4. OneCreator' /\ WritesTruthful' /\ PlansHold'
    BY <1>0, <1>4, <2>2, LocalStep DEF WriteKey, TypeOK
  <2> QED
    BY <2>2, <2>3, <2>4 DEF Inv
<1>5. CASE SyncKey(p)
  <2>2. TypeOK'
    BY <1>0, <1>5, KeysAreKeys DEF SyncKey, TypeOK, Steps, Installing
  <2>3. Installing'
    BY <1>0, <1>5, KeysAreKeys DEF SyncKey, TypeOK, Installing
  <2>4. OneCreator' /\ WritesTruthful' /\ PlansHold'
    BY <1>0, <1>5, <2>2, LocalStep DEF SyncKey, TypeOK
  <2> QED
    BY <2>2, <2>3, <2>4 DEF Inv
<1>6. CASE PersistFails(p)
  <2>2. TypeOK'
    BY <1>0, <1>6, KeysAreKeys DEF PersistFails, TypeOK, Steps, Installing
  <2>3. Installing'
    BY <1>0, <1>6, KeysAreKeys DEF PersistFails, TypeOK, Installing
  <2>4. OneCreator' /\ WritesTruthful' /\ PlansHold'
    BY <1>0, <1>6, <2>2, LocalStep DEF PersistFails, TypeOK
  <2> QED
    BY <2>2, <2>3, <2>4 DEF Inv
<1>7. CASE Reload(p)
  <2>2. TypeOK'
    <3>1. CASE keyFile \in Keys
      <4>1. /\ pc' = [pc EXCEPT ![p] = "observe"]
            /\ id' = [id EXCEPT ![p] = keyFile]
            /\ UNCHANGED <<keyFile, toOwner, writes, group, shown>>
        BY <3>1, <1>7, KeysAreKeys DEF Reload
      <4>2. pc' \in [Procs -> Steps \cup {"down"}]
        BY <4>1, <1>0 DEF TypeOK, Steps
      <4>3. id' \in [Procs -> Keys \cup {None}]
        BY <4>1, <3>1, <1>0 DEF TypeOK
      <4>4. \A q \in Procs :
              pc'[q] \notin {"down", "load", "generate", "reload"} => id'[q] \in Keys
        BY <4>1, <3>1, <1>0 DEF TypeOK
      <4>5. \A q \in Procs : pc'[q] = "write" => keyFile' = "torn"
        BY <4>1, <1>0 DEF TypeOK
      <4> QED
        BY <4>1, <4>2, <4>3, <4>4, <4>5, <1>0 DEF TypeOK
    <3>2. CASE keyFile \notin Keys
      BY <3>2, <1>0, <1>7, KeysAreKeys DEF Reload, TypeOK, Steps
    <3> QED
      BY <3>1, <3>2, <1>7 DEF Reload
  <2>3. Installing'
    BY <1>0, <1>7, KeysAreKeys DEF Reload, TypeOK, Installing
  <2>4. OneCreator' /\ WritesTruthful' /\ PlansHold'
    BY <1>0, <1>7, <2>2, LocalStep DEF Reload, TypeOK
  <2> QED
    BY <2>2, <2>3, <2>4 DEF Inv
<1> QED
  BY <1>1, <1>2, <1>3, <1>4, <1>5, <1>6, <1>7

-----------------------------------------------------------------------------
(* The bootstrap                                                           *)

\* A step that moves one daemon on, with its key, keeps the types and the
\* installation of a key.
LEMMA MoveStep ==
  ASSUME Inv, NEW p \in Procs, NEW step \in Steps,
         pc[p] \in {"observe", "create_group", "await_create", "promote", "await_promote"},
         step \in {"create_group", "await_create", "promote", "await_promote", "up"},
         pc' = [pc EXCEPT ![p] = step],
         toOwner' \in [Procs -> BOOLEAN],
         writes' \in [Procs -> [Tokens -> Write \cup {None}]],
         UNCHANGED <<keyFile, id, group, shown>>
  PROVE  TypeOK' /\ Installing' /\ OneCreator'
<1>1. TypeOK'
  BY DEF Inv, TypeOK, Steps
<1>2. Installing'
  BY DEF Inv, TypeOK, Installing
<1>3. OneCreator'
  BY DEF Inv, OneCreator
<1> QED
  BY <1>1, <1>2, <1>3

\* A daemon that ends takes nothing with it but its memory.
LEMMA EndStep ==
  ASSUME Inv, NEW p \in Procs, Ends(p), UNCHANGED <<keyFile, hostVars>>
  PROVE  Inv'
<1>1. TypeOK'
  BY DEF Inv, TypeOK, Ends, hostVars
<1>2. Installing'
  BY DEF Inv, TypeOK, Installing, Ends, hostVars
<1>3. OneCreator' /\ WritesTruthful' /\ PlansHold'
  BY <1>1, LocalStep DEF Inv, TypeOK, Ends, hostVars
<1> QED
  BY <1>1, <1>2, <1>3 DEF Inv

\* The plan made of what the host shows is sound.
LEMMA ObserveStep ==
  ASSUME Inv, NEW p \in Procs, Observe(p)
  PROVE  Inv'
<1>1. CASE FirstStep(id[p]) = "refused"
  BY <1>1, EndStep DEF Observe
<1>2. CASE FirstStep(id[p]) # "refused"
  <2>1. /\ pc[p] = "observe"
        /\ pc' = [pc EXCEPT ![p] = FirstStep(id[p])]
        /\ toOwner' = [toOwner EXCEPT ![p] = Promotes(id[p])]
        /\ UNCHANGED <<keyFile, id, hostVars>>
    BY <1>2 DEF Observe, Goto
  <2>2. Promotes(id[p]) \in BOOLEAN
    BY DEF Promotes, IsAdmin
  <2>3. FirstStep(id[p]) \in {"create_group", "promote", "up"}
    BY <1>2 DEF FirstStep
  <2>4. TypeOK' /\ Installing' /\ OneCreator'
    BY <2>1, <2>2, <2>3, MoveStep DEF hostVars, Steps, Inv, TypeOK
  <2>5. WritesTruthful'
    BY <2>1 DEF Inv, WritesTruthful, HostAcked, Pending, hostVars
  <2>6. PlansHold'
    <3>1. CASE FirstStep(id[p]) = "create_group"
      <4>1. Promotes(id[p]) \/ id[p] = Owner
        BY <3>1 DEF FirstStep, Promotes
      <4> QED
        BY <3>1, <4>1, <2>1 DEF Inv, TypeOK, PlansHold, hostVars
    <3>2. CASE FirstStep(id[p]) # "create_group"
      <4>1. /\ id[p] \in group.admins
            /\ FirstStep(id[p]) = "up" => Owner \in group.admins
        BY <3>2, <1>2 DEF FirstStep, IsAdmin, Inv, OneCreator
      <4> QED
        BY <3>2, <4>1, <2>1, <2>3 DEF Inv, TypeOK, PlansHold, hostVars
    <3> QED
      BY <3>1, <3>2
  <2> QED
    BY <2>4, <2>5, <2>6 DEF Inv
<1> QED
  BY <1>1, <1>2

\* What a submission leaves in the store of a daemon.
LEMMA SubmitFacts ==
  ASSUME TypeOK, NEW p \in Procs, NEW t \in Tokens, id[p] \in Keys, Submit(p, t)
  PROVE  /\ writes' \in [Procs -> [Tokens -> Write \cup {None}]]
         /\ \A q \in Procs, u \in Tokens :
              writes'[q][u] # writes[q][u] =>
                /\ q = p /\ u = t /\ writes[q][u] = None
                /\ writes'[q][u] = [author |-> id[p], status |-> "accepted"]
<1>1. [author |-> id[p], status |-> "accepted"] \in Write
  BY DEF Write
<1> QED
  BY <1>1 DEF TypeOK, Submit

\* Both submissions keep the invariant.
LEMMA SubmitStep ==
  ASSUME Inv, NEW p \in Procs, CreateGroup(p) \/ Promote(p)
  PROVE  Inv'
<1>1. CASE CreateGroup(p)
  <2>1. id[p] \in Keys /\ TypeOK
    BY <1>1 DEF CreateGroup, Inv, TypeOK
  <2>2. CreateToken(id[p]) \in Tokens
    BY <2>1, TokenFacts
  <2>3. /\ writes' \in [Procs -> [Tokens -> Write \cup {None}]]
        /\ \A q \in Procs, u \in Tokens :
             writes'[q][u] # writes[q][u] =>
               /\ q = p /\ u = CreateToken(id[p]) /\ writes[q][u] = None
               /\ writes'[q][u] = [author |-> id[p], status |-> "accepted"]
    BY <1>1, <2>1, <2>2, SubmitFacts DEF CreateGroup
  <2>4. TypeOK' /\ Installing' /\ OneCreator'
    BY <1>1, <2>1, <2>3, MoveStep DEF CreateGroup, Goto, Steps, TypeOK
  <2>5. WritesTruthful'
    BY <1>1, <2>3, TokenFacts
    DEF CreateGroup, Inv, WritesTruthful, HostAcked, Pending
  <2>6. PlansHold'
    BY <1>1, <2>1 DEF CreateGroup, Goto, Inv, TypeOK, PlansHold
  <2> QED
    BY <2>4, <2>5, <2>6 DEF Inv
<1>2. CASE Promote(p)
  <2>1. id[p] \in Keys /\ TypeOK
    BY <1>2 DEF Promote, Inv, TypeOK
  <2>3. /\ writes' \in [Procs -> [Tokens -> Write \cup {None}]]
        /\ \A q \in Procs, u \in Tokens :
             writes'[q][u] # writes[q][u] =>
               /\ q = p /\ u = PromoteToken /\ writes[q][u] = None
               /\ writes'[q][u] = [author |-> id[p], status |-> "accepted"]
    BY <1>2, <2>1, TokenFacts, SubmitFacts DEF Promote
  <2>4. TypeOK' /\ Installing' /\ OneCreator'
    BY <1>2, <2>1, <2>3, MoveStep DEF Promote, Goto, Steps, TypeOK
  <2>5. WritesTruthful'
    BY <1>2, <2>3, TokenFacts
    DEF Promote, Inv, WritesTruthful, HostAcked, Pending
  <2>6. PlansHold'
    BY <1>2, <2>1 DEF Promote, Goto, Inv, TypeOK, PlansHold
  <2> QED
    BY <2>4, <2>5, <2>6 DEF Inv
<1> QED
  BY <1>1, <1>2

\* An acknowledged receipt carries the daemon to the next step of its plan.
LEMMA AwaitStep ==
  ASSUME Inv, NEW p \in Procs, AwaitCreate(p) \/ AwaitPromote(p)
  PROVE  Inv'
<1>1. CASE AwaitCreate(p) /\ HostAcked(p, CreateToken(id[p]))
  <2>1. CASE Ends(p)
    BY <1>1, <2>1, EndStep DEF AwaitCreate
  <2>2. CASE ~Ends(p)
    <3>1. /\ pc[p] = "await_create"
          /\ pc' = [pc EXCEPT ![p] = IF toOwner[p] THEN "promote" ELSE "up"]
          /\ UNCHANGED <<keyFile, id, toOwner, hostVars>>
      BY <1>1, <2>2 DEF AwaitCreate, Goto
    <3>2. id[p] \in Keys /\ TypeOK
      BY <3>1 DEF Inv, TypeOK
    <3>3. id[p] \in group.admins
      BY <1>1, <3>2 DEF Inv, WritesTruthful, HostAcked, Pending
    <3>4. TypeOK' /\ Installing' /\ OneCreator'
      <4>1. (IF toOwner[p] THEN "promote" ELSE "up") \in Steps \cap {"promote", "up"}
        BY DEF Steps
      <4> QED
        BY <3>1, <3>2, <4>1, MoveStep DEF hostVars, TypeOK
    <3>5. WritesTruthful'
      BY <3>1 DEF Inv, WritesTruthful, HostAcked, Pending, hostVars
    <3>6. PlansHold'
      BY <3>1, <3>2, <3>3 DEF Inv, TypeOK, PlansHold, hostVars
    <3> QED
      BY <3>4, <3>5, <3>6 DEF Inv
  <2> QED
    BY <2>1, <2>2
<1>2. CASE AwaitPromote(p) /\ HostAcked(p, PromoteToken)
  <2>1. CASE Ends(p)
    BY <1>2, <2>1, EndStep DEF AwaitPromote
  <2>2. CASE ~Ends(p)
    <3>1. /\ pc[p] = "await_promote"
          /\ pc' = [pc EXCEPT ![p] = "up"]
          /\ UNCHANGED <<keyFile, id, toOwner, hostVars>>
      BY <1>2, <2>2 DEF AwaitPromote, Goto
    <3>2. Owner \in group.admins /\ TypeOK
      BY <1>2 DEF Inv, WritesTruthful
    <3>4. TypeOK' /\ Installing' /\ OneCreator'
      BY <3>1, <3>2, MoveStep DEF hostVars, Steps, TypeOK
    <3>5. WritesTruthful'
      BY <3>1 DEF Inv, WritesTruthful, HostAcked, Pending, hostVars
    <3>6. PlansHold'
      BY <3>1, <3>2 DEF Inv, TypeOK, PlansHold, hostVars
    <3> QED
      BY <3>4, <3>5, <3>6 DEF Inv
  <2> QED
    BY <2>1, <2>2
<1>3. CASE ~HostAcked(p, CreateToken(id[p])) /\ AwaitCreate(p)
  BY <1>3, EndStep DEF AwaitCreate
<1>4. CASE ~HostAcked(p, PromoteToken) /\ AwaitPromote(p)
  BY <1>4, EndStep DEF AwaitPromote
<1> QED
  BY <1>1, <1>2, <1>3, <1>4

-----------------------------------------------------------------------------
(* NMP and the host                                                        *)

\* What a write makes of the group, if it may.
LEMMA EffectFacts ==
  ASSUME Inv, NEW p \in Procs, NEW t \in Tokens, writes[p][t] # None,
         Allowed(t, writes[p][t].author), group' = Effect(t, writes[p][t].author),
         UNCHANGED <<pc, shown>>
  PROVE  /\ group' \in [exists : BOOLEAN, admins : SUBSET Admins]
         /\ group.admins \subseteq group'.admins
         /\ t = PromoteToken => Owner \in group'.admins
         /\ \A k \in Keys : t = CreateToken(k) => k \in group'.admins
         /\ OneCreator'
<1> DEFINE author == writes[p][t].author
<1>1. author \in Keys /\ Owner \in Keys /\ Keys \subseteq Admins
  BY DEF Inv, TypeOK, Write, Keys, Admins
<1>2. /\ group'.exists = TRUE
      /\ group'.admins = group.admins \cup {IF t = PromoteToken THEN Owner ELSE author}
      /\ group' \in [exists : BOOLEAN, admins : SUBSET Admins]
  BY <1>1 DEF Effect, Inv, TypeOK
<1>3. \A k \in Keys : t = CreateToken(k) => author = k /\ t # PromoteToken
  BY TokenFacts DEF Inv, WritesTruthful
<1>4. t # PromoteToken => group.admins = {}
  BY DEF Allowed, Inv, OneCreator
<1>5. OneCreator'
  BY <1>1, <1>2, <1>4 DEF Inv, OneCreator
<1> QED
  BY <1>2, <1>3, <1>5

\* An outcome keeps the invariant if it is true of the group.
LEMMA OutcomeStep ==
  ASSUME Inv, NEW p \in Procs, NEW t \in Tokens, NEW status \in {"acked", "refused"},
         writes[p][t] # None, Status(p, t, status),
         group' \in [exists : BOOLEAN, admins : SUBSET Admins],
         group.admins \subseteq group'.admins,
         OneCreator',
         status = "acked" =>
           /\ t = PromoteToken => Owner \in group'.admins
           /\ \A k \in Keys : t = CreateToken(k) => k \in group'.admins,
         UNCHANGED <<keyFile, pc, id, toOwner, shown>>
  PROVE  Inv'
<1>1. /\ writes' \in [Procs -> [Tokens -> Write \cup {None}]]
      /\ \A q \in Procs, u \in Tokens :
           IF q = p /\ u = t
           THEN writes'[q][u] = [writes[q][u] EXCEPT !.status = status]
           ELSE writes'[q][u] = writes[q][u]
  <2>1. [writes[p][t] EXCEPT !.status = status] \in Write
    BY DEF Inv, TypeOK, Write
  <2> QED
    BY <2>1 DEF Inv, TypeOK, Status
<1>2. writes[p][t] \in Write
  BY DEF Inv, TypeOK
<1>3. TypeOK'
  BY <1>1 DEF Inv, TypeOK
<1>4. Installing'
  BY DEF Inv, Installing
<1>5. WritesTruthful'
  <2>1. /\ writes'[p][t] # None => writes'[p][t].status = status
        /\ writes'[p][t].author = writes[p][t].author
    BY <1>1, <1>2 DEF Write
  <2> SUFFICES ASSUME NEW q \in Procs
               PROVE  /\ \A k \in Keys : writes'[q][CreateToken(k)] # None =>
                           /\ writes'[q][CreateToken(k)].author = k
                           /\ writes'[q][CreateToken(k)].status = "acked" => k \in group'.admins
                      /\ HostAcked(q, PromoteToken)' => Owner \in group'.admins
    BY DEF WritesTruthful
  <2>2. ASSUME NEW k \in Keys, writes'[q][CreateToken(k)] # None
        PROVE  /\ writes'[q][CreateToken(k)].author = k
               /\ writes'[q][CreateToken(k)].status = "acked" => k \in group'.admins
    <3>1. CASE q = p /\ CreateToken(k) = t
      BY <2>1, <2>2, <3>1 DEF Inv, WritesTruthful
    <3>2. CASE ~(q = p /\ CreateToken(k) = t)
      <4>1. writes'[q][CreateToken(k)] = writes[q][CreateToken(k)]
        BY <1>1, <3>2, TokenFacts
      <4> QED
        BY <2>2, <4>1 DEF Inv, WritesTruthful
    <3> QED
      BY <3>1, <3>2
  <2>3. HostAcked(q, PromoteToken)' => Owner \in group'.admins
    <3>1. CASE q = p /\ PromoteToken = t
      BY <2>1, <3>1 DEF HostAcked, Pending
    <3>2. CASE ~(q = p /\ PromoteToken = t)
      <4>1. writes'[q][PromoteToken] = writes[q][PromoteToken]
        BY <1>1, <3>2, TokenFacts
      <4> QED
        BY <4>1 DEF Inv, WritesTruthful, HostAcked, Pending
    <3> QED
      BY <3>1, <3>2
  <2> QED
    BY <2>2, <2>3
<1>6. PlansHold'
  BY DEF Inv, PlansHold
<1> QED
  BY <1>3, <1>4, <1>5, <1>6 DEF Inv

\* The host's decisions and what it shows of them.
LEMMA HostStep ==
  ASSUME Inv,
         \/ \E p \in Procs, t \in Tokens : Deliver(p, t) \/ Refuse(p, t)
         \/ ShowMeta
         \/ ShowAdmins
  PROVE  Inv'
<1>1. ASSUME NEW p \in Procs, NEW t \in Tokens, Deliver(p, t)
      PROVE  Inv'
  <2>1. writes[p][t] # None
    BY <1>1 DEF Deliver, Pending
  <2>2. CASE Allowed(t, writes[p][t].author)
    <3>1. /\ group' = Effect(t, writes[p][t].author)
          /\ Status(p, t, "acked")
          /\ UNCHANGED <<keyFile, pc, id, toOwner, shown>>
      BY <1>1, <2>2 DEF Deliver
    <3> QED
      BY <2>1, <2>2, <3>1, EffectFacts, OutcomeStep
  <2>3. CASE ~Allowed(t, writes[p][t].author)
    <3>1. /\ group' = group
          /\ Status(p, t, "refused")
          /\ UNCHANGED <<keyFile, pc, id, toOwner, shown>>
      BY <1>1, <2>3 DEF Deliver
    <3>2. OneCreator'
      BY <3>1 DEF Inv, OneCreator
    <3> QED
      BY <2>1, <3>1, <3>2, OutcomeStep DEF Inv, TypeOK
  <2> QED
    BY <2>2, <2>3
<1>2. ASSUME NEW p \in Procs, NEW t \in Tokens, Refuse(p, t)
      PROVE  Inv'
  <2>1. /\ writes[p][t] # None
        /\ Status(p, t, "refused")
        /\ UNCHANGED <<keyFile, pc, id, toOwner, shown>>
    BY <1>2 DEF Refuse, Pending
  <2>2. CASE group' = group
    <3>1. OneCreator'
      BY <2>1, <2>2 DEF Inv, OneCreator
    <3> QED
      BY <2>1, <2>2, <3>1, OutcomeStep DEF Inv, TypeOK
  <2>3. CASE /\ Allowed(t, writes[p][t].author)
             /\ group' = Effect(t, writes[p][t].author)
    BY <2>1, <2>3, EffectFacts, OutcomeStep
  <2> QED
    BY <1>2, <2>2, <2>3 DEF Refuse
<1>3. CASE ShowMeta \/ ShowAdmins
  <2>1. TypeOK'
    BY <1>3 DEF ShowMeta, ShowAdmins, Inv, TypeOK
  <2>2. OneCreator'
    BY <1>3 DEF ShowMeta, ShowAdmins, Inv, TypeOK, OneCreator
  <2>3. Installing' /\ WritesTruthful' /\ PlansHold'
    BY <1>3 DEF ShowMeta, ShowAdmins, Inv, Installing, WritesTruthful, PlansHold,
                HostAcked, Pending
  <2> QED
    BY <2>1, <2>2, <2>3 DEF Inv
<1> QED
  BY <1>1, <1>2, <1>3

\* Every step keeps the invariant.
LEMMA NextInv == Inv /\ [Next]_vars => Inv'
<1> SUFFICES ASSUME Inv, [Next]_vars PROVE Inv'
  OBVIOUS
<1>1. CASE UNCHANGED vars
  BY <1>1 DEF vars, Inv, TypeOK, Installing, OneCreator, WritesTruthful, PlansHold,
              HostAcked, Pending
<1>2. ASSUME NEW p \in Procs,
             \/ \E override \in Overrides[p] : Start(p, override)
             \/ StartStep(p)
             \/ PersistFails(p)
      PROVE  Inv'
  BY <1>2, IdentityStep, ObserveStep, SubmitStep, AwaitStep DEF StartStep
<1>3. ASSUME NEW p \in Procs, End(p)
      PROVE  Inv'
  BY <1>3, EndStep DEF End
<1>4. CASE \/ \E p \in Procs, t \in Tokens : Deliver(p, t) \/ Refuse(p, t)
           \/ ShowMeta
           \/ ShowAdmins
  BY <1>4, HostStep
<1> QED
  BY <1>1, <1>2, <1>3, <1>4 DEF Next

-----------------------------------------------------------------------------
\* The invariant of a start: one daemon at a time installs a key, the group
\* has one creator, tracked writes tell the truth and plans stay valid.
THEOREM Invariance == Spec => []Inv
BY InitInv, NextInv, PTL DEF Spec

\* Every reachable state is well typed, whatever the daemons and keys.
THEOREM TypeCorrect == Spec => []TypeOK
<1>1. Inv => TypeOK
  BY DEF Inv
<1> QED
  BY <1>1, Invariance, PTL

\* A daemon that serves administers its group and so does the owner, and the
\* daemons that serve at the same time sign with one key or the owner's.
THEOREM InCharge == Spec => []OneInCharge
<1>1. Inv => OneInCharge
  <2> SUFFICES ASSUME Inv PROVE OneInCharge
    OBVIOUS
  <2>1. \A p \in Procs : pc[p] = "up" =>
          group.exists /\ {id[p], Owner} \subseteq group.admins /\ id[p] # Foreign
    BY StartAssumption DEF Inv, TypeOK, PlansHold, OneCreator
  <2> QED
    BY <2>1 DEF Inv, OneCreator, OneInCharge
<1> QED
  BY <1>1, Invariance, PTL

\* The promotion of the owner is submitted only in the name of a key that
\* administers the group: no daemon seizes a group it was not given.
THEOREM NoSeizure == Spec => NeverSeizes
<1>1. Inv /\ [Next]_vars =>
        [\A p \in Procs : SubmitsPromotion(p) => id[p] \in group.admins]_vars
  <2> SUFFICES ASSUME Inv, Next, NEW p \in Procs, SubmitsPromotion(p)
               PROVE  id[p] \in group.admins
    BY DEF NeverSeizes
  <2>1. writes[p][PromoteToken] = None /\ writes'[p][PromoteToken] # None
    BY DEF SubmitsPromotion
  <2>2. ASSUME NEW q \in Procs, CreateGroup(q)
        PROVE  FALSE
    <3>1. id[q] \in Keys /\ TypeOK
      BY <2>2 DEF CreateGroup, Inv, TypeOK
    <3>2. CreateToken(id[q]) \in Tokens /\ CreateToken(id[q]) # PromoteToken
      BY <3>1, TokenFacts
    <3>3. \A r \in Procs, u \in Tokens :
            writes'[r][u] # writes[r][u] =>
              /\ r = q /\ u = CreateToken(id[q]) /\ writes[r][u] = None
              /\ writes'[r][u] = [author |-> id[q], status |-> "accepted"]
      BY <2>2, <3>1, <3>2, SubmitFacts DEF CreateGroup
    <3> QED
      BY <2>1, <3>2, <3>3, TokenFacts
  <2>3. ASSUME NEW q \in Procs, Promote(q)
        PROVE  id[p] \in group.admins
    <3>1. id[q] \in Keys /\ TypeOK /\ id[q] \in group.admins
      BY <2>3 DEF Promote, Inv, TypeOK, PlansHold
    <3>2. \A r \in Procs, u \in Tokens :
            writes'[r][u] # writes[r][u] =>
              /\ r = q /\ u = PromoteToken /\ writes[r][u] = None
              /\ writes'[r][u] = [author |-> id[q], status |-> "accepted"]
      BY <2>3, <3>1, TokenFacts, SubmitFacts DEF Promote
    <3>3. q = p
      BY <2>1, <3>2, TokenFacts
    <3> QED
      BY <3>1, <3>3
  <2>4. ASSUME NEW q \in Procs, NEW t \in Tokens, Deliver(q, t) \/ Refuse(q, t)
        PROVE  FALSE
    <3>1. writes[q][t] # None
      BY <2>4 DEF Deliver, Refuse, Pending
    <3>2. writes' = [writes EXCEPT ![q][t].status = "acked"]
            \/ writes' = [writes EXCEPT ![q][t].status = "refused"]
      BY <2>4 DEF Deliver, Refuse, Status
    <3> QED
      BY <2>1, <3>1, <3>2, TokenFacts DEF Inv, TypeOK
  <2>5. CASE UNCHANGED writes
    BY <2>1, <2>5
  <2> QED
    BY <2>2, <2>3, <2>4, <2>5
    DEF Next, StartStep, Start, Load, Generate, WriteKey, SyncKey, PersistFails, Reload,
        Observe, AwaitCreate, AwaitPromote, End, ShowMeta, ShowAdmins, hostVars
<1> QED
  BY <1>1, Invariance, PTL DEF Spec, NeverSeizes

\* A key that is completely installed stays, whoever starts, fails or dies.
THEOREM Kept == Spec => KeyKept
<1>1. Inv /\ [Next]_vars => [Installed => UNCHANGED keyFile]_vars
  <2> SUFFICES ASSUME Inv, Next, Installed PROVE UNCHANGED keyFile
    OBVIOUS
  <2>1. keyFile # "absent" /\ keyFile # "torn" /\ \A p \in Procs : pc[p] \notin {"write", "sync"}
    BY KeysAreKeys DEF Installed, Inv, TypeOK
  <2> QED
    BY <2>1
    DEF Next, StartStep, Start, Load, Generate, WriteKey, SyncKey, PersistFails, Reload,
        Observe, CreateGroup, AwaitCreate, Promote, AwaitPromote, End, Deliver, Refuse,
        ShowMeta, ShowAdmins
<1> QED
  BY <1>1, Invariance, PTL DEF Spec, KeyKept
=============================================================================
