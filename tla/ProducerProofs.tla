--------------------------- MODULE ProducerProofs ---------------------------
(***************************************************************************)
(* Proofs about Producer, for any number of processes, requests, receipts  *)
(* and advances.                                                           *)
(***************************************************************************)
EXTENDS ProducerHistory, TLAPS

-----------------------------------------------------------------------------
(* Records                                                                 *)

\* A record an action builds from a job record is a job record.
LEMMA NewJobType ==
  ASSUME NEW q \in Requests
  PROVE  NewJob(q) \in JobRecord
BY AuthorsAssumption DEF NewJob, JobRecord, Requests, Stages

LEMMA FrozenItemType ==
  ASSUME NEW j \in JobRecord, NEW f \in Audio
  PROVE  FrozenItem(j, f) \in Items
BY DEF FrozenItem, JobRecord, Items

LEMMA AuthorizedType ==
  ASSUME NEW j \in JobRecord, NEW e \in Evidence
  PROVE  Authorized(j, e) \in JobRecord
BY DEF Authorized, JobRecord, Stages

LEMMA AuthorizationAcceptedType ==
  ASSUME NEW j \in JobRecord, NEW n \in Receipts
  PROVE  AuthorizationAccepted(j, n) \in JobRecord
BY DEF AuthorizationAccepted, JobRecord, Stages

LEMMA PublicationAcceptedType ==
  ASSUME NEW j \in JobRecord, NEW n \in Receipts
  PROVE  PublicationAccepted(j, n) \in JobRecord
BY DEF PublicationAccepted, JobRecord, Stages

-----------------------------------------------------------------------------
(* What may change in the environment of a job                             *)

\* NMP keeps every write it accepted; only its status moves, and an
\* acknowledged write stays acknowledged.
Grows(w, w2) ==
  \A n \in Receipts : w[n] # None =>
    /\ w2[n] # None
    /\ w2[n].kind = w[n].kind
    /\ w2[n].rid = w[n].rid
    /\ w2[n].author = w[n].author
    /\ w2[n].item = w[n].item
    /\ w[n].status = "acked" => w2[n].status = "acked"

\* What a record vouches for stays true while files, blobs, members and writes
\* only grow.
LEMMA JobFactsStable ==
  ASSUME NEW j, NEW r, NEW f, NEW f2, NEW b, NEW b2, NEW m, NEW m2, NEW w, NEW w2,
         JobFacts(j, r, f, b, m, w),
         None \notin b, f # None => f2 = f, b \subseteq b2, m \subseteq m2,
         Grows(w, w2)
  PROVE  JobFacts(j, r, f2, b2, m2, w2)
BY DEF JobFacts, Grows

LEMMA WriteFactsStable ==
  ASSUME NEW x, NEW j, NEW j2, NEW f, NEW f2, NEW b, NEW b2, NEW m, NEW m2,
         NEW h, NEW h2,
         WriteFacts(x, j, f, b, m, h),
         None \notin b, f # None => f2 = f, b \subseteq b2, m \subseteq m2,
         h \subseteq h2,
         j # None => j2 # None /\ SameAdmission(j2, j)
  PROVE  WriteFacts(x, j2, f2, b2, m2, h2)
BY DEF WriteFacts, SameAdmission, FrozenItem
-----------------------------------------------------------------------------
(* Type correctness                                                        *)

\* A process that serves a request has it in memory; from the loop on it also
\* has a record of that request, which the journal holds too.
LEMMA Busy ==
  ASSUME Inv, NEW p \in Procs
  PROVE  /\ pc[p] \in {"admit", "insert", "loop", "stage", "save"} =>
              /\ req[p] \in Requests
              /\ req[p].rid \in Rids
              /\ req[p].author \in Authors
         /\ pc[p] \in {"loop", "stage", "save"} =>
              /\ job[p] \in JobRecord
              /\ job[p].author \in Authors
              /\ journal[req[p].rid] \in JobRecord
<1>1. pc[p] \in {"admit", "insert", "loop", "stage", "save"} => req[p] \in Requests
  BY DEF Inv, TypeOK, MemoryInv
<1>2. pc[p] \in {"loop", "stage", "save"} =>
        job[p] \in JobRecord /\ journal[req[p].rid] \in JobRecord
  BY <1>1 DEF Inv, TypeOK, MemoryInv, Requests
<1> QED
  BY <1>1, <1>2, AuthorsAssumption DEF Requests, JobRecord

\* The frozen item of a record in memory is an item, made of the audio file.
LEMMA FrozenJob ==
  ASSUME Inv, NEW p \in Procs, pc[p] \in {"loop", "stage", "save"},
         job[p].stage \in FrozenStages
  PROVE  /\ file[req[p].rid] \in Audio
         /\ job[p].item = FrozenItem(job[p], file[req[p].rid])
         /\ job[p].item \in Items
         /\ job[p].item.author = job[p].author
<1>1. job[p] \in JobRecord /\ req[p].rid \in Rids
  BY Busy
<1>2. JobFacts(job[p], req[p].rid, file[req[p].rid], blobs, members, writes)
  BY DEF Inv, MemoryInv, JobOK
<1>3. file[req[p].rid] \in blobs /\ job[p].item = FrozenItem(job[p], file[req[p].rid])
  BY <1>2 DEF JobFacts
<1>4. file[req[p].rid] \in Audio
  BY <1>3 DEF Inv, TypeOK
<1> QED
  BY <1>1, <1>3, <1>4, FrozenItemType DEF FrozenItem

\* The item of a spoken write is an item, made of what the journal admitted and
\* of the audio file.
LEMMA SpokenWrite ==
  ASSUME Inv, NEW n \in Receipts, writes[n] # None, writes[n].kind = "spoken"
  PROVE  /\ writes[n].rid \in Rids
         /\ journal[writes[n].rid] \in JobRecord
         /\ file[writes[n].rid] \in blobs
         /\ file[writes[n].rid] \in Audio
         /\ writes[n].item = FrozenItem(journal[writes[n].rid], file[writes[n].rid])
         /\ writes[n].item \in Items
         /\ writes[n].author \in members
<1>1. writes[n] \in Write /\ writes[n].rid \in Rids
  BY DEF Inv, TypeOK, Write
<1>2. WriteFacts(writes[n], journal[writes[n].rid], file[writes[n].rid], blobs, members, host)
  BY DEF Inv, WritesInv
<1>3. /\ journal[writes[n].rid] # None
      /\ file[writes[n].rid] \in blobs
      /\ writes[n].item = FrozenItem(journal[writes[n].rid], file[writes[n].rid])
      /\ writes[n].author \in members
  BY <1>2 DEF WriteFacts
<1>4. file[writes[n].rid] \in Audio /\ journal[writes[n].rid] \in JobRecord
  BY <1>1, <1>3 DEF Inv, TypeOK
<1> QED
  BY <1>1, <1>3, <1>4, FrozenItemType

LEMMA TypeStep ==
  ASSUME Inv, [Next]_vars
  PROVE  TypeOK'
<1> USE DEF Inv
<1>1. ASSUME NEW p \in Procs, Open(p) PROVE TypeOK'
  BY <1>1 DEF TypeOK, Open, nmpVars
<1>2. ASSUME NEW p \in Procs, NEW q \in Requests, Receive(p, q) PROVE TypeOK'
  BY <1>2, BoundsAssumption DEF TypeOK, Receive, StageBudget, nmpVars
<1>3. ASSUME NEW p \in Procs, AdmitAbsent(p) PROVE TypeOK'
  BY <1>3 DEF TypeOK, AdmitAbsent, nmpVars
<1>4. ASSUME NEW p \in Procs, AdmitExisting(p) PROVE TypeOK'
  BY <1>4, Busy DEF TypeOK, AdmitExisting, nmpVars
<1>5. ASSUME NEW p \in Procs, Finish(p),
             UNCHANGED <<file, blobs, nmpVars, cache>>,
             journal' \in [Rids -> JobRecord \cup {None}],
             replies' \in SUBSET [rid : Rids, input : Inputs, author : Authors, event : Items]
      PROVE TypeOK'
  BY <1>5, BoundsAssumption DEF TypeOK, Finish, nmpVars
<1>6. ASSUME NEW p \in Procs, AdmitConflict(p) PROVE TypeOK'
  BY <1>5, <1>6 DEF TypeOK, AdmitConflict
<1>7. ASSUME NEW p \in Procs, Insert(p) PROVE TypeOK'
  BY <1>7, Busy, NewJobType DEF TypeOK, Insert, nmpVars
<1>8. ASSUME NEW p \in Procs, Reply(p) PROVE TypeOK'
  <2>1. job[p].event \in Items
    BY <1>8, FrozenJob DEF Reply, MemoryInv, JobOK, JobFacts, FrozenStages
  <2>2. [rid |-> req[p].rid, input |-> req[p].input, author |-> req[p].author,
         event |-> job[p].event] \in
           [rid : Rids, input : Inputs, author : Authors, event : Items]
    BY <1>8, <2>1, Busy DEF Reply, Requests
  <2>3. QED
    BY <1>5, <1>8, <2>2 DEF TypeOK, Reply
<1>10. ASSUME NEW p \in Procs, Load(p) PROVE TypeOK'
  BY <1>10, Busy, BoundsAssumption DEF TypeOK, Load, BudgetLeft, nmpVars
<1>11. ASSUME NEW p \in Procs, NEW j \in JobRecord, Staged(p, j),
              file' \in [Rids -> Audio \cup {None}],
              blobs' \in SUBSET Audio,
              writes' \in [Receipts -> Write \cup {None}],
              UNCHANGED <<members, view, host>>,
              cache' \in [Procs -> [Authors -> Evidence \cup {None}]]
       PROVE  TypeOK'
  BY <1>11 DEF TypeOK, Staged
<1>12. ASSUME NEW p \in Procs, NEW audio \in Audio, Synthesize(p, audio) PROVE TypeOK'
  <2>1. req[p].rid \in Rids /\ job[p] \in JobRecord
    BY <1>12, Busy DEF Synthesize, AtStage
  <2>2. Linked(req[p].rid, audio) \in Audio
    BY <2>1 DEF Linked, TypeOK
  <2>3. [job[p] EXCEPT !.stage = "synthesized", !.audio = Linked(req[p].rid, audio)] \in JobRecord
    BY <2>1, <2>2 DEF JobRecord, Stages
  <2>4. QED
    BY <1>11, <1>12, <2>1, <2>2, <2>3 DEF Synthesize, TypeOK, nmpVars
<1>13. ASSUME NEW p \in Procs, MakeDurable(p) PROVE TypeOK'
  <2>1. req[p].rid \in Rids /\ job[p] \in JobRecord
    BY <1>13, Busy DEF MakeDurable, AtStage
  <2>2. job[p].audio \in Audio
    BY <1>13, <2>1 DEF MakeDurable, SameBytes, AtStage, MemoryInv, JobOK, JobFacts, JobRecord
  <2>3. [job[p] EXCEPT !.stage = "artifacts_durable", !.audio = None,
                       !.item = FrozenItem(job[p], job[p].audio)] \in JobRecord
    BY <2>1, <2>2, FrozenItemType DEF JobRecord, Stages
  <2>4. QED
    BY <1>11, <1>13, <2>2, <2>3 DEF MakeDurable, TypeOK, nmpVars
<1>14. ASSUME NEW p \in Procs, AuthorizeKnown(p) PROVE TypeOK'
  <2> DEFINE known == IF cache[p][job[p].author] # None
                      THEN cache[p][job[p].author] ELSE "group_state"
  <2>1. job[p] \in JobRecord /\ job[p].author \in Authors
    BY <1>14, Busy DEF AuthorizeKnown, AtStage
  <2>2. known \in Evidence
    BY <2>1 DEF TypeOK, Evidence
  <2>3. QED
    BY <1>11, <1>14, <2>1, <2>2, AuthorizedType DEF AuthorizeKnown, TypeOK, nmpVars
<1>15. ASSUME NEW p \in Procs, NEW n \in Receipts, AuthorizeAccept(p, n) PROVE TypeOK'
  <2>1. /\ job[p] \in JobRecord
        /\ job[p].author \in Authors
        /\ req[p].rid \in Rids
    BY <1>15, Busy DEF AuthorizeAccept, AtStage
  <2>2. [kind |-> "put_user", rid |-> req[p].rid, author |-> job[p].author,
         item |-> None, status |-> "accepted"] \in Write
    BY <2>1 DEF Write
  <2>3. writes' \in [Receipts -> Write \cup {None}]
    BY <1>15, <2>2 DEF AuthorizeAccept, TypeOK
  <2>4. QED
    BY <1>11, <1>15, <2>1, <2>3, AuthorizationAcceptedType DEF AuthorizeAccept, TypeOK
<1>16. ASSUME NEW p \in Procs, ResumeAuthorization(p) PROVE TypeOK'
  <2> DEFINE known == IF HostAcked(job[p].mreceipt) THEN "put_user"
                      ELSE cache[p][job[p].author]
  <2>1. job[p] \in JobRecord /\ job[p].author \in Authors
    BY <1>16, Busy DEF ResumeAuthorization, AtStage
  <2>2. known \in Evidence
    BY <1>16, <2>1 DEF ResumeAuthorization, TypeOK, Evidence
  <2>3. QED
    BY <1>11, <1>16, <2>1, <2>2, AuthorizedType DEF ResumeAuthorization, TypeOK, nmpVars
<1>17. ASSUME NEW p \in Procs, NEW n \in Receipts, Accept(p, n) PROVE TypeOK'
  <2>1. job[p] \in JobRecord /\ req[p].rid \in Rids
    BY <1>17, Busy DEF Accept, AtStage
  <2>2. job[p].item \in Items /\ job[p].item.author \in Authors
    BY <1>17, FrozenJob, Busy DEF Accept, AtStage, FrozenStages
  <2>3. [kind |-> "spoken", rid |-> req[p].rid, author |-> job[p].item.author,
         item |-> job[p].item, status |-> "accepted"] \in Write
    BY <2>1, <2>2 DEF Write
  <2>4. QED
    BY <1>11, <1>17, <2>1, <2>3, PublicationAcceptedType DEF Accept, TypeOK
<1>18. ASSUME NEW p \in Procs, ResumePublication(p) PROVE TypeOK'
  <2>1. job[p] \in JobRecord
    BY <1>18, Busy DEF ResumePublication, AtStage
  <2>2. job[p].receipt \in Receipts /\ writes[job[p].receipt] \in Write
    BY <1>18, <2>1 DEF ResumePublication, AtStage, MemoryInv, JobOK, JobFacts, TypeOK
  <2>3. [job[p] EXCEPT !.stage = "published",
                       !.event = writes[job[p].receipt].item] \in JobRecord
    BY <2>1, <2>2 DEF JobRecord, Stages, Write
  <2>4. QED
    BY <1>11, <1>18, <2>3 DEF ResumePublication, TypeOK, nmpVars
<1>19. ASSUME NEW p \in Procs, Save(p) PROVE TypeOK'
  <2>1. job[p] \in JobRecord /\ req[p].rid \in Rids
    BY <1>19, Busy DEF Save
  <2>2. journal' \in [Rids -> JobRecord \cup {None}]
    BY <1>19, <2>1 DEF Save, TypeOK
  <2>3. CASE Finish(p)
    BY <1>5, <1>19, <2>2, <2>3 DEF Save, TypeOK
  <2>4. CASE pc' = [pc EXCEPT ![p] = "loop"] /\ UNCHANGED <<req, budget, job>>
    BY <1>19, <2>2, <2>4 DEF Save, TypeOK, nmpVars
  <2>5. QED
    BY <1>19, <2>3, <2>4 DEF Save
<1>20. ASSUME NEW p \in Procs, Fail(p) PROVE TypeOK'
  BY <1>5, <1>20 DEF TypeOK, Fail
<1>21. ASSUME NEW p \in Procs, Crash(p) PROVE TypeOK'
  BY <1>21, BoundsAssumption DEF TypeOK, Crash, NoCache, nmpVars
<1>22. ASSUME NEW n \in Receipts, writes[n] # None,
              NEW s \in {"signed", "acked", "duplicate", "refused"},
              writes' = [writes EXCEPT ![n].status = s]
       PROVE  writes' \in [Receipts -> Write \cup {None}]
  BY <1>22 DEF TypeOK, Write
<1>23. ASSUME NEW n \in Receipts, NmpStep(n) PROVE TypeOK'
  <2>1. writes[n] \in Write
    BY <1>23 DEF NmpStep, Sign, DeliverPutUser, DeliverSpoken, Refuse, Deliverable, TypeOK
  <2>2. writes' \in [Receipts -> Write \cup {None}]
    BY <1>22, <1>23, <2>1 DEF NmpStep, Sign, DeliverPutUser, DeliverSpoken, Refuse, Deliverable
  <2>3. members' \in SUBSET Authors
    BY <1>23, <2>1 DEF NmpStep, Sign, DeliverPutUser, DeliverSpoken, Refuse, TypeOK, Write
  <2>4. host' \in SUBSET Items
    BY <1>23, <2>1, SpokenWrite
       DEF NmpStep, Sign, DeliverPutUser, DeliverSpoken, Refuse, Deliverable, TypeOK
  <2>5. QED
    BY <1>23, <2>2, <2>3, <2>4
       DEF NmpStep, Sign, DeliverPutUser, DeliverSpoken, Refuse, TypeOK, procVars
<1>24. ASSUME NEW a \in Authors, PublishState(a) PROVE TypeOK'
  BY <1>24 DEF TypeOK, PublishState, procVars
<1>25. CASE UNCHANGED vars
  BY <1>25 DEF TypeOK, vars
<1> QED
  BY <1>1, <1>2, <1>3, <1>4, <1>6, <1>7, <1>8, <1>10, <1>12, <1>13, <1>14,
     <1>15, <1>16, <1>17, <1>18, <1>19, <1>20, <1>21, <1>23, <1>24, <1>25
     DEF Next, ProcStep, ServeStep, StageStep
-----------------------------------------------------------------------------
(* What a step may never take back                                         *)

\* Admissions, audio files, blobs, members, host events and NMP writes are only
\* ever added.
Monotone ==
  /\ \A r \in Rids : journal[r] # None =>
       journal'[r] # None /\ SameAdmission(journal'[r], journal[r])
  /\ \A r \in Rids : file[r] # None => file'[r] = file[r]
  /\ blobs \subseteq blobs'
  /\ members \subseteq members'
  /\ host \subseteq host'
  /\ Grows(writes, writes')

LEMMA MonotoneStep ==
  ASSUME Inv, [Next]_vars
  PROVE  Monotone
<1> DEFINE Same == UNCHANGED <<journal, file, blobs, nmpVars>>
<1>1. ASSUME Same PROVE Monotone
  BY <1>1 DEF Monotone, SameAdmission, Grows, nmpVars
<1>2. ASSUME NEW p \in Procs, Insert(p) PROVE Monotone
  BY <1>2, Busy DEF Insert, MayLink, Monotone, SameAdmission, Grows, nmpVars, Inv, TypeOK
<1>3. ASSUME NEW p \in Procs, NEW audio \in Audio, Synthesize(p, audio) PROVE Monotone
  BY <1>3, Busy DEF Synthesize, Staged, AtStage, Linked, Monotone, SameAdmission, Grows, nmpVars,
     Inv, TypeOK
<1>4. ASSUME NEW p \in Procs, MakeDurable(p) PROVE Monotone
  BY <1>4 DEF MakeDurable, Staged, Monotone, SameAdmission, Grows, nmpVars
<1>5. ASSUME NEW p \in Procs, AuthorizeKnown(p) \/ ResumeAuthorization(p) \/ ResumePublication(p)
      PROVE  Same
  BY <1>5 DEF AuthorizeKnown, ResumeAuthorization, ResumePublication, Staged
<1>6. ASSUME NEW n \in Receipts, FreshReceipt(n), NEW x, writes' = [writes EXCEPT ![n] = x]
      PROVE  Grows(writes, writes')
  BY <1>6 DEF FreshReceipt, Grows, Inv, TypeOK
<1>7. ASSUME NEW p \in Procs, NEW n \in Receipts, AuthorizeAccept(p, n) PROVE Monotone
  <2>1. Grows(writes, writes')
    BY <1>6, <1>7 DEF AuthorizeAccept, Grows
  <2>2. QED
    BY <1>7, <2>1 DEF AuthorizeAccept, Staged, Monotone, SameAdmission
<1>8. ASSUME NEW p \in Procs, NEW n \in Receipts, Accept(p, n) PROVE Monotone
  <2>1. Grows(writes, writes')
    BY <1>6, <1>8 DEF Accept
  <2>2. QED
    BY <1>8, <2>1 DEF Accept, Staged, Monotone, SameAdmission
<1>9. ASSUME NEW p \in Procs, Save(p) PROVE Monotone
  <2>1. /\ req[p].rid \in Rids
        /\ job[p] # None
        /\ SameAdmission(job[p], journal[req[p].rid])
    BY <1>9, Busy DEF Save, Inv, MemoryInv
  <2>2. QED
    BY <1>9, <2>1 DEF Save, Monotone, SameAdmission, Grows, nmpVars, Inv, TypeOK
<1>10. ASSUME NEW n \in Receipts, writes[n] # None, writes[n].status # "acked",
              NEW s \in {"signed", "acked", "duplicate", "refused"},
              writes' = [writes EXCEPT ![n].status = s]
       PROVE  Grows(writes, writes')
  <2>1. writes[n] \in Write
    BY <1>10 DEF Inv, TypeOK
  <2>2. [writes[n] EXCEPT !.status = s] \in Write
    BY <2>1 DEF Write
  <2>3. QED
    BY <1>10, <2>1, <2>2, NoneAssumption DEF Grows, Inv, TypeOK, Write
<1>11. ASSUME NEW n \in Receipts, NmpStep(n) PROVE Monotone
  <2>1. Grows(writes, writes')
    BY <1>10, <1>11 DEF NmpStep, Sign, DeliverPutUser, DeliverSpoken, Refuse, Deliverable
  <2>2. QED
    BY <1>11, <2>1 DEF NmpStep, Sign, DeliverPutUser, DeliverSpoken, Refuse, Monotone, SameAdmission
<1>12. ASSUME NEW a \in Authors, PublishState(a) PROVE Monotone
  BY <1>12 DEF PublishState, Monotone, SameAdmission, Grows
<1>13. ASSUME NEW p \in Procs,
              \/ Open(p)
              \/ \E q \in Requests : Receive(p, q)
              \/ AdmitAbsent(p) \/ AdmitExisting(p) \/ AdmitConflict(p)
              \/ Reply(p) \/ Load(p) \/ Fail(p) \/ Crash(p)
       PROVE  Same
  BY <1>13 DEF Open, Receive, AdmitAbsent, AdmitExisting, AdmitConflict, Reply,
     Load, Fail, Crash
<1>14. CASE UNCHANGED vars
  BY <1>1, <1>14 DEF vars, nmpVars
<1> QED
  BY <1>1, <1>2, <1>3, <1>4, <1>5, <1>7, <1>8, <1>9, <1>11, <1>12, <1>13, <1>14
     DEF Next, ProcStep, ServeStep, StageStep

\* What a record vouched for before a step it vouches for after it.
LEMMA JobOKStable ==
  ASSUME Inv, Monotone, NEW r \in Rids, NEW j,
         JobFacts(j, r, file[r], blobs, members, writes)
  PROVE  JobFacts(j, r, file'[r], blobs', members', writes')
<1>1. None \notin blobs
  BY NoneAssumption DEF Inv, TypeOK
<1> QED
  BY <1>1, JobFactsStable DEF Monotone

-----------------------------------------------------------------------------
(* The conjuncts of the invariant, one by one                              *)

\* The journal changes only by an insert or by the save of a job in memory.
LEMMA JournalChange ==
  ASSUME Inv, [Next]_vars, NEW r \in Rids
  PROVE  \/ journal'[r] = journal[r]
         \/ \E p \in Procs : pc[p] = "insert" /\ journal'[r] = NewJob(req[p])
         \/ \E p \in Procs : pc[p] = "save" /\ req[p].rid = r /\ journal'[r] = job[p]
<1>1. ASSUME NEW p \in Procs, Insert(p)
      PROVE  journal'[r] = journal[r] \/ journal'[r] = NewJob(req[p])
  BY <1>1, Busy DEF Insert, Inv, TypeOK
<1>2. ASSUME NEW p \in Procs, Save(p)
      PROVE  journal'[r] = journal[r] \/ (req[p].rid = r /\ journal'[r] = job[p])
  BY <1>2, Busy DEF Save, Inv, TypeOK
<1>3. ASSUME NEW p \in Procs, StageStep(p) PROVE UNCHANGED journal
  BY <1>3 DEF StageStep, Synthesize, MakeDurable, AuthorizeKnown, AuthorizeAccept,
     ResumeAuthorization, Accept, ResumePublication, Staged
<1>4. ASSUME NEW p \in Procs, ProcStep(p), ~Insert(p), ~Save(p), ~StageStep(p)
      PROVE  UNCHANGED journal
  BY <1>4 DEF ProcStep, ServeStep, Open, Receive, AdmitAbsent, AdmitExisting, AdmitConflict,
     Reply, Load, Fail, Crash
<1>5. ASSUME NEW n \in Receipts, NmpStep(n) PROVE UNCHANGED journal
  BY <1>5 DEF NmpStep, Sign, DeliverPutUser, DeliverSpoken, Refuse
<1>6. ASSUME NEW a \in Authors, PublishState(a) PROVE UNCHANGED journal
  BY <1>6 DEF PublishState
<1> QED
  BY <1>1, <1>2, <1>3, <1>4, <1>5, <1>6 DEF Next, vars, Insert, Save

LEMMA JournalStep ==
  ASSUME Inv, [Next]_vars
  PROVE  JournalInv'
<1> SUFFICES ASSUME NEW r \in Rids, journal'[r] # None
             PROVE  JobFacts(journal'[r], r, file'[r], blobs', members', writes')
  BY DEF JournalInv, JobOK
<1>1. Monotone
  BY MonotoneStep
<1>2. CASE journal'[r] = journal[r]
  <2>1. JobFacts(journal[r], r, file[r], blobs, members, writes)
    BY <1>2 DEF Inv, JournalInv, JobOK
  <2>2. QED
    BY <1>1, <1>2, <2>1, JobOKStable
<1>3. ASSUME NEW p \in Procs, journal'[r] = NewJob(req[p])
      PROVE  JobFacts(journal'[r], r, file'[r], blobs', members', writes')
  BY <1>3 DEF NewJob, JobFacts, FrozenStages
<1>4. ASSUME NEW p \in Procs, pc[p] = "save", req[p].rid = r, journal'[r] = job[p]
      PROVE  JobFacts(journal'[r], r, file'[r], blobs', members', writes')
  <2>1. JobFacts(job[p], r, file[r], blobs, members, writes)
    BY <1>4 DEF Inv, MemoryInv, JobOK
  <2>2. QED
    BY <1>1, <1>4, <2>1, JobOKStable
<1> QED
  BY <1>2, <1>3, <1>4, JournalChange

\* What a process has in memory after a step it did not take.
LEMMA OtherProcess ==
  ASSUME Inv, Monotone, NEW p \in Procs,
         pc'[p] = pc[p], req'[p] = req[p], job'[p] = job[p],
         pc[p] \in {"loop", "stage", "save"}
  PROVE  /\ job'[p] # None
         /\ journal'[req'[p].rid] # None
         /\ SameAdmission(job'[p], journal'[req'[p].rid])
         /\ SameRequest(job'[p], req'[p])
         /\ JobFacts(job'[p], req'[p].rid, file'[req'[p].rid], blobs', members', writes')
<1>1. req[p].rid \in Rids
  BY Busy
<1>2. /\ job[p] # None
      /\ journal[req[p].rid] # None
      /\ SameAdmission(job[p], journal[req[p].rid])
      /\ SameRequest(job[p], req[p])
      /\ JobFacts(job[p], req[p].rid, file[req[p].rid], blobs, members, writes)
  BY DEF Inv, MemoryInv, JobOK
<1>3. JobFacts(job[p], req[p].rid, file'[req[p].rid], blobs', members', writes')
  BY <1>1, <1>2, JobOKStable
<1> QED
  BY <1>1, <1>2, <1>3 DEF Monotone, SameAdmission

\* A step of process p leaves the memory of the others alone.
LEMMA MemoryFrame ==
  ASSUME Inv, Monotone, NEW p \in Procs,
         \A o \in Procs \ {p} : pc'[o] = pc[o] /\ req'[o] = req[o] /\ job'[o] = job[o],
         pc'[p] \in {"admit", "insert", "loop", "stage", "save"} => req'[p] # None,
         pc'[p] \in {"loop", "stage", "save"} =>
           /\ job'[p] # None
           /\ journal'[req'[p].rid] # None
           /\ SameAdmission(job'[p], journal'[req'[p].rid])
           /\ SameRequest(job'[p], req'[p])
           /\ JobFacts(job'[p], req'[p].rid, file'[req'[p].rid], blobs', members', writes')
  PROVE  MemoryInv'
<1> SUFFICES ASSUME NEW o \in Procs
             PROVE  /\ pc'[o] \in {"admit", "insert", "loop", "stage", "save"} => req'[o] # None
                    /\ pc'[o] \in {"loop", "stage", "save"} =>
                         /\ job'[o] # None
                         /\ journal'[req'[o].rid] # None
                         /\ SameAdmission(job'[o], journal'[req'[o].rid])
                         /\ SameRequest(job'[o], req'[o])
                         /\ JobFacts(job'[o], req'[o].rid, file'[req'[o].rid], blobs', members', writes')
  BY DEF MemoryInv, JobOK, SameRequest
<1>1. CASE o = p
  BY <1>1
<1>2. CASE o # p
  <2>1. pc'[o] = pc[o] /\ req'[o] = req[o] /\ job'[o] = job[o]
    BY <1>2
  <2>2. pc[o] \in {"admit", "insert", "loop", "stage", "save"} => req[o] # None
    BY DEF Inv, MemoryInv
  <2>3. QED
    BY <2>1, <2>2, OtherProcess
<1> QED
  BY <1>1, <1>2

\* A stage leaves the admission of its record alone and vouches for the rest.
LEMMA MemoryStaged ==
  ASSUME Inv, Monotone, NEW p \in Procs, NEW j,
         pc[p] = "stage", Staged(p, j), j # None,
         SameAdmission(j, job[p]),
         JobFacts(j, req[p].rid, file'[req[p].rid], blobs', members', writes')
  PROVE  MemoryInv'
<1>1. /\ req[p].rid \in Rids
      /\ req[p] # None
      /\ journal[req[p].rid] # None
      /\ SameAdmission(job[p], journal[req[p].rid])
      /\ SameRequest(job[p], req[p])
  BY Busy DEF Inv, MemoryInv
<1>2. /\ pc'[p] = "save" /\ req'[p] = req[p] /\ job'[p] = j
      /\ journal' = journal
      /\ \A o \in Procs \ {p} : pc'[o] = pc[o] /\ req'[o] = req[o] /\ job'[o] = job[o]
  BY DEF Staged, Inv, TypeOK
<1>3. SameAdmission(j, journal'[req[p].rid]) /\ SameRequest(j, req[p])
  BY <1>1, <1>2 DEF SameAdmission, SameRequest
<1> QED
  BY <1>1, <1>2, <1>3, MemoryFrame

LEMMA MemoryStep ==
  ASSUME Inv, [Next]_vars
  PROVE  MemoryInv'
<1> DEFINE Others(p) ==
             \A o \in Procs \ {p} : pc'[o] = pc[o] /\ req'[o] = req[o] /\ job'[o] = job[o]
<1>0. Monotone
  BY MonotoneStep
<1>1. ASSUME NEW p \in Procs, Others(p), pc'[p] \in {"down", "idle"} PROVE MemoryInv'
  BY <1>0, <1>1, MemoryFrame
<1>2. ASSUME NEW p \in Procs, Finish(p) PROVE MemoryInv'
  <2>1. Others(p) /\ pc'[p] = "idle"
    BY <1>2 DEF Finish, Inv, TypeOK
  <2>2. QED
    BY <1>1, <2>1
<1>3. ASSUME NEW p \in Procs, Open(p) \/ Crash(p) PROVE MemoryInv'
  <2>1. Others(p) /\ pc'[p] \in {"down", "idle"}
    BY <1>3 DEF Open, Crash, Inv, TypeOK
  <2>2. QED
    BY <1>1, <2>1
<1>4. ASSUME NEW p \in Procs,
             AdmitConflict(p) \/ Reply(p) \/ Fail(p)
      PROVE  MemoryInv'
  BY <1>2, <1>4 DEF AdmitConflict, Reply, Fail
<1>5. ASSUME NEW p \in Procs, NEW q \in Requests, Receive(p, q) PROVE MemoryInv'
  <2>1. Others(p) /\ pc'[p] = "admit" /\ req'[p] # None
    BY <1>5, NoneAssumption DEF Receive, Inv, TypeOK
  <2>2. QED
    BY <1>0, <2>1, MemoryFrame
<1>6. ASSUME NEW p \in Procs, AdmitAbsent(p) PROVE MemoryInv'
  <2>1. Others(p) /\ pc'[p] = "insert" /\ req'[p] # None
    BY <1>6 DEF AdmitAbsent, Inv, TypeOK, MemoryInv
  <2>2. QED
    BY <1>0, <2>1, MemoryFrame
<1>7. ASSUME NEW p \in Procs, AdmitExisting(p) PROVE MemoryInv'
  <2>1. req[p].rid \in Rids /\ req[p] # None
    BY <1>7, Busy DEF AdmitExisting, Inv, MemoryInv
  <2>2. /\ Others(p) /\ pc'[p] = "loop" /\ req'[p] = req[p]
        /\ job'[p] = journal[req[p].rid] /\ journal' = journal
        /\ SameRequest(journal[req[p].rid], req[p])
        /\ journal[req[p].rid] # None
    BY <1>7 DEF AdmitExisting, Inv, TypeOK
  <2>3. JobFacts(journal[req[p].rid], req[p].rid, file[req[p].rid], blobs, members, writes)
    BY <2>1, <2>2 DEF Inv, JournalInv, JobOK
  <2>4. JobFacts(job'[p], req'[p].rid, file'[req'[p].rid], blobs', members', writes')
    BY <1>0, <2>1, <2>2, <2>3, JobOKStable
  <2>5. SameAdmission(job'[p], journal'[req'[p].rid]) /\ SameRequest(job'[p], req'[p])
    BY <2>2 DEF SameAdmission
  <2>6. QED
    BY <1>0, <2>1, <2>2, <2>4, <2>5, MemoryFrame
<1>8. ASSUME NEW p \in Procs, Insert(p) PROVE MemoryInv'
  <2>1. req[p] \in Requests /\ req[p].rid \in Rids /\ req[p] # None
    BY <1>8, Busy DEF Insert, Inv, MemoryInv
  <2>2. /\ Others(p) /\ pc'[p] = "loop" /\ req'[p] = req[p]
        /\ job'[p] = NewJob(req[p]) /\ journal'[req[p].rid] = NewJob(req[p])
    BY <1>8, <2>1 DEF Insert, Inv, TypeOK
  <2>3. NewJob(req[p]) # None
    BY <2>1, NewJobType, NoneAssumption
  <2>4. JobFacts(NewJob(req[p]), req[p].rid, file'[req[p].rid], blobs', members', writes')
    BY DEF NewJob, JobFacts, FrozenStages
  <2>5. SameAdmission(job'[p], journal'[req'[p].rid]) /\ SameRequest(job'[p], req'[p])
    BY <2>2 DEF SameAdmission, SameRequest, NewJob
  <2>6. QED
    BY <1>0, <2>1, <2>2, <2>3, <2>4, <2>5, MemoryFrame
<1>9. ASSUME NEW p \in Procs, Load(p) PROVE MemoryInv'
  <2>1. /\ req[p].rid \in Rids /\ req[p] # None
        /\ journal[req[p].rid] # None
        /\ SameAdmission(job[p], journal[req[p].rid])
        /\ SameRequest(job[p], req[p])
    BY <1>9, Busy DEF Load, Inv, MemoryInv
  <2>2. /\ Others(p) /\ pc'[p] \in {"loop", "stage"} /\ req'[p] = req[p]
        /\ job'[p] = journal[req[p].rid] /\ journal' = journal
    BY <1>9 DEF Load, Inv, TypeOK
  <2>3. JobFacts(journal[req[p].rid], req[p].rid, file[req[p].rid], blobs, members, writes)
    BY <2>1 DEF Inv, JournalInv, JobOK
  <2>4. JobFacts(job'[p], req'[p].rid, file'[req'[p].rid], blobs', members', writes')
    BY <1>0, <2>1, <2>2, <2>3, JobOKStable
  <2>5. SameAdmission(job'[p], journal'[req'[p].rid]) /\ SameRequest(job'[p], req'[p])
    BY <2>1, <2>2 DEF SameAdmission, SameRequest
  <2>6. QED
    BY <1>0, <2>1, <2>2, <2>4, <2>5, MemoryFrame
<1>10. ASSUME NEW p \in Procs, pc[p] = "stage"
       PROVE  /\ job[p] \in JobRecord
              /\ req[p].rid \in Rids
              /\ JobFacts(job[p], req[p].rid, file'[req[p].rid], blobs', members', writes')
  <2>1. JobFacts(job[p], req[p].rid, file[req[p].rid], blobs, members, writes)
    BY <1>10 DEF Inv, MemoryInv, JobOK
  <2>2. QED
    BY <1>0, <1>10, <2>1, Busy, JobOKStable
<1>11. ASSUME NEW p \in Procs, NEW audio \in Audio, Synthesize(p, audio) PROVE MemoryInv'
  <2> DEFINE f == Linked(req[p].rid, audio)
             j == [job[p] EXCEPT !.stage = "synthesized", !.audio = f]
  <2>1. pc[p] = "stage" /\ Staged(p, j)
    BY <1>11 DEF Synthesize, AtStage
  <2>2. job[p] \in JobRecord /\ req[p].rid \in Rids
    BY <1>10, <2>1
  <2>3. f \in Audio /\ file'[req[p].rid] = f
    BY <1>11, <2>2 DEF Synthesize, Linked, Inv, TypeOK
  <2>4. j \in JobRecord /\ j.stage = "synthesized" /\ j.audio = f /\ SameAdmission(j, job[p])
    BY <2>2, <2>3 DEF JobRecord, Stages, SameAdmission
  <2>5. JobFacts(j, req[p].rid, file'[req[p].rid], blobs', members', writes')
    BY <2>3, <2>4, NoneAssumption DEF JobFacts, FrozenStages
  <2>6. QED
    BY <1>0, <2>1, <2>4, <2>5, NoneAssumption, MemoryStaged
<1>12. ASSUME NEW p \in Procs, MakeDurable(p) PROVE MemoryInv'
  <2> DEFINE f == job[p].audio
             j == [job[p] EXCEPT !.stage = "artifacts_durable", !.audio = None,
                                 !.item = FrozenItem(job[p], f)]
  <2>1. pc[p] = "stage" /\ Staged(p, j) /\ job[p].stage = "synthesized"
    BY <1>12 DEF MakeDurable, AtStage
  <2>2. job[p] \in JobRecord /\ req[p].rid \in Rids
    BY <1>10, <2>1
  <2>3. f \in Audio /\ file'[req[p].rid] = f /\ f \in blobs'
    BY <1>12, <2>1, <2>2 DEF MakeDurable, SameBytes, Inv, MemoryInv, JobOK, JobFacts, JobRecord
  <2>4. /\ j \in JobRecord
        /\ j.stage = "artifacts_durable"
        /\ SameAdmission(j, job[p])
        /\ j.item = FrozenItem(j, f)
    BY <2>2, <2>3, FrozenItemType DEF JobRecord, Stages, SameAdmission, FrozenItem
  <2>5. JobFacts(j, req[p].rid, file'[req[p].rid], blobs', members', writes')
    BY <2>3, <2>4 DEF JobFacts
  <2>6. QED
    BY <1>0, <2>1, <2>4, <2>5, NoneAssumption, MemoryStaged
<1>13. ASSUME NEW p \in Procs, NEW e \in Evidence, pc[p] = "stage",
              job[p].stage \in {"artifacts_durable", "authorization_accepted"},
              Staged(p, Authorized(job[p], e)), job[p].author \in members
       PROVE  MemoryInv'
  <2> DEFINE j == Authorized(job[p], e)
  <2>1. /\ job[p] \in JobRecord /\ req[p].rid \in Rids
        /\ JobFacts(job[p], req[p].rid, file'[req[p].rid], blobs', members', writes')
    BY <1>10, <1>13
  <2>2. j \in JobRecord
    BY <2>1, AuthorizedType
  <2>3. /\ j.stage = "author_authorized" /\ j.item = job[p].item
        /\ SameAdmission(j, job[p])
    BY <2>1 DEF Authorized, JobRecord, SameAdmission
  <2>4. JobFacts(j, req[p].rid, file'[req[p].rid], blobs', members', writes')
    BY <1>0, <1>13, <2>1, <2>3 DEF JobFacts, FrozenStages, FrozenItem, SameAdmission, Monotone
  <2>5. QED
    BY <1>0, <1>13, <2>2, <2>3, <2>4, NoneAssumption, MemoryStaged
<1>14. ASSUME NEW p \in Procs, AuthorizeKnown(p) PROVE MemoryInv'
  <2> DEFINE a == job[p].author
             known == IF cache[p][a] # None THEN cache[p][a] ELSE "group_state"
  <2>1. /\ pc[p] = "stage" /\ job[p].stage = "artifacts_durable"
        /\ Staged(p, Authorized(job[p], known))
        /\ cache[p][a] # None \/ a \in view
    BY <1>14 DEF AuthorizeKnown, CurrentMember, AtStage
  <2>2. a \in Authors
    BY <2>1, Busy
  <2>3. known \in Evidence
    BY <2>2 DEF Inv, TypeOK, Evidence
  <2>4. a \in members
    BY <2>1, <2>2 DEF Inv, MembersInv
  <2>5. QED
    BY <1>13, <2>1, <2>3, <2>4
<1>15. ASSUME NEW p \in Procs, ResumeAuthorization(p) PROVE MemoryInv'
  <2> DEFINE a == job[p].author
             n == job[p].mreceipt
             known == IF HostAcked(n) THEN "put_user" ELSE cache[p][a]
  <2>1. /\ pc[p] = "stage" /\ job[p].stage = "authorization_accepted"
        /\ Staged(p, Authorized(job[p], known))
        /\ HostAcked(n) \/ cache[p][a] # None
    BY <1>15 DEF ResumeAuthorization, AtStage
  <2>2. a \in Authors
    BY <2>1, Busy
  <2>3. known \in Evidence
    BY <2>1, <2>2 DEF Inv, TypeOK, Evidence
  <2>4. n \in Receipts /\ writes[n] # None /\ writes[n].author = a
    BY <2>1 DEF Inv, MemoryInv, JobOK, JobFacts
  <2>5. a \in members
    BY <2>1, <2>2, <2>4 DEF Inv, MembersInv, WritesInv, WriteFacts, HostAcked
  <2>6. QED
    BY <1>13, <2>1, <2>3, <2>5
<1>16. ASSUME NEW p \in Procs, NEW n \in Receipts, AuthorizeAccept(p, n) PROVE MemoryInv'
  <2> DEFINE j == AuthorizationAccepted(job[p], n)
  <2>1. pc[p] = "stage" /\ Staged(p, j) /\ job[p].stage = "artifacts_durable"
    BY <1>16 DEF AuthorizeAccept, AtStage
  <2>2. /\ job[p] \in JobRecord /\ req[p].rid \in Rids
        /\ JobFacts(job[p], req[p].rid, file'[req[p].rid], blobs', members', writes')
    BY <1>10, <2>1
  <2>3. j \in JobRecord
    BY <2>2, AuthorizationAcceptedType
  <2>4. /\ j.stage = "authorization_accepted" /\ j.item = job[p].item
        /\ j.mreceipt = n /\ SameAdmission(j, job[p])
    BY <2>2 DEF AuthorizationAccepted, JobRecord, SameAdmission
  <2>5. writes'[n] # None /\ writes'[n].author = job[p].author
    <3>1. CASE Correlated(n, req[p].rid, job[p].author) /\ UNCHANGED writes
      BY <3>1 DEF Correlated
    <3>2. CASE writes' = [writes EXCEPT ![n] =
                 [kind |-> "put_user", rid |-> req[p].rid, author |-> job[p].author,
                  item |-> None, status |-> "accepted"]]
      <4>1. [kind |-> "put_user", rid |-> req[p].rid, author |-> job[p].author,
             item |-> None, status |-> "accepted"] \in Write
        BY <2>2 DEF Write, JobRecord
      <4>2. QED
        BY <3>2, <4>1, NoneAssumption DEF Inv, TypeOK
    <3>3. QED
      BY <1>16, <3>1, <3>2 DEF AuthorizeAccept
  <2>6. JobFacts(j, req[p].rid, file'[req[p].rid], blobs', members', writes')
    BY <2>1, <2>2, <2>4, <2>5 DEF JobFacts, FrozenStages, FrozenItem, SameAdmission
  <2>7. QED
    BY <1>0, <2>1, <2>3, <2>4, <2>6, NoneAssumption, MemoryStaged
<1>17. ASSUME NEW p \in Procs, NEW n \in Receipts, Accept(p, n) PROVE MemoryInv'
  <2> DEFINE j == PublicationAccepted(job[p], n)
             x == [kind |-> "spoken", rid |-> req[p].rid, author |-> job[p].item.author,
                   item |-> job[p].item, status |-> "accepted"]
  <2>1. pc[p] = "stage" /\ Staged(p, j) /\ job[p].stage = "author_authorized"
    BY <1>17 DEF Accept, AtStage
  <2>2. /\ job[p] \in JobRecord /\ req[p].rid \in Rids
        /\ JobFacts(job[p], req[p].rid, file'[req[p].rid], blobs', members', writes')
    BY <1>10, <2>1
  <2>3. j \in JobRecord
    BY <2>2, PublicationAcceptedType
  <2>4. /\ j.stage = "publication_accepted" /\ j.item = job[p].item
        /\ j.receipt = n /\ SameAdmission(j, job[p])
    BY <2>2 DEF PublicationAccepted, JobRecord, SameAdmission
  <2>5. x \in Write
    BY <2>1, <2>2, Busy, FrozenJob DEF Write, FrozenStages
  <2>6. writes'[n] = x
    BY <1>17 DEF Accept, Inv, TypeOK
  <2>7. JobFacts(j, req[p].rid, file'[req[p].rid], blobs', members', writes')
    BY <2>1, <2>2, <2>4, <2>5, <2>6, NoneAssumption
       DEF JobFacts, FrozenStages, FrozenItem, SameAdmission
  <2>8. QED
    BY <1>0, <2>1, <2>3, <2>4, <2>7, NoneAssumption, MemoryStaged
<1>18. ASSUME NEW p \in Procs, ResumePublication(p) PROVE MemoryInv'
  <2> DEFINE n == job[p].receipt
             j == [job[p] EXCEPT !.stage = "published", !.event = writes[n].item]
  <2>1. /\ pc[p] = "stage" /\ Staged(p, j) /\ job[p].stage = "publication_accepted"
        /\ writes[n].status = "acked"
    BY <1>18 DEF ResumePublication, AtStage, HostAcked
  <2>2. /\ job[p] \in JobRecord /\ req[p].rid \in Rids
        /\ JobFacts(job[p], req[p].rid, file'[req[p].rid], blobs', members', writes')
    BY <1>10, <2>1
  <2>3. /\ n \in Receipts /\ writes[n] # None /\ writes[n].kind = "spoken"
        /\ writes[n].rid = req[p].rid
    BY <2>1 DEF Inv, MemoryInv, JobOK, JobFacts
  <2>4. writes[n].item = job[p].item
    <3>1. writes[n].item = FrozenItem(journal[req[p].rid], file[req[p].rid])
      BY <2>3, SpokenWrite
    <3>2. job[p].item = FrozenItem(job[p], file[req[p].rid])
      BY <2>1, FrozenJob DEF FrozenStages
    <3>3. SameAdmission(job[p], journal[req[p].rid])
      BY <2>1 DEF Inv, MemoryInv
    <3>4. QED
      BY <3>1, <3>2, <3>3 DEF SameAdmission, FrozenItem
  <2>5. writes'[n].status = "acked"
    BY <1>0, <2>1, <2>3 DEF Monotone, Grows
  <2>6. /\ j \in JobRecord /\ j.stage = "published" /\ j.item = job[p].item
        /\ j.event = j.item /\ j.receipt = n /\ SameAdmission(j, job[p])
    BY <2>2, <2>4 DEF JobRecord, Stages, SameAdmission
  <2>7. JobFacts(j, req[p].rid, file'[req[p].rid], blobs', members', writes')
    BY <2>1, <2>2, <2>5, <2>6 DEF JobFacts, FrozenStages, FrozenItem, SameAdmission
  <2>8. QED
    BY <1>0, <2>1, <2>6, <2>7, NoneAssumption, MemoryStaged
<1>19. ASSUME NEW p \in Procs, Save(p) PROVE MemoryInv'
  <2>1. CASE Finish(p)
    BY <1>2, <2>1
  <2>2. CASE pc' = [pc EXCEPT ![p] = "loop"] /\ UNCHANGED <<req, budget, job>>
    <3>1. /\ req[p].rid \in Rids /\ req[p] # None /\ job[p] # None
          /\ SameRequest(job[p], req[p])
          /\ JobFacts(job[p], req[p].rid, file[req[p].rid], blobs, members, writes)
      BY <1>19, Busy DEF Save, Inv, MemoryInv, JobOK
    <3>2. JobFacts(job[p], req[p].rid, file'[req[p].rid], blobs', members', writes')
      BY <1>0, <3>1, JobOKStable
    <3>3. journal'[req[p].rid] = job[p] /\ Others(p)
      BY <1>19, <2>2, <3>1 DEF Save, Inv, TypeOK
    <3>4. SameAdmission(job[p], journal'[req[p].rid])
      BY <3>3 DEF SameAdmission
    <3>5. QED
      BY <1>0, <2>2, <3>1, <3>2, <3>3, <3>4, MemoryFrame
  <2>3. QED
    BY <1>19, <2>1, <2>2 DEF Save
<1>20. ASSUME UNCHANGED procVars PROVE MemoryInv'
  <2> SUFFICES ASSUME NEW p \in Procs
               PROVE  /\ pc'[p] \in {"admit", "insert", "loop", "stage", "save"} => req'[p] # None
                      /\ pc'[p] \in {"loop", "stage", "save"} =>
                           /\ job'[p] # None
                           /\ journal'[req'[p].rid] # None
                           /\ SameAdmission(job'[p], journal'[req'[p].rid])
                           /\ SameRequest(job'[p], req'[p])
                           /\ JobFacts(job'[p], req'[p].rid, file'[req'[p].rid], blobs', members', writes')
    BY DEF MemoryInv, JobOK, SameRequest
  <2>1. pc'[p] = pc[p] /\ req'[p] = req[p] /\ job'[p] = job[p]
    BY <1>20 DEF procVars
  <2>2. pc[p] \in {"admit", "insert", "loop", "stage", "save"} => req[p] # None
    BY DEF Inv, MemoryInv
  <2>3. QED
    BY <1>0, <2>1, <2>2, OtherProcess
<1>21. ASSUME NEW n \in Receipts, NmpStep(n) PROVE UNCHANGED procVars
  BY <1>21 DEF NmpStep, Sign, DeliverPutUser, DeliverSpoken, Refuse
<1>22. ASSUME NEW a \in Authors, PublishState(a) PROVE UNCHANGED procVars
  BY <1>22 DEF PublishState
<1>23. CASE UNCHANGED vars
  BY <1>20, <1>23 DEF vars, procVars
<1> QED
  BY <1>3, <1>4, <1>5, <1>6, <1>7, <1>8, <1>9, <1>11, <1>12, <1>14, <1>15, <1>16,
     <1>17, <1>18, <1>19, <1>20, <1>21, <1>22, <1>23
     DEF Next, ProcStep, ServeStep, StageStep

\* A write NMP knew keeps its facts; a new one has the facts of its request.
LEMMA WritesStep ==
  ASSUME Inv, [Next]_vars
  PROVE  WritesInv'
<1> SUFFICES ASSUME NEW n \in Receipts, writes'[n] # None
             PROVE  WriteFacts(writes'[n], journal'[writes'[n].rid], file'[writes'[n].rid],
                               blobs', members', host')
  BY DEF WritesInv
<1>0. Monotone /\ None \notin blobs
  BY MonotoneStep, NoneAssumption DEF Inv, TypeOK
<1>1. ASSUME writes[n] # None
      PROVE  /\ writes[n] \in Write
             /\ writes[n].rid \in Rids
             /\ WriteFacts(writes[n], journal'[writes[n].rid], file'[writes[n].rid],
                           blobs', members', host')
  <2>1. writes[n] \in Write /\ writes[n].rid \in Rids
    BY <1>1 DEF Inv, TypeOK, Write
  <2>2. WriteFacts(writes[n], journal[writes[n].rid], file[writes[n].rid], blobs, members, host)
    BY <1>1 DEF Inv, WritesInv
  <2>3. QED
    BY <1>0, <2>1, <2>2, WriteFactsStable DEF Monotone
<1>2. CASE writes'[n] = writes[n]
  BY <1>1, <1>2
<1>3. ASSUME NEW p \in Procs, NEW m \in Receipts, AuthorizeAccept(p, m), writes'[n] # writes[n]
      PROVE  writes'[n].kind = "put_user" /\ writes'[n].status = "accepted"
  BY <1>3 DEF AuthorizeAccept, Inv, TypeOK
<1>4. ASSUME NEW p \in Procs, NEW m \in Receipts, Accept(p, m), writes'[n] # writes[n]
      PROVE  WriteFacts(writes'[n], journal'[writes'[n].rid], file'[writes'[n].rid],
                        blobs', members', host')
  <2> DEFINE r == req[p].rid
  <2>1. pc[p] = "stage" /\ job[p].stage = "author_authorized" /\ r \in Rids
    BY <1>4, Busy DEF Accept, AtStage
  <2>2. /\ writes'[n].kind = "spoken" /\ writes'[n].rid = r
        /\ writes'[n].author = job[p].item.author
        /\ writes'[n].item = job[p].item
        /\ writes'[n].status = "accepted"
        /\ UNCHANGED <<journal, file, blobs, members, host>>
    BY <1>4 DEF Accept, Staged, Inv, TypeOK
  <2>3. /\ job[p].item = FrozenItem(job[p], file[r])
        /\ job[p].item.author = job[p].author
    BY <2>1, FrozenJob DEF FrozenStages
  <2>4. /\ journal[r] # None
        /\ SameAdmission(job[p], journal[r])
        /\ file[r] \in blobs
        /\ job[p].author \in members
    BY <2>1 DEF Inv, MemoryInv, JobOK, JobFacts, FrozenStages
  <2>5. QED
    BY <2>2, <2>3, <2>4 DEF WriteFacts, FrozenItem, SameAdmission
<1>5. ASSUME NEW m \in Receipts, NmpStep(m), writes'[n] # writes[n]
      PROVE  WriteFacts(writes'[n], journal'[writes'[n].rid], file'[writes'[n].rid],
                        blobs', members', host')
  <2>1. n = m /\ writes[n] # None
    BY <1>5 DEF NmpStep, Sign, DeliverPutUser, DeliverSpoken, Refuse, Deliverable, Inv, TypeOK
  <2>2. /\ writes[n] \in Write
        /\ WriteFacts(writes[n], journal'[writes[n].rid], file'[writes[n].rid],
                      blobs', members', host')
    BY <1>1, <2>1
  <2>3. PICK s \in {"signed", "acked", "duplicate", "refused"} :
          /\ writes' = [writes EXCEPT ![n].status = s]
          /\ s \in {"acked", "duplicate"} => writes[n].author \in members'
          /\ s = "acked" /\ writes[n].kind = "spoken" => writes[n].item \in host'
    <3>1. CASE Sign(n)
      BY <3>1 DEF Sign
    <3>2. CASE DeliverPutUser(n)
      BY <3>2 DEF DeliverPutUser
    <3>3. CASE DeliverSpoken(n)
      BY <3>3 DEF DeliverSpoken
    <3>4. CASE Refuse(n)
      BY <3>4 DEF Refuse
    <3>5. QED
      BY <1>5, <2>1, <3>1, <3>2, <3>3, <3>4 DEF NmpStep
  <2>4. /\ writes'[n].kind = writes[n].kind /\ writes'[n].rid = writes[n].rid
        /\ writes'[n].author = writes[n].author /\ writes'[n].item = writes[n].item
        /\ writes'[n].status = s
    BY <2>2, <2>3 DEF Inv, TypeOK, Write
  <2>5. QED
    BY <2>2, <2>3, <2>4 DEF WriteFacts
<1>6. ASSUME NEW p \in Procs, ProcStep(p),
             ~\E m \in Receipts : AuthorizeAccept(p, m) \/ Accept(p, m)
      PROVE  UNCHANGED writes
  BY <1>6 DEF ProcStep, ServeStep, StageStep, Open, Receive, AdmitAbsent, AdmitExisting,
     AdmitConflict, Insert, Reply, Load, Synthesize, MakeDurable, AuthorizeKnown,
     ResumeAuthorization, ResumePublication, Save, Fail, Crash, nmpVars
<1>7. ASSUME NEW a \in Authors, PublishState(a) PROVE UNCHANGED writes
  BY <1>7 DEF PublishState
<1>8. ASSUME writes'[n].kind = "put_user", writes'[n].status = "accepted"
      PROVE  WriteFacts(writes'[n], journal'[writes'[n].rid], file'[writes'[n].rid],
                        blobs', members', host')
  BY <1>8 DEF WriteFacts
<1>9. CASE \E p \in Procs, m \in Receipts : AuthorizeAccept(p, m) \/ Accept(p, m)
  BY <1>2, <1>3, <1>4, <1>8, <1>9
<1>10. CASE UNCHANGED writes
  BY <1>2, <1>10
<1> QED
  BY <1>2, <1>5, <1>6, <1>7, <1>9, <1>10 DEF Next, vars

\* A cache entry or a name in the host's state is added for members only.
LEMMA MembersStep ==
  ASSUME Inv, [Next]_vars
  PROVE  MembersInv'
<1>0. members \subseteq members'
  BY MonotoneStep DEF Monotone
<1>1. view' \subseteq members'
  <2>1. ASSUME NEW a \in Authors, PublishState(a) PROVE view' \subseteq members'
    BY <2>1 DEF PublishState, Inv, MembersInv
  <2>2. ASSUME NEW p \in Procs, ProcStep(p) PROVE UNCHANGED view
    BY <2>2 DEF ProcStep, ServeStep, StageStep, Open, Receive, AdmitAbsent, AdmitExisting,
       AdmitConflict, Insert, Reply, Load, Synthesize, MakeDurable, AuthorizeKnown,
       AuthorizeAccept, ResumeAuthorization, Accept, ResumePublication, Save, Fail, Crash, nmpVars
  <2>3. ASSUME NEW n \in Receipts, NmpStep(n) PROVE UNCHANGED view
    BY <2>3 DEF NmpStep, Sign, DeliverPutUser, DeliverSpoken, Refuse
  <2>4. QED
    BY <1>0, <2>1, <2>2, <2>3 DEF Next, vars, Inv, MembersInv
<1>2. ASSUME NEW o \in Procs, NEW b \in Authors, cache'[o][b] # None
      PROVE  b \in members'
  <2>1. CASE cache'[o][b] = cache[o][b]
    BY <1>0, <1>2, <2>1 DEF Inv, MembersInv
  <2>2. ASSUME NEW p \in Procs, AuthorizeKnown(p), cache'[o][b] # cache[o][b]
        PROVE  b \in members
    <3>1. job[p].author \in Authors
      BY <2>2, Busy DEF AuthorizeKnown, AtStage
    <3>2. b = job[p].author
      BY <2>2, <3>1 DEF AuthorizeKnown, Inv, TypeOK
    <3>3. QED
      BY <2>2, <3>1, <3>2 DEF AuthorizeKnown, CurrentMember, Inv, MembersInv
  <2>3. ASSUME NEW p \in Procs, ResumeAuthorization(p), cache'[o][b] # cache[o][b]
        PROVE  b \in members
    <3>1. job[p].author \in Authors
      BY <2>3, Busy DEF ResumeAuthorization, AtStage
    <3>2. b = job[p].author
      BY <2>3, <3>1 DEF ResumeAuthorization, Inv, TypeOK
    <3>3. /\ job[p].mreceipt \in Receipts /\ writes[job[p].mreceipt] # None
          /\ writes[job[p].mreceipt].author = job[p].author
      BY <2>3 DEF ResumeAuthorization, AtStage, Inv, MemoryInv, JobOK, JobFacts
    <3>4. HostAcked(job[p].mreceipt) \/ cache[p][b] # None
      BY <2>3, <3>2 DEF ResumeAuthorization
    <3>5. QED
      BY <3>1, <3>2, <3>3, <3>4 DEF Inv, MembersInv, WritesInv, WriteFacts, HostAcked
  <2>4. ASSUME NEW p \in Procs, Crash(p), cache'[o][b] # cache[o][b] PROVE FALSE
    BY <1>2, <2>4 DEF Crash, NoCache, Inv, TypeOK
  <2>5. ASSUME NEW p \in Procs, ProcStep(p),
               ~AuthorizeKnown(p), ~ResumeAuthorization(p), ~Crash(p)
        PROVE  UNCHANGED cache
    BY <2>5 DEF ProcStep, ServeStep, StageStep, Open, Receive, AdmitAbsent, AdmitExisting,
       AdmitConflict, Insert, Reply, Load, Synthesize, MakeDurable,
       AuthorizeAccept, Accept, ResumePublication, Save, Fail
  <2>6. ASSUME NEW n \in Receipts, NmpStep(n) PROVE UNCHANGED cache
    BY <2>6 DEF NmpStep, Sign, DeliverPutUser, DeliverSpoken, Refuse
  <2>7. ASSUME NEW a \in Authors, PublishState(a) PROVE UNCHANGED cache
    BY <2>7 DEF PublishState
  <2>8. QED
    BY <1>0, <2>1, <2>2, <2>3, <2>4, <2>5, <2>6, <2>7 DEF Next, vars
<1> QED
  BY <1>1, <1>2 DEF MembersInv

\* A reply repeats the frozen item of a published job, which never changes.
LEMMA RepliesStep ==
  ASSUME Inv, [Next]_vars
  PROVE  RepliesInv'
<1> SUFFICES ASSUME NEW x \in replies'
             PROVE  /\ journal'[x.rid] # None
                    /\ file'[x.rid] # None
                    /\ SameRequest(journal'[x.rid], x)
                    /\ x.event = FrozenItem(journal'[x.rid], file'[x.rid])
                    /\ x.event \in host'
  BY DEF RepliesInv, SameRequest, FrozenItem
<1>0. Monotone
  BY MonotoneStep
<1>1. ASSUME x.rid \in Rids,
             journal[x.rid] # None,
             file[x.rid] # None,
             SameRequest(journal[x.rid], x),
             x.event = FrozenItem(journal[x.rid], file[x.rid]),
             x.event \in host
      PROVE  /\ journal'[x.rid] # None
             /\ file'[x.rid] # None
             /\ SameRequest(journal'[x.rid], x)
             /\ x.event = FrozenItem(journal'[x.rid], file'[x.rid])
             /\ x.event \in host'
  BY <1>0, <1>1 DEF Monotone, SameAdmission, SameRequest, FrozenItem
<1>2. CASE x \in replies
  <2>1. x.rid \in Rids
    BY <1>2 DEF Inv, TypeOK
  <2>2. QED
    BY <1>1, <1>2, <2>1 DEF Inv, RepliesInv
<1>3. ASSUME NEW p \in Procs, Reply(p), x \notin replies
      PROVE  /\ journal'[x.rid] # None
             /\ file'[x.rid] # None
             /\ SameRequest(journal'[x.rid], x)
             /\ x.event = FrozenItem(journal'[x.rid], file'[x.rid])
             /\ x.event \in host'
  <2> DEFINE r == req[p].rid
             n == job[p].receipt
  <2>1. /\ pc[p] = "loop" /\ job[p].stage = "published" /\ r \in Rids
        /\ x.rid = r /\ x.input = req[p].input /\ x.author = req[p].author
        /\ x.event = job[p].event
    BY <1>3, Busy DEF Reply
  <2>2. /\ journal[r] # None
        /\ SameAdmission(job[p], journal[r])
        /\ SameRequest(job[p], req[p])
        /\ JobFacts(job[p], r, file[r], blobs, members, writes)
    BY <2>1 DEF Inv, MemoryInv, JobOK
  <2>3. file[r] # None /\ job[p].item = FrozenItem(job[p], file[r])
    BY <2>1, FrozenJob, NoneAssumption DEF FrozenStages
  <2>4. /\ n \in Receipts /\ writes[n] # None /\ writes[n].kind = "spoken"
        /\ writes[n].rid = r /\ writes[n].status = "acked" /\ job[p].event = job[p].item
    BY <2>1, <2>2 DEF JobFacts
  <2>5. writes[n].item \in host /\ writes[n].item = FrozenItem(journal[r], file[r])
    BY <2>4 DEF Inv, WritesInv, WriteFacts
  <2>6. x.event = FrozenItem(journal[r], file[r])
    BY <2>1, <2>2, <2>3, <2>4 DEF FrozenItem, SameAdmission
  <2>7. SameRequest(journal[r], x)
    BY <2>1, <2>2 DEF SameRequest, SameAdmission
  <2>8. QED
    BY <1>1, <2>1, <2>2, <2>3, <2>5, <2>6, <2>7
<1>4. ASSUME NEW p \in Procs, ProcStep(p), ~Reply(p) PROVE UNCHANGED replies
  BY <1>4 DEF ProcStep, ServeStep, StageStep, Open, Receive, AdmitAbsent, AdmitExisting,
     AdmitConflict, Insert, Load, Synthesize, MakeDurable, AuthorizeKnown,
     AuthorizeAccept, ResumeAuthorization, Accept, ResumePublication, Save, Fail, Crash, Staged
<1>5. ASSUME NEW n \in Receipts, NmpStep(n) PROVE UNCHANGED replies
  BY <1>5 DEF NmpStep, Sign, DeliverPutUser, DeliverSpoken, Refuse
<1>6. ASSUME NEW a \in Authors, PublishState(a) PROVE UNCHANGED replies
  BY <1>6 DEF PublishState
<1> QED
  BY <1>2, <1>3, <1>4, <1>5, <1>6 DEF Next, vars

-----------------------------------------------------------------------------
(* The invariant and what follows from it                                  *)

LEMMA InitInv ==
  ASSUME Init
  PROVE  Inv
<1>1. TypeOK
  BY AuthorsAssumption, BoundsAssumption DEF Init, TypeOK, NoCache
<1>2. JournalInv /\ MemoryInv /\ WritesInv /\ MembersInv /\ RepliesInv
  BY DEF Init, NoCache, JournalInv, MemoryInv, WritesInv, MembersInv, RepliesInv
<1> QED
  BY <1>1, <1>2 DEF Inv

LEMMA InvStep ==
  ASSUME Inv, [Next]_vars
  PROVE  Inv'
BY TypeStep, JournalStep, MemoryStep, WritesStep, MembersStep, RepliesStep DEF Inv

\* The invariant holds in every reachable state: whatever processes crash,
\* race or repeat, a record in the journal or in memory vouches only for what
\* its file, the Blossom server, the host and NMP really hold.
THEOREM Invariance == Spec => []Inv
<1>1. Init => Inv
  BY InitInv
<1>2. Inv /\ [Next]_vars => Inv'
  BY InvStep
<1> QED
  BY <1>1, <1>2, PTL DEF Spec

\* Type correctness of the journal, the NMP store and the memory of every
\* process: in particular no stage reads a field its record does not have.
THEOREM TypeCorrect == Spec => []TypeOK
<1>1. Inv => TypeOK
  BY DEF Inv
<1> QED
  BY <1>1, Invariance, PTL

\* All spoken writes of a request id carry one item, hence one event id, for
\* any number of processes, retries and crashes (admit, frozen_item, accept).
THEOREM OneItem == Spec => []OneItemPerRequest
<1>1. ASSUME Inv PROVE OneItemPerRequest
  <2> SUFFICES ASSUME NEW m \in Receipts, NEW n \in Receipts, Spoken(m), Spoken(n),
                      writes[m].rid = writes[n].rid
               PROVE  writes[m].item = writes[n].item
    BY DEF OneItemPerRequest
  <2>1. writes[m].item = FrozenItem(journal[writes[m].rid], file[writes[m].rid])
    BY <1>1, SpokenWrite DEF Spoken
  <2>2. writes[n].item = FrozenItem(journal[writes[n].rid], file[writes[n].rid])
    BY <1>1, SpokenWrite DEF Spoken
  <2>3. QED
    BY <2>1, <2>2
<1> QED
  BY <1>1, Invariance, PTL

\* A record journaled as published names an acknowledged write of its own
\* frozen item, which the host stores (advance, resume, await_host_ack).
THEOREM Published == Spec => []PublishedIsAcknowledged
<1>1. ASSUME Inv PROVE PublishedIsAcknowledged
  <2> SUFFICES ASSUME NEW r \in Rids, journal[r] # None, journal[r].stage = "published"
               PROVE  /\ journal[r].event = journal[r].item
                      /\ writes[journal[r].receipt].status = "acked"
                      /\ writes[journal[r].receipt].rid = r
                      /\ journal[r].item \in host
    BY DEF PublishedIsAcknowledged
  <2> DEFINE n == journal[r].receipt
  <2>1. /\ journal[r].item = FrozenItem(journal[r], file[r])
        /\ journal[r].event = journal[r].item
        /\ n \in Receipts /\ writes[n] # None /\ writes[n].kind = "spoken"
        /\ writes[n].rid = r /\ writes[n].status = "acked"
    BY <1>1 DEF Inv, JournalInv, JobOK, JobFacts, FrozenStages
  <2>2. writes[n].item \in host /\ writes[n].item = FrozenItem(journal[r], file[r])
    BY <1>1, <2>1 DEF Inv, WritesInv, WriteFacts
  <2>3. QED
    BY <2>1, <2>2
<1> QED
  BY <1>1, Invariance, PTL

\* A spoken item reaches NMP only when its author is a member of the group and
\* its audio, the file of its request, is on the Blossom server (advance).
THEOREM Prepared == Spec => []PreparedBeforeSubmission
<1>1. ASSUME Inv PROVE PreparedBeforeSubmission
  <2> SUFFICES ASSUME NEW n \in Receipts, Spoken(n)
               PROVE  /\ writes[n].author \in members
                      /\ writes[n].item.audio \in blobs
                      /\ writes[n].item.audio = file[writes[n].rid]
    BY DEF PreparedBeforeSubmission
  <2>1. /\ writes[n].author \in members
        /\ file[writes[n].rid] \in blobs
        /\ writes[n].item = FrozenItem(journal[writes[n].rid], file[writes[n].rid])
    BY <1>1, SpokenWrite DEF Spoken
  <2>2. QED
    BY <2>1 DEF FrozenItem
<1> QED
  BY <1>1, Invariance, PTL

\* Every reply tells the caller of the event he asked for, stored by the host,
\* and all replies of a request id name the same event (same_request, publish_as).
THEOREM Replies == Spec => []RepliesAgree
<1>1. ASSUME Inv PROVE RepliesAgree
  <2>1. ASSUME NEW x \in replies
        PROVE  /\ x.event \in host
               /\ SameRequest(journal[x.rid], x)
               /\ x.event = FrozenItem(journal[x.rid], file[x.rid])
    BY <1>1 DEF Inv, RepliesInv
  <2>2. ASSUME NEW x \in replies
        PROVE  x.event.input = x.input /\ x.event.author = x.author
    <3>1. /\ SameRequest(journal[x.rid], x)
          /\ x.event = FrozenItem(journal[x.rid], file[x.rid])
      BY <2>1
    <3>2. QED
      BY <3>1 DEF FrozenItem, SameRequest
  <2>3. ASSUME NEW x \in replies, NEW y \in replies, x.rid = y.rid
        PROVE  x.event = y.event
    BY <2>1, <2>3
  <2>4. QED
    BY <2>1, <2>2, <2>3 DEF RepliesAgree
<1> QED
  BY <1>1, Invariance, PTL

\* No step of any process removes an admission or changes its input, author or
\* time, though save replaces whatever record is there (insert, save).
THEOREM Frozen == Spec => AdmissionFrozen
<1> DEFINE Keep == \A r \in Rids : journal[r] # None =>
                     /\ journal'[r] # None
                     /\ journal'[r].input = journal[r].input
                     /\ journal'[r].author = journal[r].author
                     /\ journal'[r].created = journal[r].created
<1>1. ASSUME Inv, [Next]_vars PROVE [Keep]_vars
  BY <1>1, MonotoneStep DEF Monotone, SameAdmission
<1> QED
  BY <1>1, Invariance, PTL DEF Spec, AdmissionFrozen

-----------------------------------------------------------------------------
(* The pipeline implements the service                                     *)

Submitted(r) == \E n \in Receipts : SpokenFor(n, r)

\* A request with a spoken write has its admission and its audio file.
LEMMA SubmittedFacts ==
  ASSUME Inv, NEW r \in Rids, Submitted(r)
  PROVE  /\ journal[r] \in JobRecord
         /\ journal[r] # None
         /\ file[r] \in Audio
         /\ file[r] # None
         /\ FrozenItem(journal[r], file[r]) \in Items
<1>1. PICK n \in Receipts : writes[n] # None /\ writes[n].kind = "spoken" /\ writes[n].rid = r
  BY DEF Submitted, SpokenFor, Spoken
<1>2. journal[r] \in JobRecord /\ file[r] \in Audio
  BY <1>1, SpokenWrite
<1> QED
  BY <1>2, FrozenItemType, NoneAssumption

\* A binding of the service never changes: a step can only add one.
LEMMA BindingsKept ==
  ASSUME Inv, [Next]_vars
  PROVE  /\ (\A r \in Rids : journal'[r] # None => journal[r] # None)
              => admittedBar' = admittedBar
         /\ (\A r \in Rids : Submitted(r)' => Submitted(r)) => committedBar' = committedBar
         /\ \A r \in Rids : Submitted(r) =>
              /\ Submitted(r)'
              /\ FrozenItem(journal'[r], file'[r]) = FrozenItem(journal[r], file[r])
<1>0. Monotone
  BY MonotoneStep
<1>1. ASSUME NEW r \in Rids, journal[r] # None
      PROVE  /\ journal'[r] # None
             /\ journal'[r].input = journal[r].input
             /\ journal'[r].author = journal[r].author
             /\ journal'[r].created = journal[r].created
  BY <1>0, <1>1 DEF Monotone, SameAdmission
<1>2. ASSUME NEW r \in Rids, Submitted(r)
      PROVE  /\ Submitted(r)'
             /\ FrozenItem(journal'[r], file'[r]) = FrozenItem(journal[r], file[r])
  <2>1. Submitted(r)'
    BY <1>0, <1>2 DEF Submitted, SpokenFor, Spoken, Monotone, Grows
  <2>2. journal[r] # None /\ file'[r] = file[r]
    BY <1>0, <1>2, SubmittedFacts DEF Monotone
  <2>3. QED
    BY <1>1, <2>1, <2>2 DEF FrozenItem
<1>3. ASSUME \A r \in Rids : journal'[r] # None => journal[r] # None
      PROVE  admittedBar' = admittedBar
  BY <1>1, <1>3 DEF admittedBar
<1>4. ASSUME \A r \in Rids : Submitted(r)' => Submitted(r)
      PROVE  committedBar' = committedBar
  <2>1. \A r \in Rids :
          (IF Submitted(r)' THEN FrozenItem(journal'[r], file'[r]) ELSE None)
            = (IF Submitted(r) THEN FrozenItem(journal[r], file[r]) ELSE None)
    BY <1>2, <1>4
  <2>2. committedBar = [r \in Rids |-> IF Submitted(r) THEN FrozenItem(journal[r], file[r]) ELSE None]
    BY DEF committedBar, Submitted
  <2>3. committedBar' =
          [r \in Rids |-> IF Submitted(r)' THEN FrozenItem(journal'[r], file'[r]) ELSE None]
    BY DEF committedBar, Submitted, FrozenItem
  <2>4. QED
    BY <2>1, <2>2, <2>3
<1> QED
  BY <1>2, <1>3, <1>4

\* The abstract variables are untouched when the journal gains no record, NMP
\* no spoken write and neither host nor replies change.
LEMMA Stutters ==
  ASSUME Inv, [Next]_vars, UNCHANGED <<host, replies>>,
         \A r \in Rids : journal'[r] # None => journal[r] # None,
         \A r \in Rids : Submitted(r)' => Submitted(r)
  PROVE  UNCHANGED Service!vars
BY BindingsKept DEF Service!vars

LEMMA ServiceStep ==
  ASSUME Inv, [Next]_vars
  PROVE  [Service!Next]_(Service!vars)
<1> DEFINE Quiet == UNCHANGED <<journal, writes, host, replies>>
<1>1. ASSUME Quiet PROVE UNCHANGED Service!vars
  BY <1>1, Stutters DEF Submitted, SpokenFor, Spoken
<1>2. ASSUME NEW p \in Procs, Insert(p) PROVE Service!Next
  <2> DEFINE r == req[p].rid
             adm == [input |-> req[p].input, author |-> req[p].author,
                     created |-> req[p].created]
  <2>1. r \in Rids /\ req[p] \in Requests
    BY <1>2, Busy DEF Insert
  <2>2. /\ journal[r] = None
        /\ journal' = [journal EXCEPT ![r] = NewJob(req[p])]
        /\ UNCHANGED <<file, writes, host, replies>>
    BY <1>2 DEF Insert, MayLink, nmpVars
  <2>3. adm \in Service!Admissions
    BY <2>1, AuthorsAssumption DEF Requests, Service!Admissions
  <2>4. NewJob(req[p]) # None
    BY <2>1, NewJobType, NoneAssumption
  <2>5. admittedBar[r] = None /\ admittedBar' = [admittedBar EXCEPT ![r] = adm]
    BY <2>1, <2>2, <2>4 DEF admittedBar, NewJob, Inv, TypeOK
  <2>6. committedBar' = committedBar
    BY <2>2, BindingsKept DEF Submitted, SpokenFor, Spoken
  <2>7. Service!Admit(r, adm)
    BY <2>2, <2>5, <2>6 DEF Service!Admit
  <2>8. QED
    BY <2>1, <2>3, <2>7 DEF Service!Next
<1>3. ASSUME NEW p \in Procs, Save(p) PROVE UNCHANGED Service!vars
  <2>1. \A r \in Rids : journal'[r] # None => journal[r] # None
    BY <1>3, Busy, NoneAssumption DEF Save, Inv, TypeOK
  <2>2. UNCHANGED <<writes, host, replies>>
    BY <1>3 DEF Save, nmpVars
  <2>3. QED
    BY <2>1, <2>2, Stutters DEF Submitted, SpokenFor, Spoken
<1>4. ASSUME NEW p \in Procs, NEW m \in Receipts, AuthorizeAccept(p, m)
      PROVE  UNCHANGED Service!vars
  <2>1. \A n \in Receipts : writes'[n] = writes[n] \/ writes'[n].kind = "put_user"
    BY <1>4 DEF AuthorizeAccept, Inv, TypeOK
  <2>2. \A r \in Rids : Submitted(r)' => Submitted(r)
    BY <2>1 DEF Submitted, SpokenFor, Spoken
  <2>3. UNCHANGED <<journal, host, replies>>
    BY <1>4 DEF AuthorizeAccept, Staged
  <2>4. QED
    BY <2>2, <2>3, Stutters
<1>5. ASSUME NEW p \in Procs, NEW m \in Receipts, Accept(p, m)
      PROVE  Service!Next \/ UNCHANGED Service!vars
  <2>0. PICK r \in Rids : r = req[p].rid
    BY <1>5, Busy DEF Accept, AtStage
  <2>1. pc[p] = "stage" /\ job[p].stage = "author_authorized"
    BY <1>5 DEF Accept, AtStage
  <2>2. /\ journal[r] # None /\ file[r] \in Audio
        /\ SameAdmission(job[p], journal[r])
    BY <2>0, <2>1, FrozenJob DEF Inv, MemoryInv, FrozenStages
  <2>3. /\ UNCHANGED <<journal, file, host, replies>>
        /\ \A n \in Receipts \ {m} : writes'[n] = writes[n]
        /\ writes'[m].kind = "spoken" /\ writes'[m].rid = r
        /\ writes'[m] \in Write
    <3>1. writes' \in [Receipts -> Write \cup {None}]
      BY TypeStep DEF TypeOK
    <3>2. /\ writes'[m].kind = "spoken" /\ writes'[m].rid = r
          /\ \A n \in Receipts \ {m} : writes'[n] = writes[n]
          /\ UNCHANGED <<journal, file, host, replies>>
      BY <1>5, <2>0 DEF Accept, Staged, Inv, TypeOK
    <3>3. writes'[m] # None
      <4>1. [kind |-> "spoken", rid |-> r, author |-> job[p].item.author,
             item |-> job[p].item, status |-> "accepted"] \in Write
        BY <2>0, <2>1, FrozenJob, Busy DEF Write, FrozenStages
      <4>2. QED
        BY <1>5, <2>0, <4>1, NoneAssumption DEF Accept, Inv, TypeOK
    <3>4. QED
      BY <3>1, <3>2, <3>3
  <2>4. \A s \in Rids \ {r} : Submitted(s)' => Submitted(s)
    BY <2>3 DEF Submitted, SpokenFor, Spoken
  <2>5. CASE Submitted(r)
    BY <2>3, <2>4, <2>5, Stutters
  <2>6. CASE ~Submitted(r)
    <3>1. Submitted(r)'
      BY <2>3, NoneAssumption DEF Submitted, SpokenFor, Spoken
    <3>2. admittedBar' = admittedBar
      BY <2>3, BindingsKept
    <3>3. \A s \in Rids \ {r} : committedBar'[s] = committedBar[s]
      BY <2>3, <2>4, BindingsKept DEF committedBar, Submitted, FrozenItem
    <3>4. committedBar[r] = None /\ committedBar'[r] = FrozenItem(journal[r], file[r])
      BY <2>1, <2>3, <2>6, <3>1 DEF committedBar, Submitted, FrozenItem
    <3>5. committedBar' = [committedBar EXCEPT ![r] = FrozenItem(journal[r], file[r])]
      BY <2>1, <3>3, <3>4 DEF committedBar
    <3>6. /\ admittedBar[r] # None
          /\ FrozenItem(journal[r], file[r]) =
               [input |-> admittedBar[r].input, author |-> admittedBar[r].author,
                created |-> admittedBar[r].created, audio |-> file[r]]
      <4>1. journal[r] \in JobRecord
        BY <2>0, <2>1, Busy
      <4>2. [input |-> journal[r].input, author |-> journal[r].author,
             created |-> journal[r].created] # None
        BY <4>1, NoneAssumption DEF JobRecord
      <4>3. QED
        BY <2>1, <2>2, <4>2 DEF admittedBar, FrozenItem
    <3>7. Service!Commit(r, file[r])
      BY <2>3, <3>2, <3>4, <3>5, <3>6 DEF Service!Commit
    <3>8. QED
      BY <2>1, <2>2, <3>7 DEF Service!Next
  <2>7. QED
    BY <2>5, <2>6
<1>6. ASSUME NEW p \in Procs, Reply(p) PROVE Service!Next
  <2> DEFINE r == req[p].rid
             n == job[p].receipt
  <2>1. r \in Rids /\ pc[p] = "loop" /\ job[p].stage = "published"
    BY <1>6, Busy DEF Reply
  <2>2. /\ journal[r] \in JobRecord /\ journal[r] # None
        /\ SameAdmission(job[p], journal[r])
        /\ SameRequest(job[p], req[p])
        /\ JobFacts(job[p], r, file[r], blobs, members, writes)
    BY <2>1, Busy DEF Inv, MemoryInv, JobOK
  <2>3. /\ n \in Receipts /\ writes[n] # None /\ writes[n].kind = "spoken"
        /\ writes[n].rid = r /\ writes[n].status = "acked" /\ job[p].event = job[p].item
        /\ job[p].item = FrozenItem(job[p], file[r])
    BY <2>1, <2>2 DEF JobFacts, FrozenStages
  <2>4. Submitted(r)
    BY <2>3 DEF Submitted, SpokenFor, Spoken
  <2>5. committedBar[r] = FrozenItem(journal[r], file[r])
    BY <2>1, <2>4 DEF committedBar, Submitted
  <2>6. committedBar[r] # None
    BY <2>1, <2>4, <2>5, SubmittedFacts, NoneAssumption
  <2>7. committedBar[r] \in host
    BY <2>3, <2>5 DEF Inv, WritesInv, WriteFacts
  <2>8. job[p].event = committedBar[r]
    BY <2>2, <2>3, <2>5 DEF FrozenItem, SameAdmission
  <2>9. admittedBar[r].input = req[p].input /\ admittedBar[r].author = req[p].author
    BY <2>1, <2>2 DEF admittedBar, SameAdmission, SameRequest
  <2>10. /\ replies' = replies \cup
              {[rid |-> r, input |-> req[p].input, author |-> req[p].author,
                event |-> job[p].event]}
         /\ UNCHANGED <<journal, file, writes, host>>
    BY <1>6 DEF Reply, nmpVars
  <2>11. admittedBar' = admittedBar /\ committedBar' = committedBar
    BY <2>10, BindingsKept DEF Submitted, SpokenFor, Spoken
  <2>12. Service!Answer(r)
    BY <2>6, <2>7, <2>8, <2>9, <2>10, <2>11 DEF Service!Answer
  <2>13. QED
    BY <2>1, <2>12 DEF Service!Next
<1>7. ASSUME NEW m \in Receipts, NmpStep(m) PROVE Service!Next \/ UNCHANGED Service!vars
  <2>1. writes[m] # None /\ writes[m] \in Write
    BY <1>7 DEF NmpStep, Sign, DeliverPutUser, DeliverSpoken, Refuse, Deliverable, Inv, TypeOK
  <2>2. \A n \in Receipts :
          \/ writes'[n] = writes[n]
          \/ /\ writes[n] # None
             /\ writes'[n].kind = writes[n].kind /\ writes'[n].rid = writes[n].rid
    BY <1>7, <2>1 DEF NmpStep, Sign, DeliverPutUser, DeliverSpoken, Refuse, Inv, TypeOK, Write
  <2>3. \A r \in Rids : Submitted(r)' => Submitted(r)
    BY <2>2 DEF Submitted, SpokenFor, Spoken
  <2>4. UNCHANGED <<journal, replies>>
    BY <1>7 DEF NmpStep, Sign, DeliverPutUser, DeliverSpoken, Refuse
  <2>5. \/ UNCHANGED host
        \/ writes[m].kind = "spoken" /\ host' = host \cup {writes[m].item}
    BY <1>7 DEF NmpStep, Sign, DeliverPutUser, DeliverSpoken, Refuse
  <2>6. CASE UNCHANGED host
    BY <2>3, <2>4, <2>6, Stutters
  <2>7. CASE writes[m].kind = "spoken" /\ host' = host \cup {writes[m].item}
    <3> DEFINE r == writes[m].rid
    <3>1. r \in Rids /\ writes[m].item = FrozenItem(journal[r], file[r])
      BY <2>1, <2>7, SpokenWrite
    <3>2. Submitted(r)
      BY <2>1, <2>7 DEF Submitted, SpokenFor, Spoken
    <3>3. committedBar[r] = writes[m].item /\ committedBar[r] # None
      BY <3>1, <3>2, SubmittedFacts, NoneAssumption DEF committedBar, Submitted
    <3>4. admittedBar' = admittedBar /\ committedBar' = committedBar
      BY <2>3, <2>4, BindingsKept
    <3>5. Service!Publish(r)
      BY <2>4, <2>7, <3>3, <3>4 DEF Service!Publish
    <3>6. QED
      BY <3>1, <3>5 DEF Service!Next
  <2>8. QED
    BY <2>5, <2>6, <2>7
<1>8. ASSUME NEW p \in Procs, ProcStep(p), ~Insert(p), ~Save(p), ~Reply(p),
             ~\E m \in Receipts : AuthorizeAccept(p, m) \/ Accept(p, m)
      PROVE  Quiet
  BY <1>8 DEF ProcStep, ServeStep, StageStep, Open, Receive, AdmitAbsent, AdmitExisting,
     AdmitConflict, Load, Synthesize, MakeDurable, AuthorizeKnown,
     ResumeAuthorization, ResumePublication, Fail, Crash, Staged, nmpVars
<1>9. ASSUME NEW a \in Authors, PublishState(a) PROVE Quiet
  BY <1>9 DEF PublishState
<1>10. CASE UNCHANGED vars
  BY <1>1, <1>10 DEF vars
<1> QED
  BY <1>1, <1>2, <1>3, <1>4, <1>5, <1>6, <1>7, <1>8, <1>9, <1>10 DEF Next

\* The pipeline implements the abstract service, for any number of processes:
\* every step of a daemon, of NMP or of the host is a step of the service or
\* invisible to it.
THEOREM Refinement == Spec => ImplementsService
<1>1. Init => Service!Init
  BY DEF Init, Service!Init, admittedBar, committedBar, SpokenFor, Spoken
<1>2. Inv /\ [Next]_vars => [Service!Next]_(Service!vars)
  BY ServiceStep
<1> QED
  BY <1>1, <1>2, Invariance, PTL DEF Spec, ImplementsService, Service!Spec

-----------------------------------------------------------------------------
(* A process that has the journal to itself                                *)

\* The advances a job needs from a stage to its publication, through both receipts.
Left == [admitted |-> 6, synthesized |-> 5, artifacts_durable |-> 4,
         authorization_accepted |-> 3, author_authorized |-> 2,
         publication_accepted |-> 1, published |-> 0]

\* A record names a spoken write only once the stage says so.
ReceiptStaged(j) == j.receipt # None => j.stage \in {"publication_accepted", "published"}

\* Nobody changes the journal behind the process: what it has in memory is what
\* is there, and its advances last for the stages that are left.
AloneInv ==
  /\ \A r \in Rids : journal[r] # None => ReceiptStaged(journal[r])
  /\ \A p \in Procs :
       /\ pc[p] \in {"admit", "insert"} => budget[p] = MaxAdvances
       /\ pc[p] \in {"loop", "stage"} => job[p] = journal[req[p].rid]
       /\ pc[p] \in {"loop", "save"} => budget[p] >= Left[job[p].stage]
       /\ pc[p] = "stage" => budget[p] + 1 >= Left[job[p].stage]
       /\ pc[p] = "save" => ReceiptStaged(job[p])

\* The advances left, stage by stage.
LEMMA LeftFacts ==
  /\ Left["admitted"] = 6 /\ Left["synthesized"] = 5 /\ Left["artifacts_durable"] = 4
  /\ Left["authorization_accepted"] = 3 /\ Left["author_authorized"] = 2
  /\ Left["publication_accepted"] = 1 /\ Left["published"] = 0
  /\ \A s \in Stages : Left[s] \in 0..6 /\ (Left[s] = 0 => s = "published")
<1>1. /\ Left["admitted"] = 6 /\ Left["synthesized"] = 5 /\ Left["artifacts_durable"] = 4
      /\ Left["authorization_accepted"] = 3 /\ Left["author_authorized"] = 2
      /\ Left["publication_accepted"] = 1 /\ Left["published"] = 0
  BY DEF Left
<1> QED
  BY <1>1 DEF Stages

\* A stage that did its work has used up the advance it was given.
LEMMA StagedAlone ==
  ASSUME Inv, AloneInv, \A x, y \in Procs : x = y, NEW p \in Procs, pc[p] = "stage",
         NEW j \in JobRecord, Left[j.stage] + 1 <= Left[job[p].stage], ReceiptStaged(j),
         Staged(p, j)
  PROVE  AloneInv'
<1>1. /\ pc'[p] = "save" /\ job'[p] = j /\ UNCHANGED <<journal, req, budget>>
  BY DEF Staged, Inv, TypeOK
<1>2. budget[p] + 1 >= Left[job[p].stage] /\ budget[p] \in Nat
  BY BoundsAssumption DEF AloneInv, Inv, TypeOK
<1>3. Left[j.stage] \in Nat /\ Left[job[p].stage] \in Nat
  <2>1. job[p] \in JobRecord
    BY Busy
  <2> QED
    BY <2>1, LeftFacts DEF JobRecord
<1>4. budget'[p] >= Left[job'[p].stage]
  BY <1>1, <1>2, <1>3
<1>5. ReceiptStaged(j)
  OBVIOUS
<1>6. ReceiptStaged(job[p])'
  BY <1>1, <1>5 DEF ReceiptStaged
<1>7. \A q \in Procs : q = p
  OBVIOUS
<1>8. \A r \in Rids : journal'[r] # None => ReceiptStaged(journal[r])'
  BY <1>1 DEF AloneInv, ReceiptStaged
<1> QED
  BY <1>1, <1>4, <1>6, <1>7, <1>8 DEF AloneInv

\* What a step leaves alone, the invariant does too.
LEMMA AloneKept ==
  ASSUME AloneInv, UNCHANGED <<journal, pc, req, budget, job>>
  PROVE  AloneInv'
BY DEF AloneInv, ReceiptStaged

\* A request that ends leaves the journal as it should be.
LEMMA FinishAlone ==
  ASSUME \A x, y \in Procs : x = y, NEW p \in Procs, pc'[p] \in {"idle", "down"},
         \A r \in Rids : journal'[r] # None => ReceiptStaged(journal[r])'
  PROVE  AloneInv'
<1>1. \A q \in Procs : q = p
  OBVIOUS
<1> QED
  BY <1>1 DEF AloneInv

\* The stages, each with one advance.
LEMMA StageAlone ==
  ASSUME Inv, AloneInv, \A x, y \in Procs : x = y, NEW p \in Procs, StageStep(p)
  PROVE  AloneInv'
<1>1. pc[p] = "stage" /\ req[p].rid \in Rids /\ job[p] \in JobRecord /\ job[p].author \in Authors
  <2>1. pc[p] = "stage"
    BY DEF StageStep, Synthesize, MakeDurable, AuthorizeKnown, AuthorizeAccept,
           ResumeAuthorization, Accept, ResumePublication, AtStage
  <2> QED
    BY <2>1, Busy
<1>2. ReceiptStaged(job[p])
  <2>1. journal[req[p].rid] # None /\ job[p] = journal[req[p].rid]
    BY <1>1 DEF AloneInv, Inv, MemoryInv
  <2> QED
    BY <1>1, <2>1 DEF AloneInv
<1>3. ASSUME NEW audio \in Audio, Synthesize(p, audio) PROVE AloneInv'
  <2> DEFINE w == Linked(req[p].rid, audio)
             j == [job[p] EXCEPT !.stage = "synthesized", !.audio = w]
  <2>1. w \in Audio \cup {None}
    BY <1>1 DEF Linked, Inv, TypeOK
  <2>2. job[p].stage = "admitted" /\ Staged(p, j)
    BY <1>3 DEF Synthesize, AtStage
  <2>3. j \in JobRecord /\ j.stage = "synthesized" /\ j.receipt = job[p].receipt
    BY <1>1, <2>1 DEF JobRecord, Stages
  <2> HIDE DEF j
  <2>4. Left[j.stage] + 1 <= Left[job[p].stage] /\ ReceiptStaged(j)
    BY <1>2, <2>2, <2>3, LeftFacts DEF ReceiptStaged
  <2> QED
    BY <1>1, <2>2, <2>3, <2>4, StagedAlone
<1>4. CASE MakeDurable(p)
  <2> DEFINE j == [job[p] EXCEPT !.stage = "artifacts_durable", !.audio = None,
                                 !.item = FrozenItem(job[p], job[p].audio)]
  <2>1. job[p].stage = "synthesized" /\ Staged(p, j)
    BY <1>4 DEF MakeDurable, AtStage
  <2>2. FrozenItem(job[p], job[p].audio) \in Items
    <3>1. job[p].audio \in Audio
      BY <1>1, <2>1 DEF Inv, MemoryInv, JobOK, JobFacts, JobRecord
    <3> QED
      BY <1>1, <3>1, FrozenItemType
  <2>3. j \in JobRecord /\ j.stage = "artifacts_durable" /\ j.receipt = job[p].receipt
    BY <1>1, <2>2 DEF JobRecord, Stages
  <2> HIDE DEF j
  <2>4. Left[j.stage] + 1 <= Left[job[p].stage] /\ ReceiptStaged(j)
    BY <1>2, <2>1, <2>3, LeftFacts DEF ReceiptStaged
  <2> QED
    BY <1>1, <2>1, <2>3, <2>4, StagedAlone
<1>5. ASSUME NEW known \in Evidence, Staged(p, Authorized(job[p], known)),
             job[p].stage \in {"artifacts_durable", "authorization_accepted"}
      PROVE  AloneInv'
  <2> DEFINE j == Authorized(job[p], known)
  <2>1. j \in JobRecord /\ j.stage = "author_authorized" /\ j.receipt = job[p].receipt
    BY <1>1, <1>5 DEF Authorized, JobRecord, Stages
  <2> HIDE DEF j
  <2>2. Left[j.stage] + 1 <= Left[job[p].stage] /\ ReceiptStaged(j)
    BY <1>2, <1>5, <2>1, LeftFacts DEF ReceiptStaged
  <2>3. Staged(p, j)
    BY <1>5 DEF j
  <2> QED
    BY <1>1, <2>1, <2>2, <2>3, StagedAlone
<1>6. cache[p][job[p].author] \in Evidence \cup {None}
  BY <1>1 DEF Inv, TypeOK
<1>7. CASE AuthorizeKnown(p)
  <2> DEFINE known == IF cache[p][job[p].author] # None THEN cache[p][job[p].author]
                      ELSE "group_state"
  <2>1. known \in Evidence
    BY <1>6 DEF Evidence
  <2>2. Staged(p, Authorized(job[p], known)) /\ job[p].stage = "artifacts_durable"
    BY <1>7 DEF AuthorizeKnown, AtStage
  <2> QED
    BY <1>5, <2>1, <2>2
<1>8. CASE ResumeAuthorization(p)
  <2> DEFINE n == job[p].mreceipt
             known == IF HostAcked(n) THEN "put_user" ELSE cache[p][job[p].author]
  <2>1. known \in Evidence
    BY <1>6, <1>8 DEF ResumeAuthorization, Evidence
  <2>2. Staged(p, Authorized(job[p], known)) /\ job[p].stage = "authorization_accepted"
    BY <1>8 DEF ResumeAuthorization, AtStage
  <2> QED
    BY <1>5, <2>1, <2>2
<1>9. ASSUME NEW n \in Receipts, AuthorizeAccept(p, n) PROVE AloneInv'
  <2> DEFINE j == AuthorizationAccepted(job[p], n)
  <2>1. Staged(p, j) /\ job[p].stage = "artifacts_durable"
    BY <1>9 DEF AuthorizeAccept, AtStage
  <2>2. j \in JobRecord /\ j.stage = "authorization_accepted" /\ j.receipt = job[p].receipt
    BY <1>1 DEF AuthorizationAccepted, JobRecord, Stages
  <2> HIDE DEF j
  <2>3. Left[j.stage] + 1 <= Left[job[p].stage] /\ ReceiptStaged(j)
    BY <1>2, <2>1, <2>2, LeftFacts DEF ReceiptStaged
  <2> QED
    BY <1>1, <2>1, <2>2, <2>3, StagedAlone
<1>10. ASSUME NEW n \in Receipts, Accept(p, n) PROVE AloneInv'
  <2> DEFINE j == PublicationAccepted(job[p], n)
  <2>1. Staged(p, j) /\ job[p].stage = "author_authorized"
    BY <1>10 DEF Accept, AtStage
  <2>2. j \in JobRecord /\ j.stage = "publication_accepted"
    BY <1>1 DEF PublicationAccepted, JobRecord, Stages
  <2> HIDE DEF j
  <2>3. Left[j.stage] + 1 <= Left[job[p].stage] /\ ReceiptStaged(j)
    BY <2>1, <2>2, LeftFacts DEF ReceiptStaged
  <2> QED
    BY <1>1, <2>1, <2>2, <2>3, StagedAlone
<1>11. CASE ResumePublication(p)
  <2> DEFINE j == [job[p] EXCEPT !.stage = "published",
                                 !.event = writes[job[p].receipt].item]
  <2>1. Staged(p, j) /\ job[p].stage = "publication_accepted"
    BY <1>11 DEF ResumePublication, AtStage
  <2>2. job[p].receipt \in Receipts /\ writes[job[p].receipt] \in Write
    BY <1>1, <2>1 DEF Inv, TypeOK, MemoryInv, JobOK, JobFacts
  <2>3. j \in JobRecord /\ j.stage = "published"
    BY <1>1, <2>2 DEF JobRecord, Stages, Write
  <2> HIDE DEF j
  <2>4. Left[j.stage] + 1 <= Left[job[p].stage] /\ ReceiptStaged(j)
    BY <2>1, <2>3, LeftFacts DEF ReceiptStaged
  <2> QED
    BY <1>1, <2>1, <2>3, <2>4, StagedAlone
<1> QED
  BY <1>3, <1>4, <1>7, <1>8, <1>9, <1>10, <1>11 DEF StageStep

\* Every step of a process that has the journal to itself keeps the invariant.
LEMMA AloneStep ==
  ASSUME Inv, AloneInv, \A x, y \in Procs : x = y, MaxAdvances >= 6, [Next]_vars
  PROVE  AloneInv'
<1>1. CASE UNCHANGED <<journal, pc, req, budget, job>>
  BY <1>1, AloneKept
<1>2. ASSUME UNCHANGED journal
      PROVE  \A r \in Rids : journal'[r] # None => ReceiptStaged(journal[r])'
  BY <1>2 DEF AloneInv, ReceiptStaged
<1>3. ASSUME NEW p \in Procs, ProcStep(p) PROVE AloneInv'
  <2>1. \A q \in Procs : q = p
    OBVIOUS
  <2>2. CASE Open(p) \/ Crash(p)
    <3>1. pc'[p] \in {"idle", "down"} /\ UNCHANGED journal
      BY <2>2 DEF Open, Crash, Inv, TypeOK
    <3> QED
      BY <1>2, <3>1, FinishAlone
  <2>3. CASE Finish(p) /\ UNCHANGED journal
    <3>1. pc'[p] = "idle"
      BY <2>3 DEF Finish, Inv, TypeOK
    <3> QED
      BY <1>2, <2>3, <3>1, FinishAlone
  <2>4. ASSUME NEW q \in Requests, Receive(p, q) PROVE AloneInv'
    <3>1. pc'[p] = "admit" /\ budget'[p] = MaxAdvances /\ UNCHANGED journal
      BY <2>4 DEF Receive, StageBudget, Inv, TypeOK
    <3> QED
      BY <1>2, <2>1, <3>1 DEF AloneInv
  <2>5. CASE AdmitAbsent(p)
    <3>1. pc[p] = "admit" /\ pc'[p] = "insert" /\ budget'[p] = budget[p] /\ UNCHANGED journal
      BY <2>5 DEF AdmitAbsent, Inv, TypeOK
    <3> QED
      BY <1>2, <2>1, <3>1 DEF AloneInv
  <2>6. CASE AdmitExisting(p)
    <3>1. /\ pc[p] \in {"admit", "insert"} /\ pc'[p] = "loop" /\ UNCHANGED <<journal, req, budget>>
          /\ job'[p] = journal[req[p].rid] /\ journal[req[p].rid] # None
      BY <2>6 DEF AdmitExisting, Inv, TypeOK
    <3>2. req[p].rid \in Rids
      BY <3>1, Busy
    <3>3. journal[req[p].rid].stage \in Stages
      BY <3>1, <3>2 DEF Inv, TypeOK, JobRecord
    <3>4. budget'[p] >= Left[job'[p].stage]
      BY <3>1, <3>3, LeftFacts, BoundsAssumption DEF AloneInv
    <3> QED
      BY <1>2, <2>1, <3>1, <3>4 DEF AloneInv
  <2>7. CASE Insert(p)
    <3> DEFINE j == NewJob(req[p])
    <3>1. /\ pc[p] = "insert" /\ pc'[p] = "loop" /\ UNCHANGED <<req, budget>>
          /\ job'[p] = j /\ journal' = [journal EXCEPT ![req[p].rid] = j]
      BY <2>7 DEF Insert, Inv, TypeOK
    <3>2. req[p].rid \in Rids
      BY <3>1, Busy
    <3>3. j.stage = "admitted" /\ j.receipt = None
      BY DEF NewJob
    <3> HIDE DEF j
    <3>4. journal'[req[p].rid] = j /\ \A r \in Rids : r # req[p].rid => journal'[r] = journal[r]
      BY <3>1, <3>2 DEF Inv, TypeOK
    <3>5. \A r \in Rids : journal'[r] # None => ReceiptStaged(journal[r])'
      BY <3>3, <3>4 DEF AloneInv, ReceiptStaged
    <3>6. budget'[p] >= Left[job'[p].stage]
      BY <3>1, <3>3, LeftFacts, BoundsAssumption DEF AloneInv
    <3> QED
      BY <2>1, <3>1, <3>4, <3>5, <3>6 DEF AloneInv
  <2>8. CASE Load(p)
    <3>1. /\ pc[p] = "loop" /\ UNCHANGED <<journal, req>> /\ job[p].stage # "published"
          /\ budget[p] > 0 /\ budget'[p] = budget[p] - 1
          /\ job'[p] = journal[req[p].rid] /\ pc'[p] \in {"loop", "stage"}
          /\ pc'[p] = "loop" => journal[req[p].rid].stage = "published"
      BY <2>8 DEF Load, BudgetLeft, Inv, TypeOK
    <3>2. job[p] = journal[req[p].rid] /\ budget[p] >= Left[job[p].stage]
      BY <3>1 DEF AloneInv
    <3>3. pc'[p] = "stage" /\ job'[p] = job[p]
      BY <3>1, <3>2
    <3>4. budget[p] \in Nat /\ Left[job[p].stage] \in Nat
      <4>1. job[p] \in JobRecord
        BY <3>1, Busy
      <4> QED
        BY <4>1, LeftFacts, BoundsAssumption DEF Inv, TypeOK, JobRecord
    <3>5. budget'[p] + 1 >= Left[job'[p].stage]
      BY <3>1, <3>2, <3>3, <3>4
    <3> QED
      BY <1>2, <2>1, <3>1, <3>3, <3>5 DEF AloneInv
  <2>9. CASE Save(p)
    <3>1. pc[p] = "save" /\ journal' = [journal EXCEPT ![req[p].rid] = job[p]]
      BY <2>9 DEF Save
    <3>2. req[p].rid \in Rids
      BY <3>1, Busy
    <3>3. journal'[req[p].rid] = job[p] /\ \A r \in Rids : r # req[p].rid => journal'[r] = journal[r]
      BY <3>1, <3>2 DEF Inv, TypeOK
    <3>4. \A r \in Rids : journal'[r] # None => ReceiptStaged(journal[r])'
      BY <3>1, <3>3 DEF AloneInv, ReceiptStaged
    <3>5. CASE Finish(p)
      <4>1. pc'[p] = "idle"
        BY <3>5 DEF Finish, Inv, TypeOK
      <4> QED
        BY <3>4, <4>1, FinishAlone
    <3>6. CASE ~Finish(p)
      <4>1. pc'[p] = "loop" /\ UNCHANGED <<req, budget, job>>
        BY <2>9, <3>6 DEF Save, Inv, TypeOK
      <4>2. budget[p] >= Left[job[p].stage]
        BY <3>1 DEF AloneInv
      <4> QED
        BY <2>1, <3>3, <3>4, <4>1, <4>2 DEF AloneInv
    <3> QED
      BY <3>5, <3>6
  <2>10. CASE StageStep(p)
    BY <2>10, StageAlone
  <2> QED
    BY <1>3, <2>2, <2>3, <2>4, <2>5, <2>6, <2>7, <2>8, <2>9, <2>10
    DEF ProcStep, ServeStep, AdmitConflict, Reply, Fail
<1>4. CASE \E n \in Receipts : NmpStep(n)
  BY <1>1, <1>4 DEF NmpStep, Sign, DeliverPutUser, DeliverSpoken, Refuse, procVars
<1>5. CASE \E a \in Authors : PublishState(a)
  BY <1>1, <1>5 DEF PublishState, procVars
<1> QED
  BY <1>1, <1>3, <1>4, <1>5 DEF Next, vars

\* A process alone has its advances and its memory in step with the journal.
LEMMA AloneInvariance ==
  ASSUME \A x, y \in Procs : x = y, MaxAdvances >= 6
  PROVE  Spec => [](Inv /\ AloneInv)
<1>1. Init => Inv /\ AloneInv
  BY InitInv DEF Init, AloneInv
<1>2. (Inv /\ AloneInv) /\ [Next]_vars => (Inv /\ AloneInv)'
  BY InvStep, AloneStep
<1> QED
  BY <1>1, <1>2, PTL DEF Spec

\* One process never runs out of its six advances, at whatever stage a crash or an
\* error left the job it takes up (publish_as).
THEOREM Budget ==
  ASSUME \A x, y \in Procs : x = y, MaxAdvances >= 6
  PROVE  Spec => []BudgetSuffices
<1>1. Inv /\ AloneInv => BudgetSuffices
  <2> SUFFICES ASSUME Inv, AloneInv, NEW p \in Procs, pc[p] = "loop", budget[p] = 0
               PROVE  job[p].stage = "published"
    BY DEF BudgetSuffices
  <2>1. job[p].stage \in Stages
    BY Busy DEF JobRecord
  <2>2. 0 >= Left[job[p].stage]
    BY DEF AloneInv
  <2> QED
    BY <2>1, <2>2, LeftFacts
<1> QED
  BY <1>1, AloneInvariance, PTL

-----------------------------------------------------------------------------
(* Advances that meet no other                                             *)

\* In the journal and in memory a record names a spoken write only once its stage
\* says so, whoever saved it.
ReceiptsInv ==
  /\ \A r \in Rids : journal[r] # None => ReceiptStaged(journal[r])
  /\ \A p \in Procs : pc[p] \in {"loop", "stage", "save"} => ReceiptStaged(job[p])

\* A record that a stage produces from one that is in order.
LEMMA StagedReceipts ==
  ASSUME Inv, ReceiptsInv, NEW p \in Procs, NEW j, ReceiptStaged(j), Staged(p, j)
  PROVE  ReceiptsInv'
<1>1. /\ job' = [job EXCEPT ![p] = j] /\ pc' = [pc EXCEPT ![p] = "save"]
      /\ journal' = journal
  BY DEF Staged
<1>2. \A r \in Rids : journal'[r] # None => ReceiptStaged(journal[r])'
  BY <1>1 DEF ReceiptsInv, ReceiptStaged
<1>3. \A q \in Procs : pc'[q] \in {"loop", "stage", "save"} => ReceiptStaged(job[q])'
  <2> TAKE q \in Procs
  <2>1. CASE q = p
    BY <1>1, <2>1 DEF ReceiptStaged, Inv, TypeOK
  <2>2. CASE q # p
    BY <1>1, <2>2 DEF ReceiptsInv, ReceiptStaged, Inv, TypeOK
  <2> QED
    BY <2>1, <2>2
<1> QED
  BY <1>2, <1>3 DEF ReceiptsInv

\* Each stage keeps the receipts of the records in order.
LEMMA StageReceipts ==
  ASSUME Inv, ReceiptsInv, NEW p \in Procs, StageStep(p)
  PROVE  ReceiptsInv'
<1>1. pc[p] = "stage" /\ job[p] \in JobRecord
  <2>1. pc[p] = "stage"
    BY DEF StageStep, Synthesize, MakeDurable, AuthorizeKnown, AuthorizeAccept,
           ResumeAuthorization, Accept, ResumePublication, AtStage
  <2> QED
    BY <2>1, Busy
<1>2. ReceiptStaged(job[p])
  BY <1>1 DEF ReceiptsInv
<1>3. ASSUME NEW audio \in Audio, Synthesize(p, audio) PROVE ReceiptsInv'
  <2> DEFINE j == [job[p] EXCEPT !.stage = "synthesized", !.audio = Linked(req[p].rid, audio)]
  <2>1. job[p].stage = "admitted" /\ Staged(p, j)
    BY <1>3 DEF Synthesize, AtStage
  <2>2. j.receipt = job[p].receipt
    BY <1>1 DEF JobRecord
  <2> HIDE DEF j
  <2> QED
    BY <1>2, <2>1, <2>2, StagedReceipts DEF ReceiptStaged
<1>4. CASE MakeDurable(p)
  <2> DEFINE j == [job[p] EXCEPT !.stage = "artifacts_durable", !.audio = None,
                                 !.item = FrozenItem(job[p], job[p].audio)]
  <2>1. job[p].stage = "synthesized" /\ Staged(p, j)
    BY <1>4 DEF MakeDurable, AtStage
  <2>2. j.receipt = job[p].receipt
    BY <1>1 DEF JobRecord
  <2> HIDE DEF j
  <2> QED
    BY <1>2, <2>1, <2>2, StagedReceipts DEF ReceiptStaged
<1>5. ASSUME NEW known, Staged(p, Authorized(job[p], known)),
             job[p].stage \in {"artifacts_durable", "authorization_accepted"}
      PROVE  ReceiptsInv'
  <2>1. Authorized(job[p], known).receipt = job[p].receipt
    BY <1>1 DEF Authorized, JobRecord
  <2> QED
    BY <1>2, <1>5, <2>1, StagedReceipts DEF ReceiptStaged
<1>6. CASE AuthorizeKnown(p) \/ ResumeAuthorization(p)
  BY <1>5, <1>6 DEF AuthorizeKnown, ResumeAuthorization, AtStage
<1>7. ASSUME NEW n \in Receipts, AuthorizeAccept(p, n) PROVE ReceiptsInv'
  <2> DEFINE j == AuthorizationAccepted(job[p], n)
  <2>1. job[p].stage = "artifacts_durable" /\ Staged(p, j)
    BY <1>7 DEF AuthorizeAccept, AtStage
  <2>2. j.receipt = job[p].receipt
    BY <1>1 DEF AuthorizationAccepted, JobRecord
  <2> HIDE DEF j
  <2> QED
    BY <1>2, <2>1, <2>2, StagedReceipts DEF ReceiptStaged
<1>8. ASSUME NEW n \in Receipts, Accept(p, n) PROVE ReceiptsInv'
  <2> DEFINE j == PublicationAccepted(job[p], n)
  <2>1. Staged(p, j)
    BY <1>8 DEF Accept
  <2>2. j.stage = "publication_accepted"
    BY <1>1 DEF PublicationAccepted, JobRecord
  <2> HIDE DEF j
  <2> QED
    BY <2>1, <2>2, StagedReceipts DEF ReceiptStaged
<1>9. CASE ResumePublication(p)
  <2> DEFINE j == [job[p] EXCEPT !.stage = "published",
                                 !.event = writes[job[p].receipt].item]
  <2>1. Staged(p, j)
    BY <1>9 DEF ResumePublication
  <2>2. j.stage = "published"
    BY <1>1 DEF JobRecord
  <2> HIDE DEF j
  <2> QED
    BY <2>1, <2>2, StagedReceipts DEF ReceiptStaged
<1> QED
  BY <1>3, <1>4, <1>6, <1>7, <1>8, <1>9 DEF StageStep

\* Every step of every process does.
LEMMA ReceiptsStep ==
  ASSUME Inv, ReceiptsInv, [Next]_vars
  PROVE  ReceiptsInv'
<1> USE DEF ReceiptsInv, ReceiptStaged
<1>1. CASE UNCHANGED <<journal, pc, job>>
  BY <1>1
<1>2. ASSUME NEW p \in Procs, ProcStep(p) PROVE ReceiptsInv'
  <2>1. CASE Open(p) \/ Crash(p) \/ (Finish(p) /\ UNCHANGED journal)
    BY <2>1 DEF Open, Crash, Finish, Inv, TypeOK
  <2>2. CASE AdmitAbsent(p) \/ \E q \in Requests : Receive(p, q)
    BY <2>2 DEF AdmitAbsent, Receive, Inv, TypeOK
  <2>3. CASE AdmitExisting(p) \/ Load(p)
    <3>1. pc[p] \in {"admit", "insert", "loop"}
      BY <2>3 DEF AdmitExisting, Load
    <3>2. req[p].rid \in Rids /\ (pc[p] = "loop" => journal[req[p].rid] # None)
      BY <3>1, Busy DEF Inv, MemoryInv
    <3>3. /\ journal[req[p].rid] # None
          /\ job' = [job EXCEPT ![p] = journal[req[p].rid]]
          /\ UNCHANGED journal /\ \A q \in Procs : q # p => pc'[q] = pc[q]
      BY <2>3, <3>2 DEF AdmitExisting, Load, Inv, TypeOK
    <3> QED
      BY <3>2, <3>3 DEF Inv, TypeOK
  <2>4. CASE Insert(p)
    <3>1. req[p].rid \in Rids /\ NewJob(req[p]).receipt = None
      BY <2>4, Busy DEF Insert, NewJob
    <3>2. /\ job' = [job EXCEPT ![p] = NewJob(req[p])]
          /\ journal' = [journal EXCEPT ![req[p].rid] = NewJob(req[p])]
          /\ \A q \in Procs : q # p => pc'[q] = pc[q]
      BY <2>4 DEF Insert, Inv, TypeOK
    <3> QED
      BY <3>1, <3>2 DEF Inv, TypeOK
  <2>5. CASE Save(p)
    <3>1. req[p].rid \in Rids
      BY <2>5, Busy DEF Save
    <3>2. /\ pc[p] = "save" /\ journal' = [journal EXCEPT ![req[p].rid] = job[p]]
          /\ \A q \in Procs : q # p => pc'[q] = pc[q] /\ job'[q] = job[q]
          /\ pc'[p] = "idle" \/ job'[p] = job[p]
      BY <2>5 DEF Save, Finish, Inv, TypeOK
    <3> QED
      BY <3>1, <3>2 DEF Inv, TypeOK
  <2>6. CASE StageStep(p)
    BY <2>6, StageReceipts
  <2> QED
    BY <1>2, <2>1, <2>2, <2>3, <2>4, <2>5, <2>6
    DEF ProcStep, ServeStep, AdmitConflict, Reply, Fail
<1>3. CASE \E n \in Receipts : NmpStep(n)
  BY <1>1, <1>3 DEF NmpStep, Sign, DeliverPutUser, DeliverSpoken, Refuse, procVars
<1>4. CASE \E a \in Authors : PublishState(a)
  BY <1>1, <1>4 DEF PublishState, procVars
<1> QED
  BY <1>1, <1>2, <1>3, <1>4 DEF Next, vars

\* A process that is inside an advance after a step of another was inside it before,
\* with the same record.
LEMMA AdvanceOrigin ==
  ASSUME Inv, [Next]_vars, NEW r \in Rids, NEW p \in Procs,
         p \in Advancing(r)', pc'[p] = "stage"
  PROVE  \/ p \in Advancing(r) /\ pc[p] = "stage" /\ job'[p] = job[p]
         \/ job'[p] = journal'[r]
<1> USE DEF Advancing
<1>1. CASE UNCHANGED <<pc, req, job>>
  BY <1>1
<1>2. ASSUME NEW q \in Procs, ProcStep(q), q # p
      PROVE  p \in Advancing(r) /\ pc[p] = "stage" /\ job'[p] = job[p]
  <2>1. pc'[p] = pc[p] /\ req'[p] = req[p] /\ job'[p] = job[p]
    BY <1>2 DEF ProcStep, Open, Receive, ServeStep, AdmitAbsent, AdmitExisting, AdmitConflict,
                Insert, Reply, Load, StageStep, Synthesize, MakeDurable,
                AuthorizeKnown, AuthorizeAccept, ResumeAuthorization, Accept,
                ResumePublication, Save, Fail, Crash, Finish, Staged, Inv, TypeOK
  <2> QED
    BY <2>1
<1>3. ASSUME ProcStep(p)
      PROVE  job'[p] = journal'[r]
  <2>1. Load(p)
    BY <1>3 DEF ProcStep, Open, Receive, ServeStep, AdmitAbsent, AdmitExisting, AdmitConflict,
                Insert, Reply, StageStep, Synthesize, MakeDurable,
                AuthorizeKnown, AuthorizeAccept, ResumeAuthorization, Accept,
                ResumePublication, Save, Fail, Crash, Finish, Staged, Inv, TypeOK
  <2>2. job'[p] = journal[req[p].rid] /\ UNCHANGED <<journal, req>>
    BY <2>1 DEF Load, Inv, TypeOK
  <2> QED
    BY <2>2
<1>4. CASE \E n \in Receipts : NmpStep(n)
  BY <1>1, <1>4 DEF NmpStep, Sign, DeliverPutUser, DeliverSpoken, Refuse, procVars
<1>5. CASE \E a \in Authors : PublishState(a)
  BY <1>1, <1>5 DEF PublishState, procVars
<1> QED
  BY <1>1, <1>2, <1>3, <1>4, <1>5 DEF Next, vars

\* The record of a request that has one advance under way changes by that advance only.
LEMMA RecordKept ==
  ASSUME Inv, [Next]_vars, NEW r \in Rids, NEW p \in Procs, p \in Advancing(r),
         pc[p] = "stage", \A q \in Advancing(r) : q = p
  PROVE  journal'[r] = journal[r]
<1>1. CASE UNCHANGED journal
  BY <1>1
<1>2. ASSUME NEW q \in Procs, Save(q) PROVE journal'[r] = journal[r]
  <2>1. pc[q] = "save" /\ journal' = [journal EXCEPT ![req[q].rid] = job[q]]
    BY <1>2 DEF Save
  <2>2. req[q].rid # r
    BY <2>1 DEF Advancing
  <2> QED
    BY <2>1, <2>2 DEF Inv, TypeOK
<1>3. ASSUME NEW q \in Procs, Insert(q) PROVE journal'[r] = journal[r]
  <2>1. /\ journal[req[q].rid] = None
        /\ journal' = [journal EXCEPT ![req[q].rid] = NewJob(req[q])]
    BY <1>3 DEF Insert, MayLink
  <2>2. journal[r] # None
    BY DEF Advancing, Inv, MemoryInv
  <2> QED
    BY <2>1, <2>2 DEF Inv, TypeOK
<1> QED
  BY <1>1, <1>2, <1>3
  DEF Next, vars, ProcStep, Open, Receive, ServeStep, AdmitAbsent, AdmitExisting, AdmitConflict,
      Reply, Load, StageStep, Synthesize, MakeDurable, AuthorizeKnown,
      AuthorizeAccept, ResumeAuthorization, Accept, ResumePublication, Fail, Crash, Staged,
      NmpStep, Sign, DeliverPutUser, DeliverSpoken, Refuse, PublishState

\* An advance that meets no other keeps acting on what the journal holds.
LEMMA CrossStep ==
  ASSUME Inv, CrossInv, [HistoryNext]_historyVars
  PROVE  CrossInv'
<1>1. [Next]_vars
  BY DEF HistoryNext, historyVars
<1>2. CASE UNCHANGED historyVars
  BY <1>2 DEF historyVars, vars, CrossInv, Advancing
<1>3. CASE HistoryNext
  <2> SUFFICES ASSUME NEW r \in Rids, r \notin crossed',
                      NEW p \in Advancing(r)', NEW q \in Advancing(r)'
               PROVE  p = q /\ (pc'[p] = "stage" => job'[p] = journal'[r])
    BY DEF CrossInv
  <2>1. r \notin crossed /\ p = q
    BY <1>3 DEF HistoryNext, Remember
  <2>2. ASSUME pc'[p] = "stage" PROVE job'[p] = journal'[r]
    <3>1. p \in Procs
      BY DEF Advancing
    <3>2. CASE p \in Advancing(r) /\ pc[p] = "stage" /\ job'[p] = job[p]
      <4>1. job[p] = journal[r] /\ \A x \in Advancing(r) : x = p
        BY <2>1, <3>2 DEF CrossInv
      <4>2. journal'[r] = journal[r]
        BY <1>1, <3>1, <3>2, <4>1, RecordKept
      <4> QED
        BY <3>2, <4>1, <4>2
    <3> QED
      BY <1>1, <2>2, <3>1, <3>2, AdvanceOrigin
  <2> QED
    BY <2>1, <2>2
<1> QED
  BY <1>2, <1>3

\* However many processes share the journal, an advance that meets no other acts on
\* the record the journal holds, and a record names its spoken write by its stage.
THEOREM Uncrossed == HistorySpec => [](Inv /\ ReceiptsInv /\ CrossInv)
<1>1. HistoryInit => Inv /\ ReceiptsInv /\ CrossInv
  <2>1. HistoryInit => ReceiptsInv /\ CrossInv
    BY DEF HistoryInit, Init, ReceiptsInv, CrossInv, Advancing
  <2> QED
    BY <2>1, InitInv DEF HistoryInit
<1>2. (Inv /\ ReceiptsInv /\ CrossInv) /\ [HistoryNext]_historyVars
        => (Inv /\ ReceiptsInv /\ CrossInv)'
  <2>1. [HistoryNext]_historyVars => [Next]_vars
    BY DEF HistoryNext, historyVars
  <2> QED
    BY <2>1, InvStep, ReceiptsStep, CrossStep
<1> QED
  BY <1>1, <1>2, PTL DEF HistorySpec

\* No process, of however many, submits a second spoken write for a request whose
\* receipt is journaled, whatever crashes and retries come after, unless two of them
\* are inside advance for that request at the same time (advance, resume).
THEOREM Resubmission == HistorySpec => NoResubmission
<1> DEFINE Keep == \A r \in Rids \ crossed : journal[r] # None /\ journal[r].receipt # None =>
                     \A n \in Receipts : SpokenFor(n, r)' => SpokenFor(n, r)
<1>1. ASSUME Inv, ReceiptsInv, CrossInv, [Next]_vars PROVE Keep
  <2> SUFFICES ASSUME NEW r \in Rids \ crossed, journal[r] # None, journal[r].receipt # None,
                      NEW n \in Receipts, SpokenFor(n, r)', ~SpokenFor(n, r)
               PROVE  FALSE
    OBVIOUS
  <2> USE <1>1 DEF SpokenFor
  <2>1. ASSUME NEW p \in Procs, NEW m \in Receipts, Accept(p, m) PROVE FALSE
    <3>1. /\ pc[p] = "stage" /\ job[p].stage = "author_authorized"
          /\ writes' = [writes EXCEPT ![m] =
               [kind |-> "spoken", rid |-> req[p].rid, author |-> job[p].item.author,
                item |-> job[p].item, status |-> "accepted"]]
      BY <2>1 DEF Accept, AtStage
    <3>2. n = m /\ writes'[m].rid = req[p].rid
      BY <3>1 DEF Spoken, Inv, TypeOK
    <3>3. p \in Advancing(r)
      BY <3>1, <3>2 DEF Advancing
    <3>4. job[p] = journal[r]
      BY <3>1, <3>3 DEF CrossInv
    <3> QED
      BY <3>1, <3>4 DEF ReceiptsInv, ReceiptStaged
  <2>2. CASE UNCHANGED writes
    BY <2>2 DEF Spoken
  <2>3. ASSUME NEW p \in Procs, NEW m \in Receipts, AuthorizeAccept(p, m) PROVE FALSE
    BY <2>2, <2>3 DEF AuthorizeAccept, Spoken, Inv, TypeOK
  <2>4. ASSUME NEW m \in Receipts, NmpStep(m) PROVE FALSE
    <3>1. writes[m] \in Write /\ \E s : writes' = [writes EXCEPT ![m].status = s]
      BY <2>4 DEF NmpStep, Sign, DeliverPutUser, DeliverSpoken, Refuse, Deliverable, Inv, TypeOK
    <3>2. PICK s : writes' = [writes EXCEPT ![m].status = s]
      BY <3>1
    <3>3. writes'[n] = IF n = m THEN [writes[m] EXCEPT !.status = s] ELSE writes[n]
      BY <3>2 DEF Inv, TypeOK
    <3>4. CASE n = m
      <4>1. writes'[n].kind = writes[m].kind /\ writes'[n].rid = writes[m].rid
        BY <3>1, <3>3, <3>4 DEF Write
      <4> QED
        BY <3>1, <3>4, <4>1, NoneAssumption DEF Spoken
    <3> QED
      BY <3>3, <3>4 DEF Spoken
  <2> QED
    BY <1>1, <2>1, <2>2, <2>3, <2>4
    DEF Next, vars, ProcStep, ServeStep, StageStep, Open, Receive, AdmitAbsent, AdmitExisting,
        AdmitConflict, Insert, Reply, Load, Synthesize, MakeDurable,
        AuthorizeKnown, ResumeAuthorization, ResumePublication, Save, Fail, Crash,
        PublishState, nmpVars
<1>2. (Inv /\ ReceiptsInv /\ CrossInv) /\ [HistoryNext]_historyVars => [Keep]_historyVars
  <2>1. [HistoryNext]_historyVars => [Next]_vars
    BY DEF HistoryNext, historyVars
  <2> QED
    BY <1>1, <2>1
<1> QED
  BY <1>2, Uncrossed, PTL DEF HistorySpec, NoResubmission
=============================================================================
