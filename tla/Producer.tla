------------------------------ MODULE Producer ------------------------------
(***************************************************************************)
(* The recovery pipeline of the tts29 producer daemon.                     *)
(*                                                                         *)
(* A daemon process serves one publish request at a time.  It admits the   *)
(* request in the job journal (create-if-absent, keyed by request id) and  *)
(* then advances the job one stage at a time:                              *)
(*                                                                         *)
(*   admitted -> synthesized -> artifacts_durable                          *)
(*     -> [authorization_accepted ->] author_authorized                    *)
(*     -> publication_accepted -> published                                *)
(*                                                                         *)
(* Every advance loads the record, performs one external effect and saves  *)
(* the record; load, effect and save are separate steps here, so that a    *)
(* crash, an error or another process sharing the directories may come in  *)
(* between.  The NMP engine (tracked writes and their receipts) and the    *)
(* NIP-29 host are external and modelled from how the daemon uses them.    *)
(*                                                                         *)
(* An event id is the hash of the frozen item, so an item stands for its   *)
(* own event id; the digest of an audio file stands for its bytes.         *)
(***************************************************************************)
EXTENDS Naturals, FiniteSets

CONSTANTS
  Procs,          \* daemon processes that share the journal and work roots
  Rids,           \* request ids
  Inputs,         \* the rest of a structured request (its digest)
  Authors,        \* public keys that sign spoken items, the daemon's included
  Callers,        \* authors in whose name requests are made
  Daemon,         \* the daemon's own key, administrator of the group
  Times,          \* values of the clock when a request is received
  Audio,          \* digests of the audio files a synthesizer may return
  MaxAdvances,    \* advances publish_as makes for one request: six in the code
  MaxReceipts,    \* bound: tracked writes NMP accepts in one behaviour
  HostMayRefuse,  \* the host may reject a write or leave it unresolved
  None

ASSUME AuthorsAssumption == Daemon \in Authors /\ Callers \subseteq Authors

ASSUME BoundsAssumption == MaxReceipts \in Nat /\ MaxAdvances \in Nat

ASSUME HostAssumption == HostMayRefuse \in BOOLEAN

Receipts == 1..MaxReceipts

Stages == {"admitted", "synthesized", "artifacts_durable",
           "authorization_accepted", "author_authorized",
           "publication_accepted", "published"}

\* How membership is known: from a put-user event of this daemon, or from the
\* group-state event of the host.
Evidence == {"put_user", "group_state"}

Items == [input : Inputs, author : Authors, created : Times, audio : Audio]

Requests == [rid : Rids, input : Inputs, author : Callers, created : Times]

JobRecord == [input    : Inputs,
              author   : Authors,
              created  : Times,
              stage    : Stages,
              audio    : Audio \cup {None},
              item     : Items \cup {None},
              mreceipt : Receipts \cup {None},
              evidence : Evidence \cup {None},
              receipt  : Receipts \cup {None},
              event    : Items \cup {None}]

\* A tracked NMP write: a put-user event for author, or the spoken item.
Write == [kind : {"put_user", "spoken"}, rid : Rids, author : Authors,
          item : Items \cup {None},
          status : {"accepted", "signed", "acked", "duplicate", "refused"}]

ASSUME NoneAssumption ==
  /\ None \notin Audio
  /\ None \notin Items
  /\ None \notin Receipts
  /\ None \notin Evidence
  /\ None \notin Requests
  /\ None \notin [input : Inputs, author : Authors, created : Times]
  /\ None \notin JobRecord
  /\ None \notin Write

VARIABLES
  journal,  \* journal root: request id -> job record
  file,     \* work root: request id -> digest of speech.mp3
  blobs,    \* digests the Blossom server stores
  writes,   \* NMP store: receipt id -> tracked write
  members,  \* authors the host lets publish
  view,     \* authors the host's group-state event already names
  host,     \* spoken events the host stores
  pc,       \* where each process is in publish_as
  req,      \* the request each process serves
  budget,   \* advances left to the request
  job,      \* the job record in memory
  cache,    \* authorized_members of the process's publisher
  replies   \* publications reported to callers, with what the caller asked

procVars == <<pc, req, budget, job>>
nmpVars == <<writes, members, view, host>>
vars == <<journal, file, blobs, writes, members, view, host,
          pc, req, budget, job, cache, replies>>

NoCache == [a \in Authors |-> None]

Init ==
  /\ journal = [r \in Rids |-> None]
  /\ file = [r \in Rids |-> None]
  /\ blobs = {}
  /\ writes = [n \in Receipts |-> None]
  /\ members = {Daemon}
  /\ view = {Daemon}
  /\ host = {}
  /\ pc = [p \in Procs |-> "down"]
  /\ req = [p \in Procs |-> None]
  /\ budget = [p \in Procs |-> 0]
  /\ job = [p \in Procs |-> None]
  /\ cache = [p \in Procs |-> NoCache]
  /\ replies = {}

-----------------------------------------------------------------------------
(* Helpers                                                                 *)

\* frozen_item: everything immutable in the job, and the durable audio.
FrozenItem(j, audio) ==
  [input |-> j.input, author |-> j.author, created |-> j.created,
   audio |-> audio]

\* Mutated SameRequest: the author is not compared.
MutSameDigest(j, q) == j.input = q.input

\* same_request: the request digest and the author must agree.
SameRequest(j, q) == j.input = q.input /\ j.author = q.author

NewJob(q) ==
  [input |-> q.input, author |-> q.author, created |-> q.created,
   stage |-> "admitted", audio |-> None, item |-> None, mreceipt |-> None,
   evidence |-> None, receipt |-> None, event |-> None]

\* The engine runs inside the daemon; a write is signed only while the
\* account of its signer is registered with a running engine.
Running(p) == pc[p] # "down"
Registered(a) ==
  \E p \in Procs : Running(p) /\ (a = Daemon \/ (req[p] # None /\ req[p].author = a))

\* hard_link creates the record of a request id only if there is none.
MayLink(r) == journal[r] = None

\* Mutated Linked: a file that is there is replaced.
MutReplaced(r, audio) == audio

\* The audio file after write_atomic: linked into place only if there is none.
Linked(r, audio) == IF file[r] = None THEN audio ELSE file[r]

\* make_durable hashes the file again: the bytes are those that were journaled.
SameBytes(r, audio) == file[r] = audio

\* current_membership: the host's group-state event names the author.
CurrentMember(a) == a \in view

\* Mutated HostAcked: a signed event counts as acknowledged.
MutSigned(n) == writes[n].status \in {"signed", "acked"}

\* await_host_ack: the receipt of a signed event the host acknowledged.
HostAcked(n) == writes[n].status = "acked"

\* Receipt ids are allocated in increasing order.
FreshReceipt(n) ==
  /\ writes[n] = None
  /\ \A m \in Receipts : m < n => writes[m] # None

\* Mutated Correlated: an earlier write is never found again.
MutUncorrelated(n, r, a) == FALSE

\* The put-user write that carries the correlation token of (rid, author).
Correlated(n, r, a) ==
  /\ writes[n] # None
  /\ writes[n].kind = "put_user"
  /\ writes[n].rid = r
  /\ writes[n].author = a

\* The process drops its request and waits for the next connection.
Finish(p) ==
  /\ pc' = [pc EXCEPT ![p] = "idle"]
  /\ req' = [req EXCEPT ![p] = None]
  /\ budget' = [budget EXCEPT ![p] = 0]
  /\ job' = [job EXCEPT ![p] = None]

\* A stage has done its work: the new record is in memory, about to be saved.
Staged(p, j) ==
  /\ job' = [job EXCEPT ![p] = j]
  /\ pc' = [pc EXCEPT ![p] = "save"]
  /\ UNCHANGED <<journal, req, budget, replies>>

\* Job records after each stage of authorization and publication.
Authorized(j, known) == [j EXCEPT !.stage = "author_authorized", !.evidence = known]

\* Mutated AuthorizationAccepted: an accepted write counts as a membership.
MutAssumeAuthorized(j, n) ==
  [j EXCEPT !.stage = "author_authorized", !.evidence = "put_user", !.mreceipt = n]

AuthorizationAccepted(j, n) ==
  [j EXCEPT !.stage = "authorization_accepted", !.mreceipt = n]

PublicationAccepted(j, n) ==
  [j EXCEPT !.stage = "publication_accepted", !.receipt = n]

AtStage(p, stage) == pc[p] = "stage" /\ job[p].stage = stage

-----------------------------------------------------------------------------
(* Admission                                                               *)

\* Mutated StageBudget: one advance too few.
MutBudgetShort == MaxAdvances - 1

StageBudget == MaxAdvances

Open(p) ==
  /\ pc[p] = "down"
  /\ pc' = [pc EXCEPT ![p] = "idle"]
  /\ UNCHANGED <<journal, file, blobs, nmpVars, req, budget, job, cache, replies>>

Receive(p, q) ==
  /\ pc[p] = "idle"
  /\ pc' = [pc EXCEPT ![p] = "admit"]
  /\ req' = [req EXCEPT ![p] = q]
  /\ budget' = [budget EXCEPT ![p] = StageBudget]
  /\ UNCHANGED <<journal, file, blobs, nmpVars, job, cache, replies>>

\* The first journal load of admit found no record.
AdmitAbsent(p) ==
  /\ pc[p] = "admit"
  /\ journal[req[p].rid] = None
  /\ pc' = [pc EXCEPT ![p] = "insert"]
  /\ UNCHANGED <<journal, file, blobs, nmpVars, req, budget, job, cache, replies>>

\* same_request on a record that exists, on the first load or after losing the
\* hard-link race: the job is taken up, or the request fails closed.
AdmitExisting(p) ==
  /\ pc[p] \in {"admit", "insert"}
  /\ journal[req[p].rid] # None
  /\ SameRequest(journal[req[p].rid], req[p])
  /\ job' = [job EXCEPT ![p] = journal[req[p].rid]]
  /\ pc' = [pc EXCEPT ![p] = "loop"]
  /\ UNCHANGED <<journal, file, blobs, nmpVars, req, budget, cache, replies>>

AdmitConflict(p) ==
  /\ pc[p] \in {"admit", "insert"}
  /\ journal[req[p].rid] # None
  /\ ~SameRequest(journal[req[p].rid], req[p])
  /\ Finish(p)
  /\ UNCHANGED <<journal, file, blobs, nmpVars, cache, replies>>

\* Journal insert: hard_link creates the record only if it is absent.
Insert(p) ==
  /\ pc[p] = "insert"
  /\ MayLink(req[p].rid)
  /\ journal' = [journal EXCEPT ![req[p].rid] = NewJob(req[p])]
  /\ job' = [job EXCEPT ![p] = NewJob(req[p])]
  /\ pc' = [pc EXCEPT ![p] = "loop"]
  /\ UNCHANGED <<file, blobs, nmpVars, req, budget, cache, replies>>

-----------------------------------------------------------------------------
(* The loop of publish_as                                                  *)

Reply(p) ==
  /\ pc[p] = "loop"
  /\ job[p].stage = "published"
  /\ replies' = replies \cup
       {[rid |-> req[p].rid, input |-> req[p].input, author |-> req[p].author,
         event |-> job[p].event]}
  /\ Finish(p)
  /\ UNCHANGED <<journal, file, blobs, nmpVars, cache>>

\* publish_as makes no further advance once the stage budget is spent: what is
\* left to a request that is not published is to Fail.
BudgetLeft(p) == budget[p] > 0

\* Mutated Load: advance goes on with the record it has in memory.
MutKeptRecord(p) ==
  /\ pc[p] = "loop"
  /\ job[p].stage # "published"
  /\ BudgetLeft(p)
  /\ budget' = [budget EXCEPT ![p] = @ - 1]
  /\ pc' = [pc EXCEPT ![p] = "stage"]
  /\ UNCHANGED <<journal, file, blobs, nmpVars, req, job, cache, replies>>

\* advance reloads the record; a published one is returned as it is.
Load(p) ==
  /\ pc[p] = "loop"
  /\ job[p].stage # "published"
  /\ BudgetLeft(p)
  /\ budget' = [budget EXCEPT ![p] = @ - 1]
  /\ job' = [job EXCEPT ![p] = journal[req[p].rid]]
  /\ pc' = [pc EXCEPT ![p] =
              IF journal[req[p].rid].stage = "published" THEN "loop" ELSE "stage"]
  /\ UNCHANGED <<journal, file, blobs, nmpVars, req, cache, replies>>

-----------------------------------------------------------------------------
(* The stages                                                              *)

\* The synthesizer may return other bytes each time it is asked; the file is
\* linked into place only if there is none, and read back.
Synthesize(p, audio) ==
  /\ AtStage(p, "admitted")
  /\ LET r == req[p].rid
         written == Linked(r, audio)
     IN /\ file' = [file EXCEPT ![r] = written]
        /\ Staged(p, [job[p] EXCEPT !.stage = "synthesized", !.audio = written])
  /\ UNCHANGED <<blobs, nmpVars, cache>>

\* Mutated MakeDurable: the audio is cleared before the item is frozen.
MutClearedFirst(p) ==
  /\ AtStage(p, "synthesized")
  /\ SameBytes(req[p].rid, job[p].audio)
  /\ blobs' = blobs \cup {job[p].audio}
  /\ Staged(p, [job[p] EXCEPT !.stage = "artifacts_durable",
                              !.audio = None,
                              !.item = FrozenItem(job[p], None)])
  /\ UNCHANGED <<file, nmpVars, cache>>

\* make_durable uploads the audio, then the item is frozen.
MakeDurable(p) ==
  /\ AtStage(p, "synthesized")
  /\ SameBytes(req[p].rid, job[p].audio)
  /\ blobs' = blobs \cup {job[p].audio}
  /\ Staged(p, [job[p] EXCEPT !.stage = "artifacts_durable",
                              !.audio = None,
                              !.item = FrozenItem(job[p], job[p].audio)])
  /\ UNCHANGED <<file, nmpVars, cache>>

\* authorize, known member: by the session cache, else by the host's state.
AuthorizeKnown(p) ==
  /\ AtStage(p, "artifacts_durable")
  /\ LET a == job[p].author
         known == IF cache[p][a] # None THEN cache[p][a] ELSE "group_state"
     IN /\ cache[p][a] # None \/ CurrentMember(a)
        /\ cache' = [cache EXCEPT ![p][a] = known]
        /\ Staged(p, Authorized(job[p], known))
  /\ UNCHANGED <<file, blobs, nmpVars>>

\* authorize, member unknown: a tracked put-user write, which NMP identifies by
\* its correlation token when it was accepted before.
AuthorizeAccept(p, n) ==
  /\ AtStage(p, "artifacts_durable")
  /\ cache[p][job[p].author] = None
  /\ ~CurrentMember(job[p].author)
  /\ LET r == req[p].rid
         a == job[p].author
     IN \/ /\ Correlated(n, r, a)
           /\ UNCHANGED writes
        \/ /\ \A m \in Receipts : ~Correlated(m, r, a)
           /\ FreshReceipt(n)
           /\ writes' = [writes EXCEPT ![n] =
                [kind |-> "put_user", rid |-> r, author |-> a, item |-> None,
                 status |-> "accepted"]]
  /\ Staged(p, AuthorizationAccepted(job[p], n))
  /\ UNCHANGED <<file, blobs, members, view, host, cache>>

\* resume_authorization: the acknowledged write, or a duplicate refusal that
\* the session cache explains.
ResumeAuthorization(p) ==
  /\ AtStage(p, "authorization_accepted")
  /\ LET a == job[p].author
         n == job[p].mreceipt
         known == IF HostAcked(n) THEN "put_user" ELSE cache[p][a]
     IN /\ \/ HostAcked(n)
           \/ writes[n].status = "duplicate" /\ cache[p][a] # None
        /\ cache' = [cache EXCEPT ![p][a] = known]
        /\ Staged(p, Authorized(job[p], known))
  /\ UNCHANGED <<file, blobs, nmpVars>>

\* accept: the frozen item becomes a tracked write, with a receipt of its own.
Accept(p, n) ==
  /\ AtStage(p, "author_authorized")
  /\ FreshReceipt(n)
  /\ writes' = [writes EXCEPT ![n] =
       [kind |-> "spoken", rid |-> req[p].rid, author |-> job[p].item.author,
        item |-> job[p].item, status |-> "accepted"]]
  /\ Staged(p, PublicationAccepted(job[p], n))
  /\ UNCHANGED <<file, blobs, members, view, host, cache>>

\* resume: the event id comes from the receipt, not from the item.
ResumePublication(p) ==
  /\ AtStage(p, "publication_accepted")
  /\ HostAcked(job[p].receipt)
  /\ Staged(p, [job[p] EXCEPT !.stage = "published",
                              !.event = writes[job[p].receipt].item])
  /\ UNCHANGED <<file, blobs, nmpVars, cache>>

\* Journal save: the rename replaces whatever is there.  When the directory
\* sync that follows it fails, the record is in place and the request fails.
Save(p) ==
  /\ pc[p] = "save"
  /\ journal' = [journal EXCEPT ![req[p].rid] = job[p]]
  /\ \/ pc' = [pc EXCEPT ![p] = "loop"] /\ UNCHANGED <<req, budget, job>>
     \/ Finish(p)
  /\ UNCHANGED <<file, blobs, nmpVars, cache, replies>>

-----------------------------------------------------------------------------
(* Failure                                                                 *)

\* A capability or journal error, or a spent stage budget, ends the request; the
\* journal is unchanged.
Fail(p) ==
  /\ pc[p] \in {"admit", "insert", "loop", "stage", "save"}
  /\ Finish(p)
  /\ UNCHANGED <<journal, file, blobs, nmpVars, cache, replies>>

\* The process dies at any point and loses all it had in memory.
Crash(p) ==
  /\ Running(p)
  /\ pc' = [pc EXCEPT ![p] = "down"]
  /\ req' = [req EXCEPT ![p] = None]
  /\ budget' = [budget EXCEPT ![p] = 0]
  /\ job' = [job EXCEPT ![p] = None]
  /\ cache' = [cache EXCEPT ![p] = NoCache]
  /\ UNCHANGED <<journal, file, blobs, nmpVars, replies>>

-----------------------------------------------------------------------------
(* NMP and the host (external)                                             *)

Signer(w) == IF w.kind = "put_user" THEN Daemon ELSE w.author

Sign(n) ==
  /\ writes[n] # None
  /\ writes[n].status = "accepted"
  /\ Registered(Signer(writes[n]))
  /\ writes' = [writes EXCEPT ![n].status = "signed"]
  /\ UNCHANGED <<journal, file, blobs, members, view, host, procVars, cache, replies>>

Deliverable(n) ==
  /\ writes[n] # None
  /\ writes[n].status = "signed"
  /\ \E p \in Procs : Running(p)

\* The host takes a put-user event, or answers that the author is a member.
DeliverPutUser(n) ==
  /\ Deliverable(n)
  /\ writes[n].kind = "put_user"
  /\ members' = members \cup {writes[n].author}
  /\ \E status \in {"acked", "duplicate"} :
       /\ status = "duplicate" => writes[n].author \in members
       /\ writes' = [writes EXCEPT ![n].status = status]
  /\ UNCHANGED <<journal, file, blobs, view, host, procVars, cache, replies>>

\* The host stores a member's spoken event; storing it twice is no change.
DeliverSpoken(n) ==
  /\ Deliverable(n)
  /\ writes[n].kind = "spoken"
  /\ writes[n].author \in members
  /\ host' = host \cup {writes[n].item}
  /\ writes' = [writes EXCEPT ![n].status = "acked"]
  /\ UNCHANGED <<journal, file, blobs, members, view, procVars, cache, replies>>

\* Rejected, GaveUp, OutcomeUnknown, Failed: the host may have taken the event.
Refuse(n) ==
  /\ HostMayRefuse
  /\ Deliverable(n)
  /\ writes' = [writes EXCEPT ![n].status = "refused"]
  /\ \/ UNCHANGED <<members, host>>
     \/ /\ writes[n].kind = "put_user"
        /\ members' = members \cup {writes[n].author}
        /\ UNCHANGED host
     \/ /\ writes[n].kind = "spoken"
        /\ writes[n].author \in members
        /\ host' = host \cup {writes[n].item}
        /\ UNCHANGED members
  /\ UNCHANGED <<journal, file, blobs, view, procVars, cache, replies>>

\* The host's group-state event catches up with its members.
PublishState(a) ==
  /\ a \in members \ view
  /\ view' = view \cup {a}
  /\ UNCHANGED <<journal, file, blobs, writes, members, host, procVars, cache, replies>>

-----------------------------------------------------------------------------
StageStep(p) ==
  \/ \E audio \in Audio : Synthesize(p, audio)
  \/ MakeDurable(p)
  \/ AuthorizeKnown(p)
  \/ \E n \in Receipts : AuthorizeAccept(p, n)
  \/ ResumeAuthorization(p)
  \/ \E n \in Receipts : Accept(p, n)
  \/ ResumePublication(p)

\* One step of the request being served: every capability has a deadline, so
\* a request that makes no progress fails.
ServeStep(p) ==
  \/ AdmitAbsent(p)
  \/ AdmitExisting(p)
  \/ AdmitConflict(p)
  \/ Insert(p)
  \/ Reply(p)
  \/ Load(p)
  \/ StageStep(p)
  \/ Save(p)
  \/ Fail(p)

ProcStep(p) ==
  \/ Open(p)
  \/ \E q \in Requests : Receive(p, q)
  \/ ServeStep(p)
  \/ Crash(p)

NmpStep(n) == Sign(n) \/ DeliverPutUser(n) \/ DeliverSpoken(n) \/ Refuse(n)

Next ==
  \/ \E p \in Procs : ProcStep(p)
  \/ \E n \in Receipts : NmpStep(n)
  \/ \E a \in Authors : PublishState(a)

Spec == Init /\ [][Next]_vars

-----------------------------------------------------------------------------
(* Fairness                                                                *)

\* The caller repeats the request the journal admitted, the supervisor starts
\* the daemon again, and neither errors nor crashes hit every attempt at a
\* step for ever.  Nothing makes a caller send its first request.
RetryJob(p, r) ==
  /\ journal[r] # None
  /\ \E q \in Requests :
       /\ q.rid = r
       /\ SameRequest(journal[r], q)
       /\ Receive(p, q)

Fairness ==
  /\ \A p \in Procs :
       /\ WF_vars(Open(p))
       /\ WF_vars(ServeStep(p))
       /\ \A r \in Rids :
            /\ SF_vars(AdmitExisting(p) /\ req[p].rid = r)
            /\ SF_vars(Load(p) /\ req[p].rid = r)
            /\ SF_vars(RetryJob(p, r))
            /\ SF_vars(StageStep(p) /\ req[p].rid = r)
            /\ SF_vars(Save(p) /\ req[p].rid = r)
  /\ SF_vars(\E n \in Receipts : Sign(n))
  /\ SF_vars(\E n \in Receipts : DeliverPutUser(n) \/ DeliverSpoken(n))
  /\ WF_vars(\E a \in Authors : PublishState(a))

FairSpec == Spec /\ Fairness

-----------------------------------------------------------------------------
(* Properties                                                              *)

\* Type correctness of the journal, the work files, the NMP store, the host
\* and the memory of every process.
TypeOK ==
  /\ journal \in [Rids -> JobRecord \cup {None}]
  /\ file \in [Rids -> Audio \cup {None}]
  /\ blobs \in SUBSET Audio
  /\ writes \in [Receipts -> Write \cup {None}]
  /\ members \in SUBSET Authors
  /\ view \in SUBSET Authors
  /\ host \in SUBSET Items
  /\ pc \in [Procs -> {"down", "idle", "admit", "insert", "loop", "stage", "save"}]
  /\ req \in [Procs -> Requests \cup {None}]
  /\ budget \in [Procs -> 0..MaxAdvances]
  /\ job \in [Procs -> JobRecord \cup {None}]
  /\ cache \in [Procs -> [Authors -> Evidence \cup {None}]]
  /\ replies \in SUBSET [rid : Rids, input : Inputs, author : Authors, event : Items]

Spoken(n) == writes[n] # None /\ writes[n].kind = "spoken"

\* However often a request is retried, at whatever time, after whatever crash,
\* with a synthesizer that returns other bytes, and by however many processes:
\* all the spoken writes ever submitted for one request id carry the same item,
\* hence the same event id (admit, synthesize, frozen_item, accept).
OneItemPerRequest ==
  \A m, n \in Receipts :
    Spoken(m) /\ Spoken(n) /\ writes[m].rid = writes[n].rid
      => writes[m].item = writes[n].item

\* A job is journaled as published only when the receipt it names is the
\* acknowledged write of its own frozen item and the host stores that event:
\* resume takes the event id from the receipt and ignores the item.
PublishedIsAcknowledged ==
  \A r \in Rids :
    journal[r] # None /\ journal[r].stage = "published" =>
      /\ journal[r].event = journal[r].item
      /\ writes[journal[r].receipt].status = "acked"
      /\ writes[journal[r].receipt].rid = r
      /\ journal[r].item \in host

\* No spoken item is submitted to NMP before its author may publish in the
\* group and its audio is on the Blossom server, byte for byte the file of its
\* request.
PreparedBeforeSubmission ==
  \A n \in Receipts :
    Spoken(n) =>
      /\ writes[n].author \in members
      /\ writes[n].item.audio \in blobs
      /\ writes[n].item.audio = file[writes[n].rid]

\* Whoever gets a publication back gets the one that says what he asked for,
\* in the name he asked it in, stored by the host; and every caller of a
\* request id gets the same event (same_request fails closed otherwise).
RepliesAgree ==
  \A x \in replies :
    /\ x.event \in host
    /\ x.event.input = x.input
    /\ x.event.author = x.author
    /\ \A y \in replies : x.rid = y.rid => x.event = y.event

\* A record, once admitted, is never removed and its input, author and time
\* never change, whoever saves it.
AdmissionFrozen ==
  [][\A r \in Rids : journal[r] # None =>
       /\ journal'[r] # None
       /\ journal'[r].input = journal[r].input
       /\ journal'[r].author = journal[r].author
       /\ journal'[r].created = journal[r].created]_vars

\* What docs/daemon-recovery.md says of every recovery: once the receipt of the
\* spoken write is journaled the receipt is reattached, and no further spoken
\* write is submitted for that request id.
ReattachesOnly ==
  [][\A r \in Rids : journal[r] # None /\ journal[r].receipt # None =>
       \A n \in Receipts :
         Spoken(n)' /\ writes'[n].rid = r => Spoken(n)]_vars

\* One process never runs out of its six advances: an undisturbed request gets
\* from admission to publication, through both receipts, within one call.
BudgetSuffices ==
  \A p \in Procs : pc[p] = "loop" /\ budget[p] = 0 => job[p].stage = "published"

\* NMP has no receipt left: the bound of the model, not of the program.
BoundReached == \A n \in Receipts : writes[n] # None

\* The host rejected a write of the request or left it unresolved for good.
RefusedFor(r) ==
  \E n \in Receipts :
    writes[n] # None /\ writes[n].rid = r /\ writes[n].status = "refused"

\* An admitted job that is retried is published in the end, whatever crashes and
\* transient errors came before, unless a write it depends on ends without an
\* acknowledgement: then the journaled receipt is reattached for ever and the job
\* stays where it is (await_host_ack).  A request that a capability refuses for
\* good, and the dead end of a duplicate membership, are not transient errors.
EventuallyPublished ==
  \A r \in Rids :
    (journal[r] # None) ~>
      \/ BoundReached
      \/ RefusedFor(r)
      \/ journal[r] # None /\ journal[r].stage = "published"

-----------------------------------------------------------------------------
(* The inductive invariant                                                 *)

SpokenFor(n, r) == Spoken(n) /\ writes[n].rid = r

FrozenStages == {"artifacts_durable", "authorization_accepted", "author_authorized",
                 "publication_accepted", "published"}

\* What the stage of a record j of request r vouches for, when f is the audio
\* file of the request, b the blobs, m the members and w the writes of NMP.
JobFacts(j, r, f, b, m, w) ==
  /\ j.stage = "synthesized" => j.audio # None /\ j.audio = f
  /\ j.stage \in FrozenStages => f \in b /\ j.item = FrozenItem(j, f)
  /\ j.stage = "authorization_accepted" =>
       /\ j.mreceipt \in Receipts
       /\ w[j.mreceipt] # None
       /\ w[j.mreceipt].author = j.author
  /\ j.stage \in {"author_authorized", "publication_accepted", "published"} =>
       j.author \in m
  /\ j.stage \in {"publication_accepted", "published"} =>
       /\ j.receipt \in Receipts
       /\ w[j.receipt] # None
       /\ w[j.receipt].kind = "spoken"
       /\ w[j.receipt].rid = r
  /\ j.stage = "published" => w[j.receipt].status = "acked" /\ j.event = j.item

JobOK(j, r) == JobFacts(j, r, file[r], blobs, members, writes)

SameAdmission(j, k) ==
  j.input = k.input /\ j.author = k.author /\ j.created = k.created

JournalInv == \A r \in Rids : journal[r] # None => JobOK(journal[r], r)

MemoryInv ==
  \A p \in Procs :
    /\ pc[p] \in {"admit", "insert", "loop", "stage", "save"} => req[p] # None
    /\ pc[p] \in {"loop", "stage", "save"} =>
         /\ job[p] # None
         /\ journal[req[p].rid] # None
         /\ SameAdmission(job[p], journal[req[p].rid])
         /\ SameRequest(job[p], req[p])
         /\ JobOK(job[p], req[p].rid)

\* What is known of a write x, when j is the journal record and f the audio
\* file of its request, b the blobs, m the members and h the host's events.
WriteFacts(x, j, f, b, m, h) ==
  /\ x.kind = "spoken" =>
       /\ j # None
       /\ f \in b
       /\ x.item = FrozenItem(j, f)
       /\ x.author = j.author
       /\ x.author \in m
       /\ x.status = "acked" => x.item \in h
  /\ x.status \in {"acked", "duplicate"} => x.author \in m

WritesInv ==
  \A n \in Receipts :
    writes[n] # None =>
      WriteFacts(writes[n], journal[writes[n].rid], file[writes[n].rid],
                 blobs, members, host)

MembersInv ==
  /\ view \subseteq members
  /\ \A p \in Procs, a \in Authors : cache[p][a] # None => a \in members

RepliesInv ==
  \A x \in replies :
    /\ journal[x.rid] # None
    /\ file[x.rid] # None
    /\ SameRequest(journal[x.rid], x)
    /\ x.event = FrozenItem(journal[x.rid], file[x.rid])
    /\ x.event \in host

\* Everything a record, a write, a cache entry or a reply claims is true of the
\* files, the Blossom server and the host, for every process at every step.
\* It implies the safety properties above and is what their proofs rest on.
Inv ==
  /\ TypeOK
  /\ JournalInv
  /\ MemoryInv
  /\ WritesInv
  /\ MembersInv
  /\ RepliesInv

-----------------------------------------------------------------------------
(* Refinement                                                              *)

admittedBar ==
  [r \in Rids |-> IF journal[r] = None THEN None
                  ELSE [input |-> journal[r].input, author |-> journal[r].author,
                        created |-> journal[r].created]]

\* A request is committed to an item once a spoken write was submitted for it.
committedBar ==
  [r \in Rids |-> IF \E n \in Receipts : SpokenFor(n, r)
                  THEN FrozenItem(journal[r], file[r]) ELSE None]

Service == INSTANCE SpokenItemService
             WITH admitted <- admittedBar, committed <- committedBar

\* The pipeline implements the abstract service: processes, crashes, retries and
\* receipts never bind a request id twice, publish anything but the committed
\* item, or tell a caller of an item he did not ask for.
ImplementsService == Service!Spec
=============================================================================
