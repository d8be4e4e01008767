----------------------------- MODULE DaemonStart -----------------------------
(***************************************************************************)
(* The start of the producer daemon, up to the point where it serves.      *)
(*                                                                         *)
(*   identity:  load -> [generate -> write -> sync | reload]               *)
(*   bootstrap: observe -> [create_group -> await_create]                  *)
(*                      -> [promote -> await_promote] -> up                *)
(*                                                                         *)
(* Several daemons, each with an NMP store of its own, may start on one    *)
(* identity path and one group.  Each may end at any step: killed, stopped,*)
(* or because the step failed or timed out; its store survives.  A key     *)
(* stands for its public key.  The host shows its group through two events *)
(* (metadata and administrators) that it publishes some time after the     *)
(* group has changed.                                                      *)
(***************************************************************************)
EXTENDS Naturals, FiniteSets

CONSTANTS
  Procs,      \* daemons: a configuration and at most one process running on it
  Fresh,      \* keys the random generator may draw
  Owner,      \* public key of the configured owner
  Foreign,    \* an administrator unrelated to any daemon
  Overrides,  \* values of TTS29_DAEMON_NSEC each may find, None if unset
  None

Keys == Fresh \cup {Owner} \cup ((UNION {Overrides[p] : p \in Procs}) \ {None})

\* Correlation tokens: the creation is bound to the daemon, the promotion only
\* to the owner (host and group are those of the configuration).
CreateToken(k) == <<"create", k>>
PromoteToken == <<"owner-admin", Owner>>
Tokens == {CreateToken(k) : k \in Keys} \cup {PromoteToken}

Write == [author : Keys, status : {"accepted", "acked", "refused"}]

Admins == Keys \cup {Foreign}

Steps == {"load", "generate", "write", "sync", "reload", "observe",
          "create_group", "await_create", "promote", "await_promote", "up"}

ASSUME StartAssumption ==
  /\ None \notin Fresh
  /\ None \notin Write
  /\ Owner \notin Fresh
  /\ Foreign \notin Keys
  /\ {"absent", "torn"} \cap Keys = {}

VARIABLES
  keyFile,  \* the identity file: absent, torn (created, not written), or a key
  pc,       \* where each process is, "down" when it does not run
  id,       \* the key each process has registered with its engine
  toOwner,  \* whether the plan of a process includes the owner's promotion
  writes,   \* the NMP store of each: token -> tracked write
  group,    \* the group at the host
  shown     \* what its published state events tell about it

vars == <<keyFile, pc, id, toOwner, writes, group, shown>>
hostVars == <<writes, group, shown>>

NoGroup == [exists |-> FALSE, admins |-> {}]

\* The group is absent, or exists under other administrators; the owner may
\* have given the daemon their own key.
Init ==
  /\ keyFile \in {"absent", Owner}
  /\ pc = [p \in Procs |-> "down"]
  /\ id = [p \in Procs |-> None]
  /\ toOwner = [p \in Procs |-> FALSE]
  /\ writes = [p \in Procs |-> [t \in Tokens |-> None]]
  /\ group \in {NoGroup} \cup [exists : {TRUE}, admins : {{Foreign}, {Owner}}]
  /\ shown = [meta |-> group.exists, admins |-> group.admins]

Running(p) == pc[p] # "down"

Goto(p, step) == pc' = [pc EXCEPT ![p] = step]

\* The process ends without having started, or is started again later.
Ends(p) ==
  /\ pc' = [pc EXCEPT ![p] = "down"]
  /\ id' = [id EXCEPT ![p] = None]
  /\ toOwner' = [toOwner EXCEPT ![p] = FALSE]

Registers(p, key) == id' = [id EXCEPT ![p] = key]

-----------------------------------------------------------------------------
(* install_daemon_identity                                                 *)

\* A valid configuration was read; an override replaces the identity file.
Start(p, override) ==
  /\ pc[p] = "down"
  /\ Goto(p, IF override = None THEN "load" ELSE "observe")
  /\ Registers(p, override)
  /\ UNCHANGED <<keyFile, toOwner, hostVars>>

\* load_identity: an empty or cut file is an error.
Load(p) ==
  /\ pc[p] = "load"
  /\ \/ /\ keyFile = "absent"
        /\ Goto(p, "generate")
        /\ UNCHANGED <<id, toOwner>>
     \/ /\ keyFile = "torn"
        /\ Ends(p)
     \/ /\ keyFile \in Keys
        /\ Goto(p, "observe")
        /\ Registers(p, keyFile)
        /\ UNCHANGED toOwner
  /\ UNCHANGED <<keyFile, hostVars>>

\* 32 random bytes: a key that nobody has used.
Unused(k) ==
  /\ k # keyFile
  /\ k \notin {id[p] : p \in Procs}
  /\ k \notin group.admins
  /\ \A p \in Procs, t \in Tokens : writes[p][t] # None => writes[p][t].author # k

\* Mutated Generate: the file is opened and truncated.
MutTruncate(p, k) ==
  /\ pc[p] = "generate"
  /\ keyFile' = "torn"
  /\ Registers(p, k)
  /\ Goto(p, "write")
  /\ UNCHANGED <<toOwner, hostVars>>

\* generate_and_install registers the key, and persist_new opens the file with
\* create_new; a process that finds it there removes the key again and loads
\* the file once more.
Generate(p, k) ==
  /\ pc[p] = "generate"
  /\ \/ /\ keyFile = "absent"
        /\ Unused(k)
        /\ keyFile' = "torn"
        /\ Registers(p, k)
        /\ Goto(p, "write")
     \/ /\ keyFile # "absent"
        /\ Goto(p, "reload")
        /\ UNCHANGED <<keyFile, id>>
  /\ UNCHANGED <<toOwner, hostVars>>

WriteKey(p) ==
  /\ pc[p] = "write"
  /\ keyFile' = id[p]
  /\ Goto(p, "sync")
  /\ UNCHANGED <<id, toOwner, hostVars>>

SyncKey(p) ==
  /\ pc[p] = "sync"
  /\ Goto(p, "observe")
  /\ UNCHANGED <<keyFile, id, toOwner, hostVars>>

\* A failed write or sync removes the file, if that can be done.
PersistFails(p) ==
  /\ pc[p] \in {"write", "sync"}
  /\ keyFile' \in {"absent", keyFile}
  /\ Ends(p)
  /\ UNCHANGED hostVars

Reload(p) ==
  /\ pc[p] = "reload"
  /\ \/ /\ keyFile \in Keys
        /\ Goto(p, "observe")
        /\ Registers(p, keyFile)
        /\ UNCHANGED toOwner
     \/ /\ keyFile \notin Keys
        /\ Ends(p)
  /\ UNCHANGED <<keyFile, hostVars>>

-----------------------------------------------------------------------------
(* bootstrap_group                                                         *)

\* GroupState, from the host's current metadata and administrator events.
Exists == shown.meta \/ shown.admins # {}
IsAdmin(k) == k \in shown.admins

\* Mutated FirstStep: a group of another administrator is taken over.
MutSeize(k) ==
  IF ~Exists THEN "create_group"
  ELSE IF IsAdmin(Owner) THEN "up" ELSE "promote"

\* BootstrapPlan::for_state: where the bootstrap of a daemon with key k begins
\* ("refused" when the group exists and the daemon does not administer it).
FirstStep(k) ==
  IF ~Exists THEN "create_group"
  ELSE IF ~IsAdmin(k) THEN "refused"
  ELSE IF IsAdmin(Owner) THEN "up" ELSE "promote"

Promotes(k) == IF Exists THEN ~IsAdmin(Owner) ELSE k # Owner

\* observe_state has read a reconciled view of the host.
Observe(p) ==
  /\ pc[p] = "observe"
  /\ \/ /\ FirstStep(id[p]) = "refused"
        /\ Ends(p)
     \/ /\ FirstStep(id[p]) # "refused"
        /\ Goto(p, FirstStep(id[p]))
        /\ toOwner' = [toOwner EXCEPT ![p] = Promotes(id[p])]
        /\ UNCHANGED id
  /\ UNCHANGED <<keyFile, hostVars>>

\* publish_tracked: a write known under the token is reattached.
Submit(p, t) ==
  writes' = IF writes[p][t] # None THEN writes
            ELSE [writes EXCEPT ![p][t] = [author |-> id[p], status |-> "accepted"]]

CreateGroup(p) ==
  /\ pc[p] = "create_group"
  /\ Submit(p, CreateToken(id[p]))
  /\ Goto(p, "await_create")
  /\ UNCHANGED <<keyFile, id, toOwner, group, shown>>

Pending(p, t, status) == writes[p][t] # None /\ writes[p][t].status = status

\* await_host_ack: the receipt's history holds the acknowledgement of the host.
HostAcked(p, t) == Pending(p, t, "acked")

\* Mutated AwaitCreate: the acknowledgement is not awaited.
MutNoAwait(p) ==
  /\ pc[p] = "await_create"
  /\ Goto(p, IF toOwner[p] THEN "promote" ELSE "up")
  /\ UNCHANGED <<keyFile, id, toOwner, hostVars>>

\* Mutated AwaitCreate: only the acknowledgement ends the wait.
MutWaitOn(p) ==
  /\ pc[p] = "await_create"
  /\ HostAcked(p, CreateToken(id[p]))
  /\ Goto(p, IF toOwner[p] THEN "promote" ELSE "up")
  /\ UNCHANGED <<keyFile, id, toOwner, hostVars>>

AwaitCreate(p) ==
  /\ pc[p] = "await_create"
  /\ \/ /\ HostAcked(p, CreateToken(id[p]))
        /\ Goto(p, IF toOwner[p] THEN "promote" ELSE "up")
        /\ UNCHANGED <<id, toOwner>>
     \/ /\ Pending(p, CreateToken(id[p]), "refused")
        /\ Ends(p)
  /\ UNCHANGED <<keyFile, hostVars>>

Promote(p) ==
  /\ pc[p] = "promote"
  /\ Submit(p, PromoteToken)
  /\ Goto(p, "await_promote")
  /\ UNCHANGED <<keyFile, id, toOwner, group, shown>>

AwaitPromote(p) ==
  /\ pc[p] = "await_promote"
  /\ \/ /\ HostAcked(p, PromoteToken)
        /\ Goto(p, "up")
        /\ UNCHANGED <<id, toOwner>>
     \/ /\ Pending(p, PromoteToken, "refused")
        /\ Ends(p)
  /\ UNCHANGED <<keyFile, hostVars>>

\* The process is killed or shut down, or its step fails: the observation was
\* refused or never reconciled, or a receipt did not end in time.
End(p) ==
  /\ Running(p)
  /\ Ends(p)
  /\ UNCHANGED <<keyFile, hostVars>>

-----------------------------------------------------------------------------
(* NMP and the host (external)                                             *)

Status(p, t, status) == writes' = [writes EXCEPT ![p][t].status = status]

\* What the host makes of a write: the creator of a group administers it, and
\* administrators name administrators.
Allowed(t, author) ==
  IF t = PromoteToken THEN author \in group.admins ELSE ~group.exists

Effect(t, author) ==
  [exists |-> TRUE,
   admins |-> group.admins \cup {IF t = PromoteToken THEN Owner ELSE author}]

\* NMP signs and sends an accepted write as long as the process runs.
Deliver(p, t) ==
  /\ Pending(p, t, "accepted")
  /\ Running(p)
  /\ LET author == writes[p][t].author IN
       \/ /\ Allowed(t, author)
          /\ group' = Effect(t, author)
          /\ Status(p, t, "acked")
       \/ /\ ~Allowed(t, author)
          /\ UNCHANGED group
          /\ Status(p, t, "refused")
  /\ UNCHANGED <<keyFile, pc, id, toOwner, shown>>

\* The outcome is a refusal or stays unknown, whether or not it took effect.
Refuse(p, t) ==
  /\ Pending(p, t, "accepted")
  /\ Running(p)
  /\ LET author == writes[p][t].author IN
       \/ UNCHANGED group
       \/ /\ Allowed(t, author)
          /\ group' = Effect(t, author)
  /\ Status(p, t, "refused")
  /\ UNCHANGED <<keyFile, pc, id, toOwner, shown>>

ShowMeta ==
  /\ group.exists /\ ~shown.meta
  /\ shown' = [shown EXCEPT !.meta = TRUE]
  /\ UNCHANGED <<keyFile, pc, id, toOwner, writes, group>>

ShowAdmins ==
  /\ shown.admins # group.admins
  /\ shown' = [shown EXCEPT !.admins = group.admins]
  /\ UNCHANGED <<keyFile, pc, id, toOwner, writes, group>>

-----------------------------------------------------------------------------
StartStep(p) ==
  \/ Load(p)
  \/ \E k \in Fresh : Generate(p, k)
  \/ WriteKey(p)
  \/ SyncKey(p)
  \/ Reload(p)
  \/ Observe(p)
  \/ CreateGroup(p)
  \/ AwaitCreate(p)
  \/ Promote(p)
  \/ AwaitPromote(p)

Next ==
  \/ \E p \in Procs :
       \/ \E override \in Overrides[p] : Start(p, override)
       \/ StartStep(p)
       \/ PersistFails(p)
       \/ End(p)
  \/ \E p \in Procs, t \in Tokens :
       \/ Deliver(p, t)
       \/ Refuse(p, t)
  \/ ShowMeta
  \/ ShowAdmins

Spec == Init /\ [][Next]_vars

\* The daemon is started again without an override, its steps and the writes
\* in its store get their turn, the host publishes its state, and in the end
\* no process is stopped or fails to write the key.
Fairness ==
  /\ \A p \in Procs : WF_vars(Start(p, None)) /\ WF_vars(StartStep(p))
  /\ \A p \in Procs, t \in Tokens : WF_vars(Deliver(p, t))
  /\ WF_vars(ShowMeta)
  /\ WF_vars(ShowAdmins)
  /\ <>[][\A p \in Procs : ~End(p) /\ ~PersistFails(p)]_vars

FairSpec == Spec /\ Fairness

-----------------------------------------------------------------------------
(* Properties                                                              *)

TypeOK ==
  /\ keyFile \in {"absent", "torn"} \cup Keys
  /\ pc \in [Procs -> Steps \cup {"down"}]
  /\ id \in [Procs -> Keys \cup {None}]
  /\ toOwner \in [Procs -> BOOLEAN]
  /\ writes \in [Procs -> [Tokens -> Write \cup {None}]]
  /\ group \in [exists : BOOLEAN, admins : SUBSET Admins]
  /\ shown \in [meta : BOOLEAN, admins : SUBSET Admins]
  /\ \A p \in Procs :
       pc[p] \notin {"down", "load", "generate", "reload"} => id[p] \in Keys
  /\ \A p \in Procs : pc[p] = "write" => keyFile = "torn"

\* A daemon that serves administers its group and so does the owner, whichever
\* start created the group and wherever earlier starts were cut off; and the
\* daemons that serve at the same time sign with one key, or one of them was
\* given the owner's: two first starts that raced, or a lost key, never put
\* two identities in charge.
OneInCharge ==
  /\ \A p \in Procs :
       pc[p] = "up" => group.exists /\ {id[p], Owner} \subseteq group.admins
  /\ \A p, q \in Procs :
       pc[p] = "up" /\ pc[q] = "up" => id[p] = id[q] \/ Owner \in {id[p], id[q]}

\* The daemon never tries to seize a group: the owner's promotion is submitted
\* only in the name of a key that administers the group.
SubmitsPromotion(p) ==
  writes[p][PromoteToken] = None /\ writes'[p][PromoteToken] # None

NeverSeizes ==
  [][\A p \in Procs : SubmitsPromotion(p) => id[p] \in group.admins]_vars

\* An identity that is completely installed is never replaced or removed.
Installed == keyFile \in Keys /\ \A p \in Procs : pc[p] # "sync"

KeyKept == [][Installed => UNCHANGED keyFile]_vars

\* A bootstrap write that is still needed ended badly: its token keeps it.
Stuck(p) ==
  \/ ~group.exists /\ Pending(p, CreateToken(keyFile), "refused")
  \/ Owner \notin group.admins /\ Pending(p, PromoteToken, "refused")

\* The reasons for which no start without an override can succeed: a process
\* died while it installed the key, the group is in other hands than the
\* installed key's, or every daemon holds such a write.
Hopeless ==
  \/ keyFile = "torn" /\ \A p \in Procs : pc[p] # "write"
  \/ group.exists /\ keyFile \notin group.admins
  \/ keyFile \in Keys /\ \A p \in Procs : Stuck(p)
  \/ keyFile = "absent" /\ \A k \in Fresh : ~Unused(k)  \* bound of the model

\* Daemons that are started again and again, over whatever earlier starts left
\* behind, serve in the end unless one of those reasons holds.
EventuallyUp == <>[](Hopeless \/ \E p \in Procs : pc[p] = "up")
=============================================================================
