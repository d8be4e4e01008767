------------------------- MODULE SpokenItemService -------------------------
(***************************************************************************)
(* What the producer promises, without journal, processes or receipts.     *)
(*                                                                         *)
(* A request id is bound once to what was asked and by whom, then once to  *)
(* one immutable spoken item; the host stores only that item, and only a   *)
(* caller who asked for exactly this, in this name, is told of it.         *)
(***************************************************************************)
CONSTANTS Rids, Inputs, Authors, Times, Audio, None

VARIABLES
  admitted,   \* request id -> what was asked, by whom, when
  committed,  \* request id -> the one item that may be published for it
  host,       \* items the host stores
  replies     \* publications reported to callers

vars == <<admitted, committed, host, replies>>

Admissions == [input : Inputs, author : Authors, created : Times]

Init ==
  /\ admitted = [r \in Rids |-> None]
  /\ committed = [r \in Rids |-> None]
  /\ host = {}
  /\ replies = {}

Admit(r, adm) ==
  /\ admitted[r] = None
  /\ admitted' = [admitted EXCEPT ![r] = adm]
  /\ UNCHANGED <<committed, host, replies>>

Commit(r, audio) ==
  /\ admitted[r] # None
  /\ committed[r] = None
  /\ committed' = [committed EXCEPT ![r] =
       [input |-> admitted[r].input, author |-> admitted[r].author,
        created |-> admitted[r].created, audio |-> audio]]
  /\ UNCHANGED <<admitted, host, replies>>

Publish(r) ==
  /\ committed[r] # None
  /\ host' = host \cup {committed[r]}
  /\ UNCHANGED <<admitted, committed, replies>>

Answer(r) ==
  /\ committed[r] # None
  /\ committed[r] \in host
  /\ replies' = replies \cup
       {[rid |-> r, input |-> admitted[r].input, author |-> admitted[r].author,
         event |-> committed[r]]}
  /\ UNCHANGED <<admitted, committed, host>>

Next ==
  \E r \in Rids :
    \/ \E adm \in Admissions : Admit(r, adm)
    \/ \E audio \in Audio : Commit(r, audio)
    \/ Publish(r)
    \/ Answer(r)

Spec == Init /\ [][Next]_vars
=============================================================================
