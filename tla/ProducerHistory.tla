--------------------------- MODULE ProducerHistory ---------------------------
(***************************************************************************)
(* Producer with a history of the advances that met.                       *)
(*                                                                         *)
(* The journal has no lock: ProducerRunner::advance loads the record,      *)
(* performs its effect and saves the record over whatever is there.  Two   *)
(* processes may therefore be inside advance for one request id at the     *)
(* same time, and the slower one then acts on, and saves, a record that is *)
(* no longer the journal's.  The history tells these request ids from the  *)
(* others; it is read by no step.                                          *)
(***************************************************************************)
EXTENDS Producer

VARIABLE crossed  \* request ids with an advance under way that has met another

historyVars == <<vars, crossed>>

\* The processes between the load and the save of an advance of request r.
Advancing(r) == {p \in Procs : pc[p] \in {"stage", "save"} /\ req[p].rid = r}

\* Two advances of r are under way; once the last of them is over, the next one
\* loads what the journal holds and r is forgotten.
Remember ==
  crossed' = {r \in Rids :
                /\ Advancing(r)' # {}
                /\ r \in crossed \/ \E p, q \in Advancing(r)' : p # q}

HistoryInit == Init /\ crossed = {}

HistoryNext == Next /\ Remember

HistorySpec == HistoryInit /\ [][HistoryNext]_historyVars

-----------------------------------------------------------------------------
(* Properties                                                              *)

\* Once the receipt of the spoken write is journaled no further spoken write is
\* submitted for that request id, after whatever crash, error or lost save and by
\* however many processes, as long as no two of them are inside advance for that
\* request at the same time: whoever takes the job up reads the receipt from the
\* journal first and only reattaches it.
NoResubmission ==
  [][\A r \in Rids \ crossed : journal[r] # None /\ journal[r].receipt # None =>
       \A n \in Receipts : SpokenFor(n, r)' => SpokenFor(n, r)]_historyVars

\* An advance that met no other acts on the record the journal holds.
CrossInv ==
  \A r \in Rids \ crossed : \A p, q \in Advancing(r) :
    p = q /\ (pc[p] = "stage" => job[p] = journal[r])
=============================================================================
