----------------------------- MODULE MCProducer -----------------------------
(* Small instances of Producer for TLC.                                    *)
EXTENDS Producer, TLC

CONSTANTS p1, p2, r1, i1, agent, t1, u1, u2

OneProc == {p1}
TwoProcs == {p1, p2}
OneRid == {r1}
OneInput == {i1}
AgentAndDaemon == {agent, Daemon}
AgentOnly == {agent}
OneTime == {t1}
OneAudio == {u1}
TwoAudio == {u1, u2}

\* Processes, inputs, times and audio digests are only compared for equality.
Symmetry ==
  Permutations(Procs) \cup Permutations(Rids) \cup Permutations(Inputs)
    \cup Permutations(Times) \cup Permutations(Audio)
=============================================================================
