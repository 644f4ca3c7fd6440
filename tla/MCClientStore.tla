---------------------------- MODULE MCClientStore ---------------------------
(* Instances of ClientStore for TLC.                                         *)
EXTENDS ClientStore

CONSTANTS t1, t2

OneThread == {t1}
TwoThreads == {t1, t2}

\* At most two faults; with two busy threads at most an override, and no first load then.
FewFaults ==
    /\ edits + crashes + failures <= 2
    /\ job[t2] # Idle => crashes + failures = 0 /\ (edits = 0 \/ job[Loader] = Idle)
=============================================================================
