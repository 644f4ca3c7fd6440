--------------------------- MODULE MCLongPolling ----------------------------
(* Instances of LongPolling for TLC.                                         *)
EXTENDS LongPolling, FiniteSets

CONSTANTS f1, h1, c1, p1, p2

OneFile == {f1}
OneHandler == {h1}
OneClient == {c1}
OnePoll == {p1}
TwoPolls == {p1, p2}

(* A behaviour has a crash, a failed refresh, a slow or failed call, or a file  *)
(* that is out of use: one of them at a time.                                 *)
OutOfUse == {f \in Files : version[f] > 0 /\ ~inuse[f]}
OneFault == crashes + dbErrors + failures + Cardinality(OutOfUse) <= 1

(* The second poll is the request sent again while the server still has to do *)
(* with the first.                                                            *)
SecondIsRetry ==
    ~Idle(p2) => failures = 1 /\ ~Idle(p1) /\ refresh.pc = "idle" /\ loads[c1] = {}
=============================================================================
