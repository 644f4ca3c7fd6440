-------------------------- MODULE MCClientRequests --------------------------
(* Instances of ClientRequests for TLC.                                      *)
EXTENDS ClientRequests

\* Bound: one load at a time while a check is under way.  Only requests that nobody
\* has to send are left out by that.
Active(r) == req[r].pc \notin {"new", "idle", "forgotten"}
FewWithChecks ==
    \A c \in Checks : Active(c) => Cardinality({r \in Loads : Active(r)}) <= 1
=============================================================================
