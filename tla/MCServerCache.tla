---------------------------- MODULE MCServerCache ---------------------------
(* Instances of ServerCache for TLC.                                         *)
EXTENDS ServerCache

CONSTANTS f1, h1, h2

OneFile == {f1}
TwoHandlers == {h1, h2}
=============================================================================
