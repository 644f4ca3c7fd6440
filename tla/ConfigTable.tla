---------------------------- MODULE ConfigTable -----------------------------
(***************************************************************************)
(* What the admin promises about the table `config`, the only one the      *)
(* servers learn published versions from: files are published in sets, all *)
(* of a set at once, always to a version newer than any before, and a file *)
(* taken out of use keeps its version until it is published again.         *)
(***************************************************************************)
EXTENDS Integers

CONSTANTS Files, MaxVersion

VARIABLES
    version,   \* 0: never published
    inuse

configVars == <<version, inuse>>

ConfigInit ==
    /\ version = [f \in Files |-> 0]
    /\ inuse = [f \in Files |-> FALSE]

PublishFiles(S) ==
    /\ version' \in [Files -> 0..MaxVersion]
    /\ \A f \in S : version'[f] > version[f]
    /\ \A f \in Files \ S : version'[f] = version[f]
    /\ inuse' = [f \in Files |-> f \in S \/ inuse[f]]

TakeOutOfUse(f) ==
    /\ inuse[f]
    /\ inuse' = [inuse EXCEPT ![f] = FALSE]
    /\ UNCHANGED version

ConfigNext ==
    \/ \E S \in (SUBSET Files) \ {{}} : PublishFiles(S)
    \/ \E f \in Files : TakeOutOfUse(f)

ConfigSpec == ConfigInit /\ [][ConfigNext]_configVars
=============================================================================
