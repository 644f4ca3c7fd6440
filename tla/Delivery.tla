------------------------------ MODULE Delivery ------------------------------
(***************************************************************************)
(* What servers and clients together promise of the table `config`: now    *)
(* and then a client learns of a version of a file, one that is later than *)
(* the one it works with and not later than the published one.  Clients    *)
(* may skip versions and may be told of a file that is out of use again.   *)
(***************************************************************************)
EXTENDS ConfigTable

CONSTANT Clients

VARIABLE known   \* the versions each client works with, 0: none

DeliveryInit ==
    /\ ConfigInit
    /\ known = [c \in Clients |-> [f \in Files |-> 0]]

Deliver(c, f) ==
    /\ \E v \in 1..version[f] : v > known[c][f] /\ known' = [known EXCEPT ![c][f] = v]
    /\ UNCHANGED configVars

DeliveryNext ==
    \/ ConfigNext /\ UNCHANGED known
    \/ \E c \in Clients, f \in Files : Deliver(c, f)

DeliverySpec == DeliveryInit /\ [][DeliveryNext]_<<configVars, known>>
=============================================================================
