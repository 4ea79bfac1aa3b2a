--------------------------- MODULE MCIPAMPoolV2 ---------------------------
(* An instance of IPAMPoolV2 for TLC. *)
EXTENDS IPAMPoolV2

\* A usual scaler; one with a large buffer and a maximum that is no multiple of
\* the batch; one without buffer and with a batch that must be clamped; one whose
\* maximum is below the pods' demand and no multiple of the batch.
Usual == [batch |-> 2, max |-> 8, request |-> 50, release |-> 150]
Wide == [batch |-> 3, max |-> 7, request |-> 100, release |-> 200]
Tight == [batch |-> 0, max |-> 9, request |-> 0, release |-> 0]
Small == [batch |-> 3, max |-> 4, request |-> 50, release |-> 150]

SetScalers == {Usual, Wide, Tight, Small}

=============================================================================
