----------------------------- MODULE MCIPAMPool -----------------------------
(* An instance of IPAMPool for TLC. *)
EXTENDS IPAMPool

\* A usual scaler; one whose batch, maximum and release threshold must be
\* clamped; one whose maximum is below the pods' demand and no multiple of the
\* batch.
Usual == [batch |-> 2, max |-> 8, request |-> 50, release |-> 150]
Clamped == [batch |-> 0, max |-> 0, request |-> 60, release |-> 0]
Small == [batch |-> 3, max |-> 4, request |-> 50, release |-> 150]

SetScalers == {Usual, Clamped, Small}

=============================================================================
