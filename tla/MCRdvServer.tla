----------------------------- MODULE MCRdvServer -----------------------------
(* Processes that share a server. *)
EXTENDS RdvServer, TLC

CONSTANTS p1, p2, p3

TwoClients == {p1, p2}

=============================================================================
