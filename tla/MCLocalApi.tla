----------------------------- MODULE MCLocalApi -----------------------------
(* An instance of LocalApi: two processes one after the other, two permits, two
   requests in a connection, and three clients, one of which never sends any. *)
EXTENDS LocalApi, TLC

CONSTANTS c1, c2, c3

MCKinds ==
  c1 :> {"frame", "json", "health", "token", "role", "read", "write", "large"}
    @@ c2 :> {"frame", "write", "large"} @@ c3 :> {}
=============================================================================
