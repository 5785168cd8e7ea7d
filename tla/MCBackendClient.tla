-------------------------- MODULE MCBackendClient --------------------------
(* A few requests while tokens age, expire and are revoked. *)
EXTENDS BackendClient

MCItems == <<1, 2, 3>>
=============================================================================
