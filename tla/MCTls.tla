-------------------------------- MODULE MCTls -------------------------------
(* One client, one server; see the .cfg files.                             *)
EXTENDS Tls
=============================================================================
