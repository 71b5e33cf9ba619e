--------------------------- MODULE MCCredentialDesk ---------------------------
(* Two coordinators' requests, two keys, two key rings and room for a second   *)
(* credential.                                                                  *)
EXTENDS CredentialDesk
=============================================================================
