----------------------------- MODULE MCIssuerDemo -----------------------------
(* Instances of IssuerDemo for TLC. *)
EXTENDS IssuerDemo

(* The programs the commands use: for each skill its first and second version. *)
VersionedPrograms == Skills \X {"v1", "v2"}
=============================================================================
