----------------------------- MODULE MCJobQueue -----------------------------
(* Small instances of JobQueue for TLC; the values are in the .cfg files.  *)
EXTENDS JobQueue
=============================================================================
