------------------------ MODULE MCConnectionManager ------------------------
(* Two callers share the connection; it may break twice.                    *)
EXTENDS ConnectionManager
=============================================================================
