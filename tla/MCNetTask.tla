------------------------------ MODULE MCNetTask ------------------------------
(* One site over http, one over https, and one search text typed for the   *)
(* first.                                                                  *)
EXTENDS NetTask

SearchUrl == [t \in {"search"} |-> "http"]
=============================================================================
