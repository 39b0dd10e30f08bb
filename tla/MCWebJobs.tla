----------------------------- MODULE MCWebJobs -----------------------------
EXTENDS WebJobs

(* One of the jobs meets a redirect.                                       *)
CONSTANT Redirected
MCMaxHops == [j \in Jobs |-> IF j = Redirected THEN 1 ELSE 0]
=============================================================================
