------------------------------ MODULE MCRemote ------------------------------
(***************************************************************************)
(* Two clients that share a bucket, one with each setting of fail_closed,  *)
(* and a stranger who shares it on public paths.  Their headers are empty, *)
(* which names the tenant default and the bucket of the empty string.      *)
(***************************************************************************)
EXTENDS Remote

MCConfig ==
  [c1 |-> [tenant |-> "", token |-> "secret", failClosed |-> TRUE],
   c2 |-> [tenant |-> "", token |-> "secret", failClosed |-> FALSE],
   c3 |-> [tenant |-> "", token |-> "guess",  failClosed |-> FALSE]]

MCClients == DOMAIN MCConfig

=============================================================================
