---------------------------- MODULE MCDeployment ----------------------------
(* Two API processes behind HAProxy, as docker-compose.yml deploys them.   *)
EXTENDS Deployment
=============================================================================
