----------------------------- MODULE Background -----------------------------
(***************************************************************************)
(* What works behind the requests: the access logs with their writer and   *)
(* their streams (AccessLogs), the balancer with its averages (Balancer)   *)
(* and the health checker (HealthChecker).  The three share no state, so   *)
(* a behaviour follows one of them.                                        *)
(***************************************************************************)
EXTENDS AccessLogs, Balancer, HealthChecker

VARIABLE part   \* which one

backgroundVars == <<part, sink, logVars, ringVars, balancerVars, healthVars>>

BackgroundInit ==
  /\ part \in {"logs", "balancer", "health"}
  /\ Start /\ BalancerInit /\ HealthInit
  /\ part # "logs" => sink = "ring"
  /\ part # "health" => up = {} /\ answers /\ latest = 0

BackgroundNext ==
  \/ part = "logs" /\ Step /\ UNCHANGED <<part, balancerVars, healthVars>>
  \/ part = "balancer" /\ BalancerNext
     /\ UNCHANGED <<part, sink, logVars, ringVars, healthVars>>
  \/ part = "health" /\ HealthNext
     /\ UNCHANGED <<part, sink, logVars, ringVars, balancerVars>>

\* None of the others is asked for a step: their steps are not enabled in their
\* initial states.
BackgroundSpec ==
  /\ BackgroundInit /\ [][BackgroundNext]_backgroundVars
  /\ LogFairness /\ BalancerFairness /\ HealthFairness
=============================================================================
