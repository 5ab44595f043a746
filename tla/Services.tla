-------------------------------- MODULE Services --------------------------------
(***************************************************************************)
(* The services around the request path, side by side: the asynchronous    *)
(* writers, the lifecycle file, the Redis store, the registry's background *)
(* saves, the resolution caches, the rotation of OAuth tokens, the         *)
(* translation of a conversation's requests and answers, the migration of  *)
(* the database, a call to GitHub Copilot, the signing in to providers,    *)
(* the administration of virtual models and the identity of requests.      *)
(* They share no state, so that a behaviour of one is not affected by      *)
(* another and every interleaving of two is one of each: a behaviour here  *)
(* is a behaviour of one of them, chosen at the start, and the rest stays  *)
(* put.                                                                    *)
(***************************************************************************)
EXTENDS AsyncWorkers, ServerLifecycle, RedisStore, RegistrySaves, ResolutionCache, TokenRotation,
        Requests, Migrations, CopilotCalls, SignIns, VirtualModels, CacheIdentity

VARIABLE service

servicesVars ==
  <<service, workerVars, lifecycleVars, redisVars, registryVars, resolutionVars, tokenVars, requestVars,
    migrationVars, copilotVars, signInVars, virtualVars, identityVars>>

\* Where a service that is not the behaviour's stays: it has one state to stay in.
ServicesInit ==
  /\ service \in {"workers", "lifecycle", "redis", "registry", "resolution", "tokens",
                  "requests", "migrations", "copilot", "signins", "virtual", "identity"}
  /\ WorkersInit /\ LifecycleInit /\ RedisInit /\ TokensInit
  /\ RegistryInit /\ (service # "registry" => restore = <<>> /\ \A id \in Ids : rows[id] = Nobody)
  /\ ResolutionInit /\ (service # "resolution" => cached = <<"provider_instances">> /\ loaded)
  /\ RequestsInit /\ (service # "requests" => dialect = "chat")
  /\ MigrationsInit /\ (service # "migrations" => New)
  /\ CopilotInit
  /\ service # "copilot" => learned /\ provider.account = (CHOOSE seat \in Seats : TRUE)
  /\ SignInsInit /\ (service # "signins" => kind = "key" /\ instanceRows = {})
  /\ VirtualInit /\ (service # "virtual" => modelRows = [id \in VirtualIds |-> 0])
  /\ IdentityInit /\ (service # "identity" => enabled /\ usual = Bare)

ServicesNext ==
  /\ UNCHANGED service
  /\ \/ /\ service = "workers" /\ WorkersNext
        /\ UNCHANGED <<lifecycleVars, redisVars, registryVars, resolutionVars, tokenVars,
                        requestVars, migrationVars, copilotVars, signInVars, virtualVars,
                        identityVars>>
     \/ /\ service = "lifecycle" /\ LifecycleNext
        /\ UNCHANGED <<workerVars, redisVars, registryVars, resolutionVars, tokenVars,
                        requestVars, migrationVars, copilotVars, signInVars, virtualVars,
                        identityVars>>
     \/ /\ service = "redis" /\ RedisNext
        /\ UNCHANGED <<workerVars, lifecycleVars, registryVars, resolutionVars, tokenVars,
                        requestVars, migrationVars, copilotVars, signInVars, virtualVars,
                        identityVars>>
     \/ /\ service = "registry" /\ RegistryNext
        /\ UNCHANGED <<workerVars, lifecycleVars, redisVars, resolutionVars, tokenVars,
                        requestVars, migrationVars, copilotVars, signInVars, virtualVars,
                        identityVars>>
     \/ /\ service = "resolution" /\ ResolutionNext
        /\ UNCHANGED <<workerVars, lifecycleVars, redisVars, registryVars, tokenVars,
                        requestVars, migrationVars, copilotVars, signInVars, virtualVars,
                        identityVars>>
     \/ /\ service = "tokens" /\ TokensNext
        /\ UNCHANGED <<workerVars, lifecycleVars, redisVars, registryVars, resolutionVars,
                        requestVars, migrationVars, copilotVars, signInVars, virtualVars,
                        identityVars>>
     \/ /\ service = "requests" /\ RequestsNext
        /\ UNCHANGED <<workerVars, lifecycleVars, redisVars, registryVars, resolutionVars,
                        tokenVars, migrationVars, copilotVars, signInVars, virtualVars,
                        identityVars>>
     \/ /\ service = "migrations" /\ MigrationsNext
        /\ UNCHANGED <<workerVars, lifecycleVars, redisVars, registryVars, resolutionVars,
                        tokenVars, requestVars, copilotVars, signInVars, virtualVars,
                        identityVars>>
     \/ /\ service = "copilot" /\ CopilotNext
        /\ UNCHANGED <<workerVars, lifecycleVars, redisVars, registryVars, resolutionVars,
                        tokenVars, requestVars, migrationVars, signInVars, virtualVars,
                        identityVars>>
     \/ /\ service = "signins" /\ SignInsNext
        /\ UNCHANGED <<workerVars, lifecycleVars, redisVars, registryVars, resolutionVars,
                        tokenVars, requestVars, migrationVars, copilotVars, virtualVars,
                        identityVars>>
     \/ /\ service = "virtual" /\ VirtualNext
        /\ UNCHANGED <<workerVars, lifecycleVars, redisVars, registryVars, resolutionVars,
                        tokenVars, requestVars, migrationVars, copilotVars, signInVars,
                        identityVars>>
     \/ /\ service = "identity" /\ IdentityNext
        /\ UNCHANGED <<workerVars, lifecycleVars, redisVars, registryVars, resolutionVars,
                        tokenVars, requestVars, migrationVars, copilotVars, signInVars,
                        virtualVars>>

\* Each service's own fairness.  A behaviour has one service, so that one formula, over that
\* service's variables, stands for the first of each.
itsVars == CASE service = "workers" -> workerVars
             [] service = "lifecycle" -> lifecycleVars
             [] service = "registry" -> registryVars
             [] OTHER -> redisVars
ItsStep == /\ UNCHANGED service
           /\ \/ service = "workers" /\ PoolStep
              \/ service = "lifecycle" /\ ProcessStep
              \/ service = "registry" /\ RegistryStep
              \/ service = "redis" /\ \E c \in Callers : CommandStep(c)
ServicesFairness ==
  /\ WF_itsVars(ItsStep)
  /\ WF_redisVars(service = "redis" /\ LoopStep)
  /\ WF_redisVars(service = "redis" /\ Cool)
  /\ WF_redisVars(service = "redis" /\ ClientClosed)

ServicesSpec == ServicesInit /\ [][ServicesNext]_servicesVars /\ ServicesFairness

\* Every variable of the behaviour's service keeps to its values.
ServicesTypeOK ==
  /\ service = "workers" => WorkersTypeOK
  /\ service = "lifecycle" => LifecycleTypeOK
  /\ service = "redis" => RedisTypeOK
  /\ service = "registry" => RegistryTypeOK
  /\ service = "resolution" => ResolutionTypeOK
  /\ service = "tokens" => TokensTypeOK
  /\ service = "requests" => TalkTypeOK
  /\ service = "migrations" => MigrationsTypeOK
  /\ service = "copilot" => CopilotTypeOK
  /\ service = "signins" => SignInsTypeOK
  /\ service = "virtual" => VirtualTypeOK
  /\ service = "identity" => IdentityTypeOK

\* Somebody waits for others to get done.
SomebodyWaits == \/ LifecycleHeld
                 \/ waiting
                 \/ closer = "stopping"
                 \/ \E c \in Stops : stop[c] \in {"waiting", "removing"}

\* WAITS.  Nobody waits for ever: stopping or restarting the writers, waiting for pending
\* saves while other requests schedule saves, closing the Redis store while its loop
\* probes, and `omnillm stop` of a server that may be killed at any point, all return.
WaitsReturn == []<>~SomebodyWaits
=============================================================================
