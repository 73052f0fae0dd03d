---------------------------- MODULE ComposeService ----------------------------
(***************************************************************************)
(* One Compose service with a health check, as the scripts see it through  *)
(* the docker command line: `up --force-recreate`, `ps -q` and `inspect`.  *)
(* Docker is not in the repository, so this module is external; its image  *)
(* comes from compose.dgx.yaml (restart: "no", a healthcheck, one fixed    *)
(* container_name) and from what run-dgx-mode.sh and run.sh read of it.    *)
(*                                                                         *)
(* A container id is never used twice, `ps` lists running containers only, *)
(* an inspect of a removed id is an error, and a container that exits is   *)
(* unhealthy.                                                              *)
(***************************************************************************)
EXTENDS Integers

CONSTANTS Configs,         \* the commands a container can be created with
          MaxContainers    \* bound: containers created in a behaviour

ASSUME ContainersAssumption == MaxContainers \in Nat \ {0}

VARIABLES made,       \* containers created so far: their ids are 1 .. made
          current,    \* the id of the service's container, 0 when there is none
          config, status, health    \* of that container

service == <<made, current, config, status, health>>

\* There may be a container from before, running or not.
ServiceInit ==
    /\ config \in Configs
    /\ \/ made = 0 /\ current = 0 /\ status = "none" /\ health = "missing"
       \/ made = 1 /\ current = 1 /\ status = "running" /\ health = "healthy"
       \/ made = 1 /\ current = 1 /\ status = "exited" /\ health = "unhealthy"

\* The new container is running, or was created and could not be started.
Replaced(c, running) ==
    /\ made < MaxContainers
    /\ made' = made + 1 /\ current' = made + 1 /\ config' = c
    /\ status' = (IF running THEN "running" ELSE "created")
    /\ health' = (IF running THEN "starting" ELSE "missing")

Listed == IF status = "running" THEN current ELSE 0

Exists(id) == id # 0 /\ id = current

HealthCheck ==
    /\ status = "running"
    /\ health' \in {"healthy", "unhealthy"} \ {health}
    /\ UNCHANGED <<made, current, config, status>>

ContainerExits ==
    /\ status = "running"
    /\ status' = "exited" /\ health' = "unhealthy"
    /\ UNCHANGED <<made, current, config>>

\* `make down-dgx` by somebody.
Down ==
    /\ current # 0
    /\ current' = 0 /\ status' = "none" /\ health' = "missing"
    /\ UNCHANGED <<made, config>>

ServiceNext == HealthCheck \/ ContainerExits \/ Down

ServiceType ==
    /\ made \in 0 .. MaxContainers /\ current \in {0, made} /\ config \in Configs
    /\ status \in {"none", "created", "running", "exited"}
    /\ health \in {"missing", "starting", "healthy", "unhealthy"}
================================================================================
