----------------------------- MODULE MCPrinters -----------------------------
(***************************************************************************)
(* Six more parts of the service, side by side as in MCService: what is    *)
(* configured, and what is made of it for a printer, a pool, an alert, an  *)
(* address and a file.                                                     *)
(***************************************************************************)
EXTENDS Registry, Dispatch, Pools, OfflineAlert, RateLimiter, Assets, TLC

\* The threads, tasks and printers of the parts; what one part calls a1 has
\* nothing to do with what another does.
CONSTANTS a1, a2, d1, f1, f2, g1, o1

\* A pool of three, with one member, and without.
PoolRosters == {<<d1, f1, f2>>, <<f2>>, <<>>}

VARIABLE part     \* the part that moves

printersVars ==
    <<part, vars, dispatchVars, poolVars, offlineVars, limiterVars, assetVars>>

PrintersInit ==
    /\ part \in {"registry", "dispatch", "pools", "offline", "limiter", "assets"}
    /\ Init /\ DispatchInit /\ PoolsInit /\ OfflineInit /\ LimiterInit /\ AssetsInit
    \* A part that stays has one beginning.
    /\ part # "dispatch" => device = [d \in Devices |-> IF d = Ours THEN device[d] ELSE Absent]
                            /\ device[Ours].type = "virtual"
    /\ part # "pools" => roster = <<>> /\ strategy = "failover" /\ up = {}
    /\ part # "offline" => highest = 1 /\ online = {}

PrintersNext ==
    /\ UNCHANGED part
    /\ \/ /\ part = "registry" /\ Next
          /\ UNCHANGED <<dispatchVars, poolVars, offlineVars, limiterVars, assetVars>>
       \/ /\ part = "dispatch" /\ DispatchNext
          /\ UNCHANGED <<vars, poolVars, offlineVars, limiterVars, assetVars>>
       \/ /\ part = "pools" /\ PoolsNext
          /\ UNCHANGED <<vars, dispatchVars, offlineVars, limiterVars, assetVars>>
       \/ /\ part = "offline" /\ OfflineNext
          /\ UNCHANGED <<vars, dispatchVars, poolVars, limiterVars, assetVars>>
       \/ /\ part = "limiter" /\ LimiterNext
          /\ UNCHANGED <<vars, dispatchVars, poolVars, offlineVars, assetVars>>
       \/ /\ part = "assets" /\ AssetsNext
          /\ UNCHANGED <<vars, dispatchVars, poolVars, offlineVars, limiterVars>>

PrintersSpec == PrintersInit /\ [][PrintersNext]_printersVars

\* Threads and tasks are never told apart, nor the members of a pool in Dispatch;
\* those in Pools are.
Interchangeable == Permutations({a1, a2})

\* What tells two states apart: the variables of the part that moves.
Moving ==
    CASE part = "registry" -> <<part, vars>>
      [] part = "dispatch" -> <<part, dispatchVars>>
      [] part = "pools" -> <<part, poolVars>>
      [] part = "offline" -> <<part, offlineVars>>
      [] part = "limiter" -> <<part, limiterVars>>
      [] part = "assets" -> <<part, assetVars>>

\* Every variable of the part that moves has its type.
PrintersTypeOK ==
    CASE part = "registry" -> TypeOK
      [] part = "dispatch" -> DispatchTypeOK
      [] part = "pools" -> PoolsTypeOK
      [] part = "offline" -> OfflineTypeOK
      [] part = "limiter" -> LimiterTypeOK
      [] part = "assets" -> AssetsTypeOK
=============================================================================
