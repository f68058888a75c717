----------------------------- MODULE MCService ------------------------------
(***************************************************************************)
(* Five parts of the service that share no state, side by side: each       *)
(* behaviour is one of a single part, the others stay as they began.       *)
(***************************************************************************)
EXTENDS Intake, AuditChain, Schedule, Tunnel, Migrations, TLC

\* The threads, printers and jobs of the parts; what one part calls a1 has
\* nothing to do with what another does.
CONSTANTS a1, a2, i1, i2, i3, p1

VARIABLE part     \* the part that moves

serviceVars == <<part, vars, auditVars, scheduleVars, tunnelVars, migrationVars>>

ServiceInit ==
    /\ part \in {"intake", "audit", "schedule", "tunnel", "migrations"}
    /\ Init /\ AuditInit /\ ScheduleInit /\ TunnelInit /\ MigrationsInit
    \* A part that stays has one beginning.
    /\ part # "audit" => \A i \in Entries : stampOf[i].micro = 0
    /\ part # "migrations" => release = 1

ServiceNext ==
    /\ UNCHANGED part
    /\ \/ /\ part = "intake" /\ Next
          /\ UNCHANGED <<auditVars, scheduleVars, tunnelVars, migrationVars>>
       \/ /\ part = "audit" /\ AuditNext
          /\ UNCHANGED <<vars, scheduleVars, tunnelVars, migrationVars>>
       \/ /\ part = "schedule" /\ ScheduleNext
          /\ UNCHANGED <<vars, auditVars, tunnelVars, migrationVars>>
       \/ /\ part = "tunnel" /\ TunnelNext
          /\ UNCHANGED <<vars, auditVars, scheduleVars, migrationVars>>
       \/ /\ part = "migrations" /\ MigrationsNext
          /\ UNCHANGED <<vars, auditVars, scheduleVars, tunnelVars>>

ServiceSpec == ServiceInit /\ [][ServiceNext]_serviceVars

\* Threads are never told apart.
Interchangeable == Permutations({a1, a2})

\* What tells two states apart: the variables of the part that moves.
Moving ==
    CASE part = "intake" -> <<part, vars>>
      [] part = "audit" -> <<part, auditVars>>
      [] part = "schedule" -> <<part, scheduleVars>>
      [] part = "tunnel" -> <<part, tunnelVars>>
      [] part = "migrations" -> <<part, migrationVars>>

\* Every variable of the part that moves has its type.
ServiceTypeOK ==
    CASE part = "intake" -> TypeOK
      [] part = "audit" -> AuditTypeOK
      [] part = "schedule" -> ScheduleTypeOK
      [] part = "tunnel" -> TunnelTypeOK
      [] part = "migrations" -> MigrationsTypeOK
=============================================================================
