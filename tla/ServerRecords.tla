--------------------------- MODULE ServerRecords ---------------------------
(***************************************************************************)
(* The game_servers table (internal/repository/game_server.go).  Each      *)
(* method is one SQL statement, hence one atomic step.  Of a row we keep   *)
(* what the control plane decides on: desired_state, status, host_id,      *)
(* vm_id, backup_requested and whether deleted_at is set.  updated_at only *)
(* orders the rows: order holds <<t, s>> when t was updated before s.      *)
(***************************************************************************)
EXTENDS Fleet

CONSTANT Limit          \* the LIMIT of the two list queries

VARIABLES rows, order

Desired == {"running", "stopped", "deleted"}

Status == {"pending", "unschedulable", "provisioning", "running", "stopping",
           "stopped", "deleting", "deleted", "error"}

Row == [created : BOOLEAN, deleted : BOOLEAN, desired : Desired, status : Status,
        host : Host \cup {NoHost}, vm : VM \cup {NoVM}, backup : BOOLEAN]

\* A row as Create inserts it, except that it is not there yet.
Blank == [created |-> FALSE, deleted |-> FALSE, desired |-> "running",
          status |-> "pending", host |-> NoHost, vm |-> NoVM, backup |-> FALSE]

ASSUME RecordsAssumption == Limit \in Nat

RecordsTypeOK == /\ rows \in [Server -> Row]
                 /\ order \in SUBSET (Server \X Server)

RecordsInit == /\ rows = [s \in Server |-> Blank]
               /\ order = {}

-----------------------------------------------------------------------------
(* Reads.                                                                  *)

\* deleted_at IS NULL
Live(s) == rows[s].created /\ ~rows[s].deleted

\* How many of the rows in S were updated before s.
Older(S, s) == Cardinality({t \in S : <<t, s>> \in order})

\* ORDER BY updated_at LIMIT ...
Oldest(S) == {s \in S : Older(S, s) < Limit}

ListRunning ==
    Oldest({s \in Server : /\ Live(s)
                           /\ rows[s].status = "running"
                           /\ rows[s].desired = "running"})

ListReconcilable ==
    Oldest({s \in Server : /\ Live(s)
                           /\ \/ rows[s].desired = "deleted"
                              \/ rows[s].backup
                              \/ /\ rows[s].desired = "running"
                                 /\ rows[s].status # "running"
                              \/ /\ rows[s].desired = "stopped"
                                 /\ rows[s].status # "stopped"})

\* The live rows assigned to a host.
AssignedTo(h) == {s \in Server : Live(s) /\ rows[s].host = h}

UsedCapacity(h) == [r \in Resource |-> Committed(AssignedTo(h), r)]

-----------------------------------------------------------------------------
(* Updates; each but MarkLost is guarded by nothing but the id.            *)

\* updated_at = now()
Touch(s) == order' = {p \in order : p[1] # s /\ p[2] # s} \cup ((Server \ {s}) \X {s})

Write(s, row) == /\ rows' = [rows EXCEPT ![s] = row]
                 /\ Touch(s)

Create(s) == Write(s, [Blank EXCEPT !.created = TRUE])

\* UpdateSpec edits name and version only.
UpdateSpec(s) == Write(s, rows[s])

SetDesiredState(s, d) == Write(s, [rows[s] EXCEPT !.desired = d])

RequestBackup(s) == Write(s, [rows[s] EXCEPT !.backup = TRUE])

MarkBackedUp(s) == Write(s, [rows[s] EXCEPT !.backup = FALSE])

AssignHost(s, h) == Write(s, [rows[s] EXCEPT !.host = h])

UnassignHost(s) == Write(s, [rows[s] EXCEPT !.host = NoHost])

MarkStatus(s, st) == Write(s, [rows[s] EXCEPT !.status = st])

MarkRunning(s, v) == Write(s, [rows[s] EXCEPT !.status = "running", !.vm = v])

MarkStopped(s) ==
    Write(s, [rows[s] EXCEPT !.status = "stopped", !.vm = NoVM, !.host = NoHost])

\* Mutant: the assignment is dropped with the VM.
MarkLostUnplaces(s) ==
    IF Live(s) /\ rows[s].status = "running"
      THEN Write(s, [rows[s] EXCEPT !.status = "pending", !.vm = NoVM, !.host = NoHost])
      ELSE UNCHANGED <<rows, order>>

\* Mutant: the assignment is dropped instead of the VM.
MarkLostUnassigns(s) ==
    IF Live(s) /\ rows[s].status = "running"
      THEN Write(s, [rows[s] EXCEPT !.status = "pending", !.host = NoHost])
      ELSE UNCHANGED <<rows, order>>

MarkLost(s) ==
    IF Live(s) /\ rows[s].status = "running"
      THEN Write(s, [rows[s] EXCEPT !.status = "pending", !.vm = NoVM])
      ELSE UNCHANGED <<rows, order>>

SoftDelete(s) ==
    Write(s, [rows[s] EXCEPT !.status = "deleted", !.vm = NoVM, !.host = NoHost,
                             !.deleted = TRUE])
=============================================================================
