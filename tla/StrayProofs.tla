---------------------------- MODULE StrayProofs ----------------------------
(***************************************************************************)
(* One VM for each server.  NoStrayVM is far from inductive.  What it      *)
(* rests on:                                                               *)
(*  - what is on the wire, awaited or not, is the call in hand: a caller   *)
(*    whose answer is lost waits for good, so it never sends a second      *)
(*    command while the first may still run (WireInv);                     *)
(*  - nobody has asked for a delete, which gives up on a host it cannot    *)
(*    reach (KeptInv), and no host is out of touch for so long that its    *)
(*    servers are given up (TouchInv);                                     *)
(*  - only a stop makes an agent take a VM for halted and then the row     *)
(*    says so, so a probe that does not find a VM running does not find it *)
(*    at all (AliveInv); a guest that powers itself off is taken for       *)
(*    running;                                                             *)
(*  - the agents have no VM of a server but the one its row names, or the  *)
(*    one that the boot in progress is to find or has just made (OneInv).  *)
(***************************************************************************)
EXTENDS RecordsProofs

\* Steps are first-order unless they say SMT.
USE Zenon

\* No VM is lost sight of for good: the control plane stays up and can write, hosts come
\* back within their grace period and nobody deletes.
NoLosses ==
    /\ NoCrash /\ NoDatabaseFaults
    /\ MaxAge \in Nat /\ MaxAge < Dead
    /\ "deleted" \notin Wishes

\* No agent has a VM of s other than v.
Only(s, v) == \A u \in VM : vms[u].host # NoHost /\ vms[u].server = s => u = v

\* No agent has a VM of s.
Gone(s) == Only(s, NoVM)

\* If it still exists, its agent takes v for running.
Runs(v) == vms[v].host # NoHost => SeemsRunning(v)

\* What is on the wire, awaited or not, is the call in hand: a caller whose answer is
\* lost waits for good, so it never sends a second command.
WireInv ==
    /\ \A c \in wire : /\ waiting /\ reply = "none"
                       /\ c.op = CallOp /\ c.host = loc.host
                       /\ c.server = cur /\ c.vm = loc.vm
    /\ \A c, d \in wire : c = d

\* Control points of delete alone.
Deleting == {"markDeleting", "deprovision", "checkReachable", "softDelete"}

\* Nobody asked for a delete: not the rows, and not the copies made of them.
KeptRows == \A s \in Server : rows[s].desired # "deleted"
KeptCopies == /\ \A s \in Server : snap[s].desired # "deleted"
              /\ loc.desired # "deleted"
              /\ pc \notin Deleting
KeptInv == KeptRows /\ KeptCopies

\* No host is given up.
TouchInv == \A h \in Host : hosts[h].age # Dead

\* Only a stop makes an agent take a VM for halted, and then the row says so.
AliveInv ==
    /\ \A s \in Server : rows[s].status = "running" => Runs(rows[s].vm)
    /\ pc \in Probing => \A s \in todo : rows[s].status = "running"
    /\ pc = "stop" => rows[cur].status # "running"
    /\ pc = "boot" /\ reply = "ok" => Runs(got)
    /\ pc = "markRunning" => Runs(got)

\* The VM a boot is to find: the row's until the command has run, then the one in
\* the reply.
OneInv ==
    /\ \A s \in Server : Booting(s) \/ Only(s, rows[s].vm)
    /\ pc = "boot" /\ (~waiting \/ reply = "err" \/ \E c \in wire : c.awaited) =>
          Only(cur, loc.vm)
    /\ pc = "boot" /\ reply = "ok" => Only(cur, got)
    /\ pc = "markRunning" => Only(cur, got)
    /\ pc = "evict" /\ reply = "ok" => Gone(cur)
    /\ pc \in {"lost", "release", "markStopped"} => Gone(cur)

-----------------------------------------------------------------------------
(* What is on the wire.                                                    *)

\* A call sends its command when nothing else is on the wire, and takes the reply to it.
LEMMA OneWire ==
    ASSUME CallInv, WireInv, pc \in Calling, NEW ok, NEW err, Call(CallOp, ok, err)
    PROVE  WireInv'
  <1>1. CASE UNCHANGED wire /\ wire = {}
    BY <1>1 DEF WireInv
  <1>2. CASE ~waiting /\ Send(CallOp)
    <2>1. wire = {} /\ reply = "none"
      BY <1>2 DEF WireInv, CallInv
    <2>2. wire' = {Outstanding}
      BY <1>2, <2>1 DEF Send, Outstanding
    <2>3. waiting' /\ reply' = "none" /\ CallOp' = CallOp /\ loc' = loc /\ cur' = cur
      BY <1>2, <2>1 DEF Send, CallOp
    <2>4. /\ Outstanding.op = CallOp /\ Outstanding.host = loc.host
          /\ Outstanding.server = cur /\ Outstanding.vm = loc.vm
      BY DEF Outstanding
    <2> QED BY <2>2, <2>3, <2>4 DEF WireInv
  <1>3. CASE Returned("ok") \/ Returned("err")
    <2>1. wire = {}
      BY <1>3 DEF Returned, WireInv
    <2>2. UNCHANGED wire
      BY <1>3 DEF Call, Goto, Local, linkVars, Send, Return, Returned
    <2> QED BY <1>1, <2>1, <2>2
  <1>4. CASE ~waiting /\ Local
    BY <1>1, <1>4 DEF WireInv, Local, linkVars
  <1> QED BY <1>2, <1>3, <1>4 DEF Call

\* The command that was on the wire still is, perhaps without anybody to answer to.
SameWire ==
    \A c \in wire' : \E d \in wire : /\ c.op = d.op /\ c.host = d.host
                                     /\ c.server = d.server /\ c.vm = d.vm

\* Losing a stream.
LEMMA LostWire ==
    ASSUME LinkTypeOK, WireInv, NEW h, LoseCommands(h)
    PROVE  SameWire /\ \A c, d \in wire' : c = d
  <1>1. CASE wire' = {c \in wire : c.host # h}
    BY <1>1 DEF WireInv, SameWire
  <1>2. CASE wire' = {IF c.host = h THEN [c EXCEPT !.awaited = FALSE] ELSE c : c \in wire}
    <2> DEFINE left(c) == IF c.host = h THEN [c EXCEPT !.awaited = FALSE] ELSE c
    <2>1. \A e \in wire' : \E c \in wire : e = left(c)
      BY <1>2
    <2>2. ASSUME NEW c \in wire
          PROVE  /\ left(c).op = c.op /\ left(c).host = c.host
                 /\ left(c).server = c.server /\ left(c).vm = c.vm
      BY DEF LinkTypeOK, Command
    <2> HIDE DEF left
    <2>3. SameWire
      <3> SUFFICES ASSUME NEW e \in wire'
                   PROVE  \E d \in wire : /\ e.op = d.op /\ e.host = d.host
                                          /\ e.server = d.server /\ e.vm = d.vm
        BY DEF SameWire
      <3>1. PICK c \in wire : e = left(c)
        BY <2>1
      <3> QED BY <2>2, <3>1
    <2>4. \A c, d \in wire' : c = d
      BY <2>1 DEF WireInv
    <2> QED BY <2>3, <2>4
  <1> QED BY <1>1, <1>2 DEF LoseCommands

\* A step of the environment that answers nobody.
LEMMA UnansweredWire ==
    ASSUME WireInv, UNCHANGED recVars, SameWire, \A c, d \in wire' : c = d,
           reply' = reply \/ reply' = "none"
    PROVE  WireInv'
  <1>1. CallOp' = CallOp /\ loc' = loc /\ cur' = cur /\ waiting' = waiting
    BY DEF recVars, CallOp
  <1> QED BY <1>1 DEF WireInv, SameWire

\* Every step of the environment.
LEMMA EnvironmentWire ==
    ASSUME TInv, WireInv, Environment
    PROVE  WireInv'
  <1>0. LinkTypeOK /\ UNCHANGED recVars
    BY DEF TInv, WorldTypeOK, Environment
  <1>1. ASSUME UNCHANGED <<wire, reply>> PROVE WireInv'
    <2>1. SameWire /\ \A c, d \in wire' : c = d
      BY <1>1 DEF WireInv, SameWire
    <2> QED BY <1>0, <1>1, <2>1, UnansweredWire
  <1>2. ASSUME NEW h \in Host, Disconnect(h) PROVE WireInv'
    <2>1. LoseCommands(h) /\ (reply' = reply \/ reply' = "none")
      BY <1>2 DEF Disconnect, StreamLost, LoseReply
    <2> QED BY <1>0, <2>1, LostWire, UnansweredWire
  <1>3. ASSUME NEW h \in Host, AgentRestarts(h) PROVE WireInv'
    <2>1. wire' \subseteq wire /\ (reply' = reply \/ reply' = "none")
      BY <1>3 DEF AgentRestarts, StreamLost, LoseReply
    <2>2. SameWire /\ \A c, d \in wire' : c = d
      BY <2>1 DEF WireInv, SameWire
    <2> QED BY <1>0, <2>1, <2>2, UnansweredWire
  <1>4. ASSUME NEW h \in Host, ConnectRegister(h) PROVE WireInv'
    <2>1. CASE UNCHANGED <<wire, reply>>
      BY <1>1, <2>1
    <2>2. CASE LoseCommands(h) /\ LoseReply(h)
      <3>1. reply' = reply \/ reply' = "none"
        BY <2>2 DEF LoseReply
      <3> QED BY <1>0, <2>2, <3>1, LostWire, UnansweredWire
    <2> QED BY <1>4, <2>1, <2>2 DEF ConnectRegister
  <1>5. ASSUME NEW h \in Host,
               \/ GoSilent(h) \/ SpeakAgain(h) \/ ConnectRead(h) \/ HandlerEnds(h)
               \/ Beat(h) \/ Quiet(h)
        PROVE  WireInv'
    BY <1>1, <1>5 DEF GoSilent, SpeakAgain, ConnectRead, HandlerEnds, Beat, Quiet, linkVars
  <1>6. ASSUME ReapHosts \/ \E v \in VM : GuestPowersOff(v) PROVE WireInv'
    BY <1>1, <1>6 DEF ReapHosts, GuestPowersOff, linkVars
  <1>7. ASSUME NEW c \in wire, Execute(c, NewVM) \/ ExecuteFails(c) PROVE WireInv'
    <2>1. wire' = wire \ {c}
      BY <1>7 DEF Execute, ExecuteFails
    <2>2. wire' = {}
      BY <2>1 DEF WireInv
    <2> QED BY <2>2 DEF WireInv
  <1> QED BY <1>2, <1>3, <1>4, <1>5, <1>6, <1>7 DEF Environment, LinkNext

\* Every step but a crash, which forgets the call and may leave its command.
LEMMA StepWire ==
    ASSUME NoCrash, MatchInv, WireInv, [Next]_vars
    PROVE  WireInv'
  <1>0. TInv /\ CallInv
    BY DEF MatchInv
  <1>1. ASSUME Aside PROVE WireInv'
    BY <1>1 DEF Aside, WireInv
  <1>2. CASE TakeBackup \/ ProvisionOrStart \/ StopVM \/ EvictVM \/ DeprovisionVM
    <2>1. pc \in Calling /\ \E ok, err : Call(CallOp, ok, err)
      BY <1>2, SMT DEF TakeBackup, ProvisionOrStart, StopVM, EvictVM, DeprovisionVM, CallOp,
                  Calling
    <2> QED BY <1>0, <2>1, OneWire
  <1>3. CASE Reconciler
    BY <1>0, <1>1, <1>2, <1>3, LoopAside, WorkAside DEF Reconciler
  <1>4. CASE Users \/ UNCHANGED vars
    <2>1. UNCHANGED <<linkVars, recVars>>
      BY <1>4 DEF Users, CreateServer, UpdateServer, BackupServer, Handler, vars
    <2> QED BY <2>1 DEF WireInv, linkVars, recVars, CallOp
  <1>5. ~Crash
    BY DEF Crash, Fault, NoCrash
  <1> QED BY <1>0, <1>3, <1>4, <1>5, EnvironmentWire DEF Next

-----------------------------------------------------------------------------
(* Nobody deletes, no host is given up.                                    *)

\* A row is wanted as before, as Create wants it, or as a user asks.
WantLaw ==
    \A s \in Server : rows'[s].desired \in {rows[s].desired, "running"} \cup Wishes

\* The statements leave the desired state alone, but for Create and SetDesiredState.
LEMMA StatementWants ==
    ASSUME RecordsTypeOK, NEW s \in Server,
           \/ Create(s) \/ UpdateSpec(s) \/ (\E d \in Wishes : SetDesiredState(s, d))
           \/ RequestBackup(s) \/ MarkBackedUp(s) \/ (\E h : AssignHost(s, h))
           \/ UnassignHost(s) \/ (\E st : MarkStatus(s, st)) \/ (\E v : MarkRunning(s, v))
           \/ MarkStopped(s) \/ SoftDelete(s) \/ MarkLost(s)
    PROVE  WantLaw
  <1>0. rows \in [Server -> Row] /\ rows[s] \in Row
    BY DEF RecordsTypeOK
  <1>1. ASSUME NEW new, Write(s, new),
               new.desired \in {rows[s].desired, "running"} \cup Wishes
        PROVE  WantLaw
    <2>1. rows'[s] = new /\ \A t \in Server : t # s => rows'[t] = rows[t]
      BY <1>0, <1>1 DEF Write
    <2> QED BY <1>1, <2>1 DEF WantLaw
  <1>2. CASE Create(s)
    <2>1. [Blank EXCEPT !.created = TRUE].desired = "running"
      BY DEF Blank
    <2> QED BY <1>1, <1>2, <2>1 DEF Create
  <1>3. CASE \E d \in Wishes : SetDesiredState(s, d)
    <2>1. \A d : [rows[s] EXCEPT !.desired = d].desired = d
      BY <1>0 DEF Row
    <2> QED BY <1>1, <1>3, <2>1 DEF SetDesiredState
  <1>4. CASE UpdateSpec(s) \/ RequestBackup(s) \/ MarkBackedUp(s)
    <2>1. \A b : [rows[s] EXCEPT !.backup = b].desired = rows[s].desired
      BY <1>0 DEF Row
    <2> QED BY <1>1, <1>4, <2>1 DEF UpdateSpec, RequestBackup, MarkBackedUp
  <1>5. CASE (\E h : AssignHost(s, h)) \/ UnassignHost(s) \/ \E st : MarkStatus(s, st)
    <2>1. /\ \A h : [rows[s] EXCEPT !.host = h].desired = rows[s].desired
          /\ \A st : [rows[s] EXCEPT !.status = st].desired = rows[s].desired
      BY <1>0 DEF Row
    <2> QED BY <1>1, <1>5, <2>1 DEF AssignHost, UnassignHost, MarkStatus
  <1>6. CASE (\E v : MarkRunning(s, v)) \/ MarkLost(s)
    <2>1. \A st, v : [rows[s] EXCEPT !.status = st, !.vm = v].desired = rows[s].desired
      BY <1>0 DEF Row
    <2>2. UNCHANGED rows => WantLaw
      BY DEF WantLaw
    <2> QED BY <1>1, <1>6, <2>1, <2>2 DEF MarkRunning, MarkLost
  <1>7. CASE MarkStopped(s)
    <2>1. [rows[s] EXCEPT !.status = "stopped", !.vm = NoVM, !.host = NoHost].desired
             = rows[s].desired
      BY <1>0 DEF Row
    <2> QED BY <1>1, <1>7, <2>1 DEF MarkStopped
  <1>8. CASE SoftDelete(s)
    <2>1. [rows[s] EXCEPT !.status = "deleted", !.vm = NoVM, !.host = NoHost,
                          !.deleted = TRUE].desired = rows[s].desired
      BY <1>0 DEF Row
    <2> QED BY <1>1, <1>8, <2>1 DEF SoftDelete
  <1> QED BY <1>2, <1>3, <1>4, <1>5, <1>6, <1>7, <1>8

\* Every step.
LEMMA StepWants ==
    ASSUME TInv, [Next]_vars
    PROVE  WantLaw
  <1>0. RecordsTypeOK /\ (pc \in Working => cur \in Server)
    BY DEF TInv, WorldTypeOK, RecTypeOK, InHand
  <1>1. ASSUME UNCHANGED rows PROVE WantLaw
    BY <1>1 DEF WantLaw
  <1>2. CASE \/ DoMarkLost \/ Fail \/ DoMarkBackedUp \/ DoUnassign \/ DoMarkUnschedulable
             \/ DoAssign \/ DoMarkProvisioning \/ DoMarkRunning \/ DoMarkStopping
             \/ DoMarkStopped \/ DoMarkDeleting \/ DoSoftDelete
    <2>1. pc \in Working
      BY <1>2 DEF DoMarkLost, Fail, DoMarkBackedUp, DoUnassign, DoMarkUnschedulable, DoAssign,
           DoMarkProvisioning, DoMarkRunning, DoMarkStopping, DoMarkStopped, DoMarkDeleting,
           DoSoftDelete, Working, PC
    <2> QED BY <1>0, <1>1, <1>2, <2>1, StatementWants
            DEF DoMarkLost, Fail, DoMarkBackedUp, DoUnassign, DoMarkUnschedulable, DoAssign,
                DoMarkProvisioning, DoMarkRunning, DoMarkStopping, DoMarkStopped,
                DoMarkDeleting, DoSoftDelete, Statement, dbVars
  <1>3. CASE Reconciler
    <2>1. CASE ListRunningServers \/ ListReconcilableServers
      BY <1>1, <2>1 DEF ListRunningServers, ListReconcilableServers, Statement, dbVars
    <2>2. CASE TakeBackup \/ ProvisionOrStart \/ StopVM \/ EvictVM \/ DeprovisionVM
      BY <1>1, <2>2 DEF TakeBackup, ProvisionOrStart, StopVM, EvictVM, DeprovisionVM, Call,
                        Local, Send, Return
    <2>3. CASE DropRelease \/ Unreserve \/ ReleaseHost \/ \E h \in Host : Schedule(h)
      BY <1>1, <2>3 DEF DropRelease, Unreserve, ReleaseHost, Schedule, OnHosts
    <2>4. CASE LostBilling \/ StopBilling \/ StartBilling
      BY <1>1, <2>4 DEF LostBilling, StopBilling, StartBilling, CloseInterval
    <2>5. CASE \/ ProbesDone \/ TickDone \/ SkipBackup \/ BackupFailed \/ DropStale
               \/ NoCapacity \/ CheckReachable
               \/ \E s \in Server : ProbeAlive(s) \/ ProbeLost(s) \/ ReconcileNext(s)
      BY <1>1, <2>5 DEF ProbesDone, TickDone, SkipBackup, BackupFailed, DropStale,
                        NoCapacity, CheckReachable, ProbeAlive, ProbeLost, ReconcileNext, Local
    <2> QED BY <1>2, <1>3, <2>1, <2>2, <2>3, <2>4, <2>5 DEF Reconciler
  <1>4. CASE Environment \/ Crash \/ UNCHANGED vars
    BY <1>1, <1>4 DEF Environment, LinkNext, Disconnect, GoSilent, SpeakAgain, AgentRestarts,
         ConnectRead, ConnectRegister, HandlerEnds, Beat, Quiet, ReapHosts, Execute,
         ExecuteFails, GuestPowersOff, StreamLost, Crash, vars
  <1>5. CASE Users
    BY <1>0, <1>5, StatementWants DEF Users, CreateServer, UpdateServer, BackupServer, Handler
  <1> QED BY <1>3, <1>4, <1>5 DEF Next

\* The step forms of the reconciler.
LEMMA KeptForms ==
    ASSUME TInv, KeptInv
    PROVE  /\ \A p : p \notin Deleting /\ (Goto(p) \/ Done(p)) => KeptCopies'
           /\ \A s \in Server : \A p : p \notin Deleting /\ Take(s, p) => KeptCopies'
           /\ \A S, p : p \notin Deleting /\ List(S, p) => KeptCopies'
           /\ UNCHANGED <<pc, snap, loc>> => KeptCopies'
  <1>0. snap \in [Server -> Row] /\ Blank.desired = "running"
    BY DEF TInv, RecTypeOK, Blank
  <1>1. ASSUME NEW p, p \notin Deleting, Goto(p) \/ Done(p) PROVE KeptCopies'
    BY <1>0, <1>1 DEF KeptInv, KeptCopies, Goto, Done
  <1>2. ASSUME NEW s \in Server, NEW p, p \notin Deleting, Take(s, p) PROVE KeptCopies'
    BY <1>0, <1>2 DEF KeptInv, KeptCopies, Take
  <1>3. ASSUME NEW S, NEW p, p \notin Deleting, List(S, p) PROVE KeptCopies'
    BY <1>0, <1>3 DEF KeptInv, KeptRows, KeptCopies, List
  <1>4. ASSUME UNCHANGED <<pc, snap, loc>> PROVE KeptCopies'
    BY <1>4 DEF KeptInv, KeptCopies
  <1> QED BY <1>1, <1>2, <1>3, <1>4

\* checkLiveness and the main loop: FirstStep enters delete only for a row that is to
\* be deleted.
LEMMA LoopKept ==
    ASSUME TInv, KeptInv,
           \/ ListRunningServers \/ ProbesDone \/ DoMarkLost \/ LostBilling
           \/ \E s \in Server : ProbeAlive(s) \/ ProbeLost(s) \/ ReconcileNext(s)
           \/ ListReconcilableServers \/ TickDone \/ Fail
    PROVE  KeptCopies'
  <1>1. CASE ListRunningServers \/ ListReconcilableServers
    BY <1>1, KeptForms DEF ListRunningServers, ListReconcilableServers, Statement, Deleting
  <1>2. CASE ProbesDone \/ DoMarkLost \/ LostBilling \/ TickDone \/ Fail
    BY <1>2, KeptForms DEF ProbesDone, DoMarkLost, LostBilling, CloseInterval, TickDone, Fail,
                           Statement, Deleting
  <1>3. CASE \E s \in Server : ProbeLost(s)
    BY <1>3, KeptForms DEF ProbeLost, Deleting
  <1>4. CASE \E s \in Server : ProbeAlive(s)
    <2>1. snap \in [Server -> Row] /\ Blank.desired = "running"
      BY DEF TInv, RecTypeOK, Blank
    <2> QED BY <1>4, <2>1 DEF ProbeAlive, KeptInv, KeptCopies
  <1>5. CASE \E s \in Server : ReconcileNext(s)
    <2>1. \A row : row.desired # "deleted" => FirstStep(row) \notin Deleting
      BY DEF FirstStep, Converge, Deleting
    <2>2. \A s \in Server : FirstStep(snap[s]) \notin Deleting
      BY <2>1 DEF KeptInv, KeptCopies
    <2> QED BY <1>5, <2>2, KeptForms DEF ReconcileNext
  <1> QED BY <1>1, <1>2, <1>3, <1>4, <1>5

\* backup, start and stop; delete is never entered.
LEMMA WorkKept ==
    ASSUME TInv, KeptInv,
           \/ SkipBackup \/ TakeBackup \/ BackupFailed \/ DoMarkBackedUp
           \/ DropStale \/ DropRelease \/ DoUnassign
           \/ \E h \in Host : Schedule(h)
           \/ NoCapacity \/ DoMarkUnschedulable \/ DoAssign \/ Unreserve
           \/ DoMarkProvisioning \/ ProvisionOrStart \/ DoMarkRunning \/ StartBilling
           \/ DoMarkStopping \/ StopVM \/ EvictVM \/ ReleaseHost \/ DoMarkStopped
           \/ StopBilling
           \/ DoMarkDeleting \/ DeprovisionVM \/ CheckReachable \/ DoSoftDelete
    PROVE  KeptCopies'
  <1>1. ASSUME NEW op, NEW ok, NEW err, Call(op, ok, err), ok \notin Deleting,
               err \notin Deleting
        PROVE  KeptCopies'
    <2>1. Goto(ok) \/ Goto(err) \/ UNCHANGED <<pc, snap, loc>> \/ Return(ok) \/ Return(err)
      BY <1>1 DEF Call, Send
    <2>2. \A p : Return(p) /\ p \notin Deleting => KeptCopies'
      BY DEF Return, KeptInv, KeptCopies
    <2> QED BY <1>1, <2>1, <2>2, KeptForms
  <1>2. CASE TakeBackup
    BY <1>1, <1>2 DEF TakeBackup, Deleting
  <1>3. CASE ProvisionOrStart
    BY <1>1, <1>3 DEF ProvisionOrStart, Deleting
  <1>4. CASE StopVM \/ EvictVM
    BY <1>1, <1>4 DEF StopVM, EvictVM, Deleting
  <1>5. CASE BackupFailed \/ DoMarkBackedUp
    <2>1. AfterBackup
      BY <1>5 DEF BackupFailed, DoMarkBackedUp, Statement
    <2>2. Converge(loc) \notin Deleting
      BY DEF Converge, Deleting
    <2> QED BY <2>1, <2>2, KeptForms DEF AfterBackup, Deleting
  <1>6. CASE SkipBackup \/ DropStale \/ DropRelease \/ NoCapacity \/ Unreserve
    BY <1>6, KeptForms DEF SkipBackup, DropStale, DropRelease, NoCapacity, Unreserve, Deleting
  <1>7. CASE DoUnassign \/ DoAssign
    <2>1. \A h : [loc EXCEPT !.host = h].desired = loc.desired
      BY DEF TInv, RecTypeOK, Row
    <2> QED BY <1>7, <2>1, KeptForms DEF DoUnassign, DoAssign, Statement, KeptInv, KeptCopies,
                                         Deleting
  <1>8. CASE \E h \in Host : Schedule(h)
    BY <1>8 DEF Schedule, KeptInv, KeptCopies, Deleting
  <1>9. CASE DoMarkUnschedulable \/ DoMarkProvisioning \/ DoMarkRunning \/ DoMarkStopping
    BY <1>9, KeptForms DEF DoMarkUnschedulable, DoMarkProvisioning, DoMarkRunning,
                           DoMarkStopping, Statement, Deleting
  <1>10. CASE StartBilling \/ StopBilling \/ DoMarkStopped
    BY <1>10, KeptForms DEF StartBilling, StopBilling, CloseInterval, DoMarkStopped,
                            Statement, Deleting
  <1>11. CASE ReleaseHost
    <2>1. Goto("markStopped")
      BY <1>11 DEF ReleaseHost, KeptInv, KeptCopies
    <2> QED BY <2>1, KeptForms DEF Deleting
  <1>12. ~(DoMarkDeleting \/ DeprovisionVM \/ CheckReachable \/ DoSoftDelete)
    BY DEF DoMarkDeleting, DeprovisionVM, CheckReachable, DoSoftDelete, KeptInv, KeptCopies,
           Deleting
  <1> QED BY <1>2, <1>3, <1>4, <1>5, <1>6, <1>7, <1>8, <1>9, <1>10, <1>11, <1>12

\* Every step, as long as no user wishes a server deleted.
LEMMA StepKept ==
    ASSUME "deleted" \notin Wishes, TInv, KeptInv, [Next]_vars
    PROVE  KeptInv'
  <1>1. KeptRows'
    BY StepWants DEF WantLaw, KeptInv, KeptRows
  <1>2. KeptCopies'
    <2>1. CASE Reconciler
      BY <2>1, LoopKept, WorkKept DEF Reconciler
    <2>2. CASE Environment \/ Users \/ UNCHANGED vars
      <3>1. UNCHANGED <<pc, snap, loc>>
        BY <2>2 DEF Environment, Users, CreateServer, UpdateServer, BackupServer, Handler,
                    recVars, vars
      <3> QED BY <3>1, KeptForms
    <2>3. CASE Crash
      BY <2>3 DEF Crash, Empty, Blank, KeptCopies, Deleting
    <2> QED BY <2>1, <2>2, <2>3 DEF Next
  <1> QED BY <1>1, <1>2 DEF KeptInv

\* A host's last heartbeat gets no older, except by the clock.
NoOlder == \A g \in Host : hosts'[g].age = hosts[g].age \/ hosts'[g].age = Fresh

\* The methods of the inventory.
LEMMA MethodAges ==
    ASSUME HostsTypeOK,
           \/ \E h, d : Reserve(h, d) \/ Release(h, d)
           \/ \E h : MarkDown(h) \/ Heartbeat(h) \/ \E t, u : RegisterReserved(h, t, u)
           \/ MarkStale
    PROVE  NoOlder
  <1>0. hosts \in [Host -> HostRecord]
    BY DEF HostsTypeOK
  <1>1. ASSUME NEW h, NEW rec, hosts' = [hosts EXCEPT ![h] = rec],
               h \in Host => rec.age = hosts[h].age \/ rec.age = Fresh
        PROVE  NoOlder
    BY <1>0, <1>1 DEF NoOlder
  <1>2. ASSUME NEW h \in Host
        PROVE  /\ \A a : [hosts[h] EXCEPT !.alloc = a].age = hosts[h].age
               /\ \A st : [hosts[h] EXCEPT !.status = st].age = hosts[h].age
               /\ [hosts[h] EXCEPT !.age = Fresh, !.status = "ready"].age = Fresh
    BY <1>0 DEF HostRecord
  <1>3. ASSUME NEW h, NEW d, Reserve(h, d) PROVE NoOlder
    BY <1>1, <1>2, <1>3 DEF Reserve
  <1>4. ASSUME NEW h, NEW kept,
               hosts' = [hosts EXCEPT ![h] = IF hosts[h].known THEN kept ELSE hosts[h]],
               h \in Host => kept.age = hosts[h].age \/ kept.age = Fresh
        PROVE  NoOlder
    <2> DEFINE rec == IF hosts[h].known THEN kept ELSE hosts[h]
    <2>1. h \in Host => rec.age = hosts[h].age \/ rec.age = Fresh
      BY <1>4
    <2>2. hosts' = [hosts EXCEPT ![h] = rec]
      BY <1>4
    <2> HIDE DEF rec
    <2> QED BY <1>1, <2>1, <2>2
  <1>5. ASSUME NEW h, NEW d, Release(h, d) PROVE NoOlder
    BY <1>2, <1>4, <1>5 DEF Release
  <1>6. ASSUME NEW h, MarkDown(h) PROVE NoOlder
    BY <1>2, <1>4, <1>6 DEF MarkDown
  <1>7. ASSUME NEW h, Heartbeat(h) PROVE NoOlder
    BY <1>2, <1>4, <1>7 DEF Heartbeat
  <1>8. CASE \E h, t, u : RegisterReserved(h, t, u)
    BY <1>1, <1>8 DEF RegisterReserved
  <1>9. CASE MarkStale
    BY <1>0, <1>2, <1>9 DEF MarkStale, NoOlder
  <1> QED BY <1>3, <1>5, <1>6, <1>7, <1>8, <1>9

\* Every step, as long as a host that is out of touch comes back within its grace.
LEMMA StepTouch ==
    ASSUME MaxAge \in Nat, MaxAge < Dead, TInv, TouchInv, [Next]_vars
    PROVE  TouchInv'
  <1>0. HostsTypeOK
    BY DEF TInv, WorldTypeOK
  <1>1. ASSUME NoOlder PROVE TouchInv'
    BY <1>1, SMT DEF NoOlder, TouchInv, Fresh, Dead
  <1>2. UNCHANGED hosts => NoOlder
    BY DEF NoOlder
  <1>3. CASE Reconciler
    <2>1. UNCHANGED hosts \/ \E h, d : Reserve(h, d) \/ Release(h, d)
      <3>1. CASE \/ ListRunningServers \/ ProbesDone \/ DoMarkLost \/ LostBilling
                 \/ \E s \in Server : ProbeAlive(s) \/ ProbeLost(s) \/ ReconcileNext(s)
                 \/ ListReconcilableServers \/ TickDone \/ Fail
        BY <3>1 DEF ListRunningServers, ProbesDone, DoMarkLost, LostBilling, CloseInterval,
             ProbeAlive, ProbeLost, ReconcileNext, ListReconcilableServers, TickDone, Fail,
             OnRecords, Local
      <3>2. CASE TakeBackup \/ ProvisionOrStart \/ StopVM \/ EvictVM \/ DeprovisionVM
        BY <3>2 DEF TakeBackup, ProvisionOrStart, StopVM, EvictVM, DeprovisionVM, Call, Local,
                    Send, Return
      <3>3. CASE DropRelease \/ Unreserve \/ ReleaseHost \/ \E h \in Host : Schedule(h)
        BY <3>3 DEF DropRelease, Unreserve, ReleaseHost, Schedule
      <3>4. CASE \/ SkipBackup \/ BackupFailed \/ DoMarkBackedUp \/ DropStale \/ DoUnassign
                 \/ NoCapacity \/ DoMarkUnschedulable \/ DoAssign
                 \/ DoMarkProvisioning \/ DoMarkRunning \/ StartBilling
                 \/ DoMarkStopping \/ DoMarkStopped \/ StopBilling
                 \/ DoMarkDeleting \/ CheckReachable \/ DoSoftDelete
        BY <3>4 DEF SkipBackup, BackupFailed, DoMarkBackedUp, DropStale, DoUnassign, NoCapacity,
             DoMarkUnschedulable, DoAssign, DoMarkProvisioning, DoMarkRunning, StartBilling,
             DoMarkStopping, DoMarkStopped, StopBilling, DoMarkDeleting, CheckReachable,
             DoSoftDelete, Local, OnRecords, CloseInterval
      <3> QED BY <1>3, <3>1, <3>2, <3>3, <3>4 DEF Reconciler
    <2> QED BY <1>0, <1>1, <1>2, <2>1, MethodAges
  <1>4. CASE Environment
    <2>1. CASE \E h \in Host : Quiet(h)
      <3>1. PICK h \in Host : /\ hosts[h].age < MaxAge
                              /\ hosts' = [hosts EXCEPT ![h] =
                                             [hosts[h] EXCEPT !.age = hosts[h].age + 1]]
        BY <2>1 DEF Quiet, HeartbeatAges
      <3>2. hosts \in [Host -> HostRecord] /\ hosts[h].age \in {Fresh, Stale, Dead}
        BY <1>0 DEF HostsTypeOK, HostRecord
      <3>3. hosts[h].age + 1 # Dead
        BY <3>1, <3>2, SMT DEF Fresh, Stale, Dead
      <3>4. hosts'[h].age = hosts[h].age + 1 /\ \A g \in Host : g # h => hosts'[g] = hosts[g]
        BY <3>1, <3>2, SMT DEF HostRecord
      <3> QED BY <3>3, <3>4 DEF TouchInv
    <2>2. CASE ReapHosts \/ \E h \in Host : HandlerEnds(h) \/ Beat(h) \/ ConnectRegister(h)
      <3>1. \/ \E h : MarkDown(h) \/ Heartbeat(h) \/ \E t, u : RegisterReserved(h, t, u)
            \/ MarkStale
        BY <2>2 DEF ReapHosts, HandlerEnds, Beat, ConnectRegister
      <3> QED BY <1>0, <1>1, <3>1, MethodAges
    <2>3. CASE UNCHANGED hosts
      BY <1>1, <1>2, <2>3
    <2> QED BY <1>4, <2>1, <2>2, <2>3
            DEF Environment, LinkNext, Disconnect, GoSilent, SpeakAgain, AgentRestarts,
                ConnectRead, Execute, ExecuteFails, GuestPowersOff, StreamLost
  <1>5. CASE Users \/ UNCHANGED vars
    BY <1>1, <1>2, <1>5 DEF Users, CreateServer, UpdateServer, BackupServer, Handler, vars
  <1>6. CASE Crash
    <2>1. \A h \in Host : hosts'[h].age = Fresh
      BY <1>6 DEF Crash, Unknown
    <2> QED BY <1>1, <2>1 DEF NoOlder
  <1> QED BY <1>3, <1>4, <1>5, <1>6 DEF Next

-----------------------------------------------------------------------------
(* Who halts, loses and boots VMs.                                         *)

\* Control points at which it matters what VMs the server in hand has.
Watched == {"boot", "markRunning", "lost", "stop", "evict", "release", "markStopped"}

\* How the reconciler gets to those points and away from them.
Passage ==
    \/ UNCHANGED <<pc, cur, loc, waiting, wire, reply, got>>
    \/ pc \notin {"boot", "markRunning"} /\ pc' \notin Watched
    \/ \E s \in Server : ProbeLost(s)
    \/ DoMarkProvisioning \/ ProvisionOrStart \/ DoMarkRunning
    \/ DoMarkStopping \/ StopVM \/ EvictVM \/ ReleaseHost

\* Every step of the reconciler and of the users, when nobody deletes.
LEMMA StepPassage ==
    ASSUME NoCrash, KeptInv, [Next]_vars
    PROVE  Environment \/ Passage
  <1>1. ASSUME pc \notin {"boot", "markRunning"}, pc' \notin Watched PROVE Passage
    BY <1>1 DEF Passage
  <1>2. CASE \/ ListRunningServers \/ ProbesDone \/ DoMarkLost \/ LostBilling
             \/ \E s \in Server : ProbeAlive(s)
             \/ ListReconcilableServers \/ TickDone \/ Fail
    BY <1>1, <1>2 DEF ListRunningServers, ProbesDone, DoMarkLost, LostBilling, CloseInterval,
         ProbeAlive, ListReconcilableServers, TickDone, Fail, Statement, List, Goto, Done,
         Watched
  <1>3. \A row : Converge(row) \notin Watched /\ FirstStep(row) \notin Watched
    BY DEF Converge, FirstStep, Watched
  <1>4. CASE \E s \in Server : ReconcileNext(s)
    BY <1>1, <1>3, <1>4 DEF ReconcileNext, Take
  <1>5. CASE BackupFailed \/ DoMarkBackedUp
    <2>1. AfterBackup /\ pc \notin {"boot", "markRunning"}
      BY <1>5 DEF BackupFailed, DoMarkBackedUp, Statement
    <2> QED BY <1>1, <1>3, <2>1 DEF AfterBackup, Done, Goto, Watched
  <1>6. CASE SkipBackup \/ TakeBackup
    BY <1>1, <1>6 DEF SkipBackup, TakeBackup, Call, Goto, Send, Return, Watched
  <1>7. CASE \/ DropStale \/ DropRelease \/ DoUnassign \/ (\E h \in Host : Schedule(h))
             \/ NoCapacity \/ Unreserve
    BY <1>1, <1>7 DEF DropStale, DropRelease, DoUnassign, Schedule, NoCapacity, Unreserve,
                      Statement, Goto, Watched
  <1>8. CASE \/ DoMarkUnschedulable \/ DoAssign \/ StartBilling \/ DoMarkStopped
             \/ StopBilling
    BY <1>1, <1>8 DEF DoMarkUnschedulable, DoAssign, StartBilling, DoMarkStopped, StopBilling,
                      CloseInterval, Statement, Goto, Done, Watched
  <1>9. ~(DoMarkDeleting \/ DeprovisionVM \/ CheckReachable \/ DoSoftDelete)
    BY DEF DoMarkDeleting, DeprovisionVM, CheckReachable, DoSoftDelete, KeptInv, KeptCopies,
           Deleting
  <1>10. CASE Reconciler
    BY <1>2, <1>4, <1>5, <1>6, <1>7, <1>8, <1>9, <1>10 DEF Reconciler, Passage
  <1>11. CASE Users \/ UNCHANGED vars
    BY <1>11 DEF Users, CreateServer, UpdateServer, BackupServer, Handler, linkVars, recVars,
                 vars, Passage
  <1>12. ~Crash
    BY DEF Crash, Fault, NoCrash
  <1> QED BY <1>10, <1>11, <1>12 DEF Next

\* A row that reads running did so before, or is being marked so.
LEMMA StillRunning ==
    ASSUME MatchInv, [Next]_vars, NEW s \in Server, rows'[s].status = "running"
    PROVE  \/ rows[s].status = "running" /\ rows'[s].vm = rows[s].vm
           \/ s = cur /\ pc = "markRunning" /\ rows'[s].vm = got
  <1>1. Kept(s) \/ Started(s)
    BY StepLaws DEF RowLaw, Born, Relabelled, Lost, Downed
  <1> QED BY <1>1 DEF Kept, Started

\* The rows of the servers that are still to be probed stay as they are.
LEMMA StillProbed ==
    ASSUME NoCrash, MatchInv, AliveInv, [Next]_vars, pc' \in Probing, NEW s \in todo'
    PROVE  rows'[s].status = "running"
  <1>0. TInv /\ SyncInv /\ todo \in SUBSET Server
    BY DEF MatchInv, TInv, RecTypeOK
  <1>1. SnapLaw
    BY <1>0, StepMoves DEF Crash, Fault, NoCrash
  <1>2. CASE UNCHANGED rows /\ rows[s].status = "running"
    BY <1>2
  <1>3. CASE pc \in Probing /\ s \in todo
    <2>1. rows[s].status = "running" /\ rows[s].created /\ (pc \in Working => s # cur)
      BY <1>0, <1>3 DEF AliveInv, SyncInv, Live
    <2>2. Kept(s)
      BY <1>0, <1>3, <2>1, StepLaws
         DEF RowLaw, Born, Relabelled, Lost, Downed, Started, Working, PC
    <2> QED BY <2>1, <2>2 DEF Kept
  <1> QED BY <1>1, <1>2, <1>3 DEF SnapLaw

\* Steps that change no VM.
LEMMA AsideAlive ==
    ASSUME NoCrash, MatchInv, AliveInv, [Next]_vars, UNCHANGED vms, Passage
    PROVE  AliveInv'
  <1>0. TInv /\ CallInv /\ CallInv' /\ (pc \in Working => cur \in Server)
    BY MatchInductive DEF MatchInv, TInv, RecTypeOK, InHand
  <1>1. \A v : Runs(v) => Runs(v)'
    BY DEF Runs, SeemsRunning
  <1>2. ASSUME NEW s \in Server, rows'[s].status = "running" PROVE Runs(rows[s].vm)'
    BY <1>1, <1>2, StillRunning DEF AliveInv, Runs
  <1>3. ASSUME pc' = "stop" PROVE rows'[cur'].status # "running"
    <2>1. CASE pc = "stop" /\ cur' = cur
      BY <1>0, <2>1, StillRunning DEF AliveInv, Working, PC
    <2>2. CASE DoMarkStopping
      <3>1. MarkStatus(cur, "stopping") /\ cur' = cur /\ cur \in Server
        BY <1>0, <1>3, <2>2 DEF DoMarkStopping, Statement, Goto, Working, PC
      <3>2. RecordsTypeOK
        BY <1>0 DEF TInv, WorldTypeOK
      <3>3. Becomes(cur, rows[cur].created, rows[cur].deleted, "stopping", rows[cur].host,
                    rows[cur].vm)
        BY <3>1, <3>2, RowEffects
      <3> QED BY <3>1, <3>3 DEF Becomes
    <2>3. ~((\E s \in Server : ProbeLost(s)) \/ DoMarkProvisioning \/ ProvisionOrStart
            \/ DoMarkRunning \/ EvictVM \/ ReleaseHost)
      BY <1>3 DEF ProbeLost, Take, DoMarkProvisioning, ProvisionOrStart, DoMarkRunning,
                  EvictVM, ReleaseHost, Call, Statement, Goto, Send, Return
    <2>4. CASE StopVM
      BY <1>3, <2>1, <2>4 DEF StopVM, Call, Goto, Send, Return
    <2> QED BY <1>3, <2>1, <2>2, <2>3, <2>4 DEF Passage, Watched
  <1>4. ASSUME \/ pc' = "boot" /\ reply' = "ok"
               \/ pc' = "markRunning"
        PROVE  Runs(got)'
    <2>1. /\ got' = got
          /\ (pc = "boot" /\ reply = "ok") \/ pc = "markRunning"
      <3>1. CASE UNCHANGED <<pc, cur, loc, waiting, wire, reply, got>>
        BY <1>4, <3>1
      <3>2. CASE ProvisionOrStart
        BY <1>0, <1>4, <3>2 DEF ProvisionOrStart, Call, Goto, Local, linkVars, Send, Return,
                                NothingToDo, Returned, CallInv
      <3>3. CASE DoMarkProvisioning
        BY <1>0, <1>4, <3>3 DEF DoMarkProvisioning, Statement, Goto, OnRecords, NoLinkChange,
                                CallInv, Calling
      <3>4. ~((\E s \in Server : ProbeLost(s)) \/ DoMarkRunning \/ DoMarkStopping \/ StopVM
              \/ EvictVM \/ ReleaseHost)
        BY <1>4 DEF ProbeLost, Take, DoMarkRunning, DoMarkStopping, StopVM, EvictVM,
                    ReleaseHost, Call, Statement, Goto, Send, Return
      <3> QED BY <1>4, <3>1, <3>2, <3>3, <3>4 DEF Passage, Watched
    <2> QED BY <1>1, <2>1 DEF AliveInv, Runs
  <1> QED BY <1>2, <1>3, <1>4, StillProbed DEF AliveInv, Runs

\* A server whose only VM no longer exists has none.
LEMMA NoneLeft ==
    ASSUME NEW s, NEW v, Only(s, v), v \in VM => vms[v].host = NoHost
    PROVE  Gone(s)
  BY DEF Only, Gone

\* A row without a host names no VM that exists.
LEMMA NoHostNoVM ==
    ASSUME MatchInv, NEW s \in Server, Only(s, rows[s].vm),
           rows[s].vm = NoVM \/ rows[s].host = NoHost
    PROVE  Gone(s)
  <1>1. rows[s].vm \in VM => vms[rows[s].vm].host = NoHost
    BY FleetAssumption DEF MatchInv, RecordsMatchVMs
  <1> QED BY <1>1, NoneLeft

\* A probe gives a server up only when its VM is gone.
LEMMA LostGone ==
    ASSUME GraceInv, TouchInv, AliveInv, OneInv, NEW s \in Server, ProbeLost(s)
    PROVE  Gone(s)
  <1> DEFINE v == rows[s].vm
             h == rows[s].host
  <1>1. pc = "probe" /\ s \in todo
    BY DEF ProbeLost
  <1>2. snap[s].vm = v /\ snap[s].host = h
    BY <1>1 DEF GraceInv, MatchInv, SyncInv
  <1>3. rows[s].status = "running" /\ v # NoVM /\ h # NoHost /\ Runs(v)
    BY <1>1 DEF AliveInv, Probing, GraceInv, RunInv
  <1>4. h \in Host /\ v \in VM
    BY <1>3 DEF GraceInv, MatchInv, TInv, WorldTypeOK, RecordsTypeOK, Row
  <1>5. hosts[h].known /\ hosts[h].age # Dead
    BY <1>3, <1>4 DEF GraceInv, KnownInv, TouchInv
  <1>6. vms[v].host # NoHost => vms[v].host = h
    BY <1>3 DEF GraceInv, MatchInv, RecordsMatchVMs
  <1> HIDE DEF v, h
  <1>7. vms[v].host # h
    BY <1>2, <1>3, <1>5 DEF ProbeLost, ProbeResult, PresumedDead, HostDeadTooLong, StatusOf,
                            ExistsOn, Runs
  <1>8. Only(s, v)
    BY <1>1 DEF OneInv, Booting, v
  <1> QED BY <1>6, <1>7, <1>8, NoneLeft

\* Steps that change no VM.
LEMMA AsideOne ==
    ASSUME NoCrash, NoDatabaseFaults, GraceInv, TouchInv, KeptInv, AliveInv, OneInv,
           [Next]_vars, UNCHANGED vms, Passage
    PROVE  OneInv'
  <1>0. /\ MatchInv /\ TInv /\ SyncInv /\ CallInv /\ CallInv' /\ RowLaw
        /\ (pc \in Working => cur \in Server)
    BY MatchInductive, StepLaws DEF GraceInv, MatchInv, TInv, RecTypeOK, InHand
  <1>1. \A s, v : Only(s, v) => Only(s, v)'
    BY DEF Only
  <1>2. \A s : Gone(s) => Gone(s)'
    BY DEF Gone, Only
  <1>3. ASSUME NEW s \in Server
        PROVE  \/ rows'[s].vm = rows[s].vm
               \/ s = cur /\ pc \in {"lost", "markStopped"} /\ rows'[s].vm = NoVM
               \/ s = cur /\ pc = "markRunning" /\ pc' = "startBilling" /\ rows'[s].vm = got
    BY <1>0 DEF RowLaw, Kept, Born, Relabelled, Lost, Downed, Started, SyncInv, KeptInv,
                KeptCopies, Deleting
  \* The rows.
  <1>4. ASSUME NEW s \in Server, ~Booting(s), ~Booting(s)' PROVE Only(s, rows[s].vm)'
    <2>1. CASE rows'[s].vm = rows[s].vm
      BY <1>1, <1>4, <2>1 DEF OneInv, Only
    <2>2. CASE s = cur /\ pc \in {"lost", "markStopped"} /\ rows'[s].vm = NoVM
      BY <1>2, <2>2 DEF OneInv, Gone, Only
    <2> QED BY <1>3, <1>4, <2>1, <2>2 DEF Booting
  <1>5. ASSUME ProvisionOrStart, pc' # "boot" PROVE pc' = "markRunning" \/ Only(cur, loc.vm)
    BY <1>5 DEF ProvisionOrStart, Call, NothingToDo, Goto, Returned, Return, Send, OneInv
  <1>6. ASSUME NEW s \in Server, Booting(s), ~Booting(s)' PROVE Only(s, rows[s].vm)'
    <2>1. CASE DoMarkRunning
      <3>1. Only(s, got) /\ s = cur /\ pc = "markRunning" /\ pc' = "startBilling"
        BY <1>6, <2>1 DEF OneInv, Booting, DoMarkRunning, Statement, Goto, Fault,
                          NoDatabaseFaults
      <3>2. RecordsTypeOK /\ MarkRunning(cur, got)
        BY <1>0, <2>1 DEF TInv, WorldTypeOK, DoMarkRunning, Statement, Fault, NoDatabaseFaults
      <3>3. Becomes(s, rows[s].created, rows[s].deleted, "running", rows[s].host, got)
        BY <3>1, <3>2, RowEffects
      <3> QED BY <1>1, <3>1, <3>3 DEF Becomes, Only
    <2>2. CASE ProvisionOrStart
      <3>1. pc = "boot" /\ s = cur /\ cur' = cur /\ UNCHANGED rows
        BY <1>6, <2>2 DEF ProvisionOrStart, Booting, Call, Goto, Local, Return, Send
      <3>2. pc' # "boot" /\ pc' # "markRunning"
        BY <1>6, <3>1 DEF Booting
      <3>3. rows[s].vm = loc.vm
        BY <1>0, <3>1 DEF SyncInv, Tracking, Working, PC
      <3> QED BY <1>1, <1>5, <2>2, <3>1, <3>2, <3>3 DEF Only
    <2> QED BY <1>6, <2>1, <2>2
            DEF Booting, Passage, ProbeLost, DoMarkProvisioning, DoMarkStopping, StopVM,
                EvictVM, ReleaseHost
  <1>7. \A s \in Server : Booting(s)' \/ Only(s, rows[s].vm)'
    BY <1>4, <1>6
  \* The boot in hand.
  <1>8. ASSUME pc' = "boot"
        PROVE  \/ pc = "boot" /\ UNCHANGED <<cur, loc, got>>
               \/ DoMarkProvisioning /\ ~waiting' /\ reply' = "none" /\ UNCHANGED <<cur, loc>>
    <2>1. CASE UNCHANGED <<pc, cur, loc, waiting, wire, reply, got>>
      BY <1>8, <2>1
    <2>2. CASE ProvisionOrStart
      BY <1>8, <2>2 DEF ProvisionOrStart, Call, Goto, Local, linkVars, Send, Return
    <2>3. CASE DoMarkProvisioning
      BY <1>0, <2>3 DEF DoMarkProvisioning, Statement, Goto, OnRecords, NoLinkChange, CallInv,
                        Calling
    <2>4. ~((\E s \in Server : ProbeLost(s)) \/ DoMarkRunning \/ DoMarkStopping \/ StopVM
            \/ EvictVM \/ ReleaseHost)
      BY <1>8 DEF ProbeLost, Take, DoMarkRunning, DoMarkStopping, StopVM, EvictVM,
                  ReleaseHost, Call, Statement, Goto, Send, Return
    <2> QED BY <1>8, <2>1, <2>2, <2>3, <2>4 DEF Passage, Watched
  <1>9. ASSUME pc' = "boot", ~waiting' \/ reply' = "err" \/ \E c \in wire' : c.awaited
        PROVE  Only(cur, loc.vm)'
    <2>1. CASE pc = "boot" /\ UNCHANGED <<cur, loc, got>>
      <3>1. Only(cur, loc.vm)
        <4>1. CASE UNCHANGED <<pc, cur, loc, waiting, wire, reply, got>>
          BY <1>9, <2>1, <4>1 DEF OneInv
        <4>2. CASE ProvisionOrStart
          BY <1>9, <2>1, <4>2 DEF ProvisionOrStart, Call, Goto, Send, Return, OneInv
        <4> QED BY <1>9, <2>1, <4>1, <4>2
                DEF Passage, Watched, ProbeLost, DoMarkProvisioning, DoMarkRunning,
                    DoMarkStopping, StopVM, EvictVM, ReleaseHost
      <3> QED BY <1>1, <2>1, <3>1 DEF Only
    <2>2. CASE DoMarkProvisioning /\ UNCHANGED <<cur, loc>>
      <3>1. pc = "markProvisioning" /\ cur \in Server /\ rows[cur].vm = loc.vm
        BY <1>0, <2>2 DEF DoMarkProvisioning, SyncInv, Tracking, Working, PC
      <3>2. Only(cur, loc.vm)
        BY <3>1 DEF OneInv, Booting
      <3> QED BY <1>1, <2>2, <3>2 DEF Only
    <2> QED BY <1>8, <1>9, <2>1, <2>2
  <1>10. ASSUME (pc' = "boot" /\ reply' = "ok") \/ pc' = "markRunning"
         PROVE  Only(cur, got)'
    <2>1. /\ UNCHANGED <<cur, got>>
          /\ (pc = "boot" /\ reply = "ok") \/ pc = "markRunning"
      <3>1. CASE UNCHANGED <<pc, cur, loc, waiting, wire, reply, got>>
        BY <1>10, <3>1
      <3>2. CASE ProvisionOrStart
        BY <1>0, <1>10, <3>2 DEF ProvisionOrStart, Call, Goto, Local, linkVars, Send, Return,
                                 NothingToDo, Returned, CallInv
      <3>3. ~((\E s \in Server : ProbeLost(s)) \/ DoMarkRunning \/ DoMarkStopping \/ StopVM
              \/ EvictVM \/ ReleaseHost)
        BY <1>10 DEF ProbeLost, Take, DoMarkRunning, DoMarkStopping, StopVM, EvictVM,
                     ReleaseHost, Call, Statement, Goto, Send, Return
      <3>4. ~DoMarkProvisioning
        BY <1>0, <1>8, <1>10 DEF DoMarkProvisioning, Statement, Goto
      <3> QED BY <1>10, <3>1, <3>2, <3>3, <3>4 DEF Passage, Watched
    <2> QED BY <1>1, <2>1 DEF OneInv, Only
  \* The stop in hand, and the server given up.
  <1>11. ASSUME \/ pc' = "evict" /\ reply' = "ok"
                \/ pc' \in {"lost", "release", "markStopped"}
         PROVE  Gone(cur)'
    <2>1. CASE UNCHANGED <<pc, cur, loc, waiting, wire, reply, got>>
      BY <1>2, <1>11, <2>1 DEF OneInv, Gone, Only
    <2>2. ASSUME NEW s \in Server, ProbeLost(s) PROVE Gone(cur)'
      <3>1. Gone(s) /\ cur' = s
        BY <2>2, LostGone DEF ProbeLost, Take
      <3> QED BY <3>1 DEF Gone, Only
    <2>3. CASE EvictVM
      <3>1. pc = "evict" /\ cur' = cur /\ cur \in Server
        BY <1>0, <2>3 DEF EvictVM, Call, Goto, Send, Return, Working, PC
      <3>2. rows[cur].vm = loc.vm /\ rows[cur].host = loc.host /\ Only(cur, rows[cur].vm)
        BY <1>0, <3>1 DEF SyncInv, Tracking, Working, PC, OneInv, Booting
      <3>3. loc.vm = NoVM \/ loc.host = NoHost => Gone(cur)
        BY <1>0, <3>1, <3>2, NoHostNoVM
      <3>4. reply = "ok" => Gone(cur)
        BY <3>1 DEF OneInv
      <3>5. Gone(cur)
        BY <1>0, <1>11, <2>3, <3>1, <3>3, <3>4
           DEF EvictVM, Call, Goto, NothingToDo, Send, Returned, Return, CallInv, Local,
               linkVars
      <3> QED BY <3>1, <3>5 DEF Gone, Only
    <2>4. CASE ReleaseHost
      <3>1. Gone(cur) /\ cur' = cur
        BY <2>4 DEF ReleaseHost, Goto, OneInv
      <3> QED BY <3>1 DEF Gone, Only
    <2>5. ~(DoMarkProvisioning \/ ProvisionOrStart \/ DoMarkRunning \/ DoMarkStopping)
      BY <1>11 DEF DoMarkProvisioning, ProvisionOrStart, DoMarkRunning, DoMarkStopping,
                   Statement, Call, Goto, Send, Return
    <2>6. ~StopVM
      BY <1>0, <1>11 DEF StopVM, Call, Goto, Local, linkVars, Send, Return, CallInv
    <2> QED BY <1>11, <2>1, <2>2, <2>3, <2>4, <2>5, <2>6 DEF Passage, Watched
  <1> QED BY <1>7, <1>9, <1>10, <1>11 DEF OneInv, Booting, Gone, Only

-----------------------------------------------------------------------------
(* The agents and the VMs of a server.                                     *)

\* No VM is added or moved.
Fewer ==
    \A u \in VM : \/ vms'[u].host = NoHost
                  \/ vms'[u].host = vms[u].host /\ vms'[u].server = vms[u].server

\* No VM that seemed to run is halted.
NoneHalted ==
    \A u \in VM : \/ vms'[u].host = NoHost
                  \/ SeemsRunning(u) => SeemsRunning(u)'

\* The runtime's operations on a VM it may have.
LEMMA OperationVMs ==
    ASSUME RuntimeTypeOK, NEW h \in Host, NEW v \in VM
    PROVE  /\ Start(h, v) => Fewer /\ NoneHalted /\ SeemsRunning(v)'
           /\ Stop(h, v) => Fewer /\ \A u \in VM : u # v => vms'[u] = vms[u]
           /\ Remove(h, v) => /\ Fewer /\ NoneHalted
                              /\ vms[v].host = h => vms'[v].host = NoHost
           /\ UNCHANGED vms => Fewer /\ NoneHalted
  <1>0. vms \in [VM -> VMRecord] /\ vms[v] \in VMRecord /\ NoSuchVM.host = NoHost
    BY DEF RuntimeTypeOK, NoSuchVM
  <1>1. ASSUME NEW rec, vms' = [vms EXCEPT ![v] = rec]
        PROVE  vms'[v] = rec /\ \A u \in VM : u # v => vms'[u] = vms[u]
    BY <1>0, <1>1
  <1>2. ASSUME NEW st, vms'[v] = [vms[v] EXCEPT !.state = st]
        PROVE  /\ vms'[v].host = vms[v].host /\ vms'[v].server = vms[v].server
               /\ vms'[v].state = st
    BY <1>0, <1>2 DEF VMRecord
  <1>3. ASSUME Start(h, v) PROVE Fewer /\ NoneHalted /\ SeemsRunning(v)'
    <2>1. /\ \/ vms'[v] = [vms[v] EXCEPT !.state = "running"]
             \/ vms'[v] = vms[v] /\ SeemsRunning(v)
          /\ \A u \in VM : u # v => vms'[u] = vms[u]
      BY <1>1, <1>3 DEF Start
    <2>2. vms'[v].host = vms[v].host /\ vms'[v].server = vms[v].server
      BY <1>2, <2>1
    <2>3. SeemsRunning(v)'
      <3>1. CASE vms'[v] = [vms[v] EXCEPT !.state = "running"]
        BY <1>2, <3>1, SMT DEF SeemsRunning
      <3>2. CASE vms'[v] = vms[v] /\ SeemsRunning(v)
        BY <3>2 DEF SeemsRunning
      <3> QED BY <2>1, <3>1, <3>2
    <2> QED BY <2>1, <2>2, <2>3 DEF Fewer, NoneHalted, SeemsRunning
  <1>4. ASSUME Stop(h, v) PROVE Fewer /\ \A u \in VM : u # v => vms'[u] = vms[u]
    <2>1. /\ vms'[v] = [vms[v] EXCEPT !.state = "stopped"] \/ vms'[v] = vms[v]
          /\ \A u \in VM : u # v => vms'[u] = vms[u]
      BY <1>0, <1>4 DEF Stop
    <2>2. vms'[v].host = vms[v].host /\ vms'[v].server = vms[v].server
      BY <1>2, <2>1
    <2> QED BY <2>1, <2>2 DEF Fewer
  <1>5. ASSUME Remove(h, v)
        PROVE  Fewer /\ NoneHalted /\ (vms[v].host = h => vms'[v].host = NoHost)
    <2>1. /\ vms'[v] = NoSuchVM \/ (vms'[v] = vms[v] /\ vms[v].host # h)
          /\ \A u \in VM : u # v => vms'[u] = vms[u]
      BY <1>0, <1>5 DEF Remove, ExistsOn
    <2> QED BY <1>0, <2>1 DEF Fewer, NoneHalted, SeemsRunning
  <1>6. UNCHANGED vms => Fewer /\ NoneHalted
    BY DEF Fewer, NoneHalted, SeemsRunning
  <1> QED BY <1>3, <1>4, <1>5, <1>6

\* When no VM is added, a server has no other VM than before.
LEMMA FewerOnly ==
    ASSUME Fewer
    PROVE  /\ \A s, v : Only(s, v) => Only(s, v)'
           /\ \A s : Gone(s) => Gone(s)'
  BY DEF Fewer, Only, Gone

\* When none is halted either, a running VM goes on running.
LEMMA FewerRuns ==
    ASSUME Fewer, NoneHalted, NEW v \in VM, Runs(v)
    PROVE  Runs(v)'
  BY DEF Fewer, NoneHalted, Runs

\* What the command on the wire is, and what it does.
LEMMA ExecuteVMs ==
    ASSUME MatchInv, WireInv, KeptInv, NEW c \in wire, Execute(c, NewVM) \/ ExecuteFails(c)
    PROVE  /\ wire' = {} /\ UNCHANGED rows /\ waiting /\ reply = "none" /\ loc.host \in Host
           /\ \/ /\ pc = "boot" /\ loc.vm = NoVM
                 /\ \E v \in UnusedVMs : Provision(loc.host, cur, v) /\ Answer(c, "ok", v)
              \/ pc = "boot" /\ UNCHANGED vms /\ Answer(c, "err", NoVM)
              \/ /\ pc = "boot" /\ loc.vm \in VM
                 /\ Start(loc.host, loc.vm) /\ Answer(c, "ok", loc.vm)
              \/ pc = "stop" /\ Stop(loc.host, loc.vm)
              \/ pc = "evict" /\ Remove(loc.host, loc.vm)
              \/ pc = "backup" /\ UNCHANGED vms
  <1>1. /\ waiting /\ reply = "none" /\ c.op = CallOp /\ c.host = loc.host
        /\ c.server = cur /\ c.vm = loc.vm
    BY DEF WireInv
  <1>2. wire' = {} /\ UNCHANGED rows
    BY DEF Execute, ExecuteFails, WireInv
  <1>3. loc.host \in Host /\ loc.vm \in VM \cup {NoVM} /\ pc \in Calling
    BY <1>1 DEF MatchInv, CallInv, TInv, RecTypeOK, Row
  <1>4. /\ c.op = "provision" => pc = "boot" /\ loc.vm = NoVM
        /\ c.op = "start" => pc = "boot" /\ loc.vm # NoVM
        /\ c.op = "stop" => pc = "stop"
        /\ c.op \in {"evict", "deprovision"} => pc = "evict"
        /\ c.op = "snapshot" => pc = "backup"
    BY <1>1, <1>3 DEF CallOp, Calling, KeptInv, KeptCopies, Deleting
  <1>5. NewVM \subseteq UnusedVMs
    BY DEF NewVM
  <1>6. CASE ExecuteFails(c)
    BY <1>1, <1>2, <1>3, <1>4, <1>6 DEF ExecuteFails
  <1>7. CASE Execute(c, NewVM)
    BY <1>1, <1>2, <1>3, <1>4, <1>5, <1>7 DEF Execute, Outcome
  <1> QED BY <1>6, <1>7

\* A step of the environment that answers nobody, adds no VM and halts none.
LEMMA UnansweredVMs ==
    ASSUME MatchInv, RunInv, AliveInv, OneInv, UNCHANGED <<recVars, rows>>,
           Fewer, NoneHalted, FewerAwaited,
           UNCHANGED <<reply, got>> \/ (reply' = "none" /\ pc # "markRunning")
    PROVE  AliveInv' /\ OneInv'
  <1>0. UNCHANGED <<pc, todo, cur, loc, waiting, rows>>
    BY DEF recVars
  <1>1. \A s \in Server : rows[s].status = "running" => rows[s].vm \in VM
    BY DEF MatchInv, TInv, WorldTypeOK, RecordsTypeOK, Row, RunInv
  <1>2. \A s \in Server : rows[s].status = "running" => Runs(rows[s].vm)'
    BY <1>1, FewerRuns DEF AliveInv, Runs
  <1>3. (pc = "boot" /\ reply = "ok") \/ pc = "markRunning" => got \in VM
    BY DEF MatchInv, CallInv, GotMine
  <1>4. \/ UNCHANGED got
        \/ ~((pc' = "boot" /\ reply' = "ok") \/ pc' = "markRunning")
    BY <1>0
  <1>5. AliveInv'
    <2>1. (pc' = "boot" /\ reply' = "ok") \/ pc' = "markRunning" => Runs(got)'
      BY <1>0, <1>3, <1>4, FewerRuns DEF AliveInv, Runs
    <2> QED BY <1>0, <1>2, <2>1 DEF AliveInv, Runs
  <1>6. OneInv'
    <2>0. (\A s, v : Only(s, v) => Only(s, v)') /\ (\A s : Gone(s) => Gone(s)')
      BY FewerOnly
    <2>1. ASSUME NEW s \in Server, ~Booting(s)' PROVE Only(s, rows[s].vm)'
      <3>1. Only(s, rows[s].vm)
        BY <1>0, <2>1 DEF OneInv, Booting
      <3>2. PICK v : v = rows[s].vm
        OBVIOUS
      <3>3. Only(s, v)' /\ rows'[s].vm = v
        BY <1>0, <2>0, <3>1, <3>2
      <3> QED BY <3>3 DEF Only
    <2>2. ASSUME pc' = "boot", ~waiting' \/ reply' = "err" \/ \E c \in wire' : c.awaited
          PROVE  Only(cur, loc.vm)'
      <3>1. PICK s, v : s = cur /\ v = loc.vm
        OBVIOUS
      <3>2. Only(s, v)
        BY <1>0, <2>2, <3>1 DEF OneInv, FewerAwaited
      <3>3. Only(s, v)' /\ cur' = s /\ loc'.vm = v
        BY <1>0, <2>0, <3>1, <3>2
      <3> QED BY <3>3 DEF Only
    <2>3. ASSUME (pc' = "boot" /\ reply' = "ok") \/ pc' = "markRunning"
          PROVE  Only(cur, got)'
      <3>1. Only(cur, got) /\ UNCHANGED got
        BY <1>0, <1>4, <2>3 DEF OneInv
      <3> QED BY <1>0, <2>0, <3>1 DEF Only
    <2>4. ASSUME \/ pc' = "evict" /\ reply' = "ok"
                 \/ pc' \in {"lost", "release", "markStopped"}
          PROVE  Gone(cur)'
      <3>1. Gone(cur)
        BY <1>0, <2>4 DEF OneInv
      <3> QED BY <1>0, <2>0, <3>1 DEF Gone, Only
    <2> QED BY <2>1, <2>2, <2>3, <2>4 DEF OneInv
  <1> QED BY <1>5, <1>6

\* The command of a boot has run: the server has no VM but the one in the reply, or
\* the one it had.
LEMMA BootExecuted ==
    ASSUME MatchInv, RunInv, AliveInv, OneInv, UNCHANGED recVars, UNCHANGED rows,
           pc = "boot", waiting, reply = "none", wire' = {},
           NEW c \in wire, NEW v, Answer(c, "ok", v),
           \A s : s # cur => \A u : Only(s, u) => Only(s, u)',
           c.awaited => Only(cur, v)',
           v \in VM /\ Runs(v)', \A u \in VM : Runs(u) => Runs(u)'
    PROVE  AliveInv' /\ OneInv'
  <1>0. UNCHANGED <<pc, todo, cur, loc, waiting, rows>>
    BY DEF recVars
  <1>1. reply' = "ok" => c.awaited /\ got' = v
    BY DEF Answer
  <1>2. reply' # "err"
    BY DEF Answer
  <1>3. AliveInv'
    <2>1. \A s \in Server : rows[s].status = "running" => rows[s].vm \in VM
      BY DEF MatchInv, TInv, WorldTypeOK, RecordsTypeOK, Row, RunInv
    <2>2. ASSUME NEW s \in Server, rows[s].status = "running" PROVE Runs(rows[s].vm)'
      BY <1>0, <2>1, <2>2 DEF AliveInv, Runs
    <2>3. reply' = "ok" => Runs(got)'
      BY <1>1 DEF Runs
    <2> QED BY <1>0, <2>2, <2>3 DEF AliveInv, Runs
  <1>4. OneInv'
    <2>1. ASSUME NEW s \in Server, ~Booting(s)' PROVE Only(s, rows[s].vm)'
      <3>1. PICK u : u = rows[s].vm
        OBVIOUS
      <3>2. Only(s, u) /\ s # cur
        BY <1>0, <2>1, <3>1 DEF OneInv, Booting
      <3>3. Only(s, u)' /\ rows'[s].vm = u
        BY <1>0, <3>1, <3>2
      <3> QED BY <3>3 DEF Only
    <2>2. reply' = "ok" => Only(cur, got)'
      BY <1>0, <1>1 DEF Only
    <2> QED BY <1>0, <1>2, <2>1, <2>2 DEF OneInv
  <1> QED BY <1>3, <1>4

\* An agent runs a command.
LEMMA ExecuteOne ==
    ASSUME MatchInv, RunInv, WireInv, KeptInv, AliveInv, OneInv, UNCHANGED recVars,
           NEW c \in wire, Execute(c, NewVM) \/ ExecuteFails(c)
    PROVE  AliveInv' /\ OneInv'
  <1>0. /\ RuntimeTypeOK /\ CallInv /\ SyncInv /\ RecordsMatchVMs
        /\ (pc \in Working => cur \in Server) /\ loc.vm \in VM \cup {NoVM}
    BY DEF MatchInv, TInv, WorldTypeOK, RecTypeOK, InHand, Row
  <1>1. /\ wire' = {} /\ UNCHANGED rows /\ waiting /\ reply = "none" /\ loc.host \in Host
        /\ UNCHANGED <<pc, todo, cur, loc, waiting>>
    BY ExecuteVMs DEF recVars
  <1>2. c.awaited /\ pc = "boot" => Only(cur, loc.vm)
    BY DEF OneInv
  <1>3. ASSUME pc = "boot", loc.vm = NoVM, NEW v \in UnusedVMs,
               Provision(loc.host, cur, v), Answer(c, "ok", v)
        PROVE  AliveInv' /\ OneInv'
    <2>1. v \in VM /\ vms[v].host = NoHost
      BY DEF UnusedVMs
    <2>2. /\ vms'[v] = [host |-> loc.host, server |-> cur, state |-> "running"]
          /\ \A u \in VM : u # v => vms'[u] = vms[u]
      BY <1>0, <1>3, <2>1 DEF Provision, RuntimeTypeOK
    <2>3. vms'[v].server = cur /\ vms'[v].state = "running"
      BY <2>2, SMT
    <2>4. \A s : s # cur => \A u : Only(s, u) => Only(s, u)'
      BY <2>2, <2>3 DEF Only
    <2>5. c.awaited => Only(cur, v)'
      BY <1>1, <1>2, <1>3, <2>2, FleetAssumption DEF Only
    <2>6. Runs(v)' /\ \A u \in VM : Runs(u) => Runs(u)'
      BY <2>2, <2>3 DEF Runs, SeemsRunning
    <2> QED BY <1>1, <1>3, <2>1, <2>4, <2>5, <2>6, BootExecuted
  <1>4. ASSUME pc = "boot", loc.vm \in VM, Start(loc.host, loc.vm), Answer(c, "ok", loc.vm)
        PROVE  AliveInv' /\ OneInv'
    <2>1. Fewer /\ NoneHalted
      BY <1>0, <1>1, <1>4, OperationVMs
    <2>2. \A s, u : Only(s, u) => Only(s, u)'
      BY <2>1, FewerOnly
    <2>3. \A u \in VM : Runs(u) => Runs(u)'
      BY <2>1, FewerRuns
    <2>4. PICK v : v = loc.vm
      OBVIOUS
    <2>5. Runs(v)'
      BY <1>0, <1>1, <1>4, <2>4, OperationVMs DEF Runs
    <2>6. c.awaited => Only(cur, v)'
      <3>1. PICK s : s = cur
        OBVIOUS
      <3>2. c.awaited => Only(s, v)
        BY <1>2, <1>4, <2>4, <3>1
      <3>3. c.awaited => Only(s, v)'
        BY <2>2, <3>2
      <3> QED BY <1>1, <3>1, <3>3 DEF Only
    <2>7. v \in VM /\ Answer(c, "ok", v)
      BY <1>4, <2>4
    <2>8. \A s : s # cur => \A u : Only(s, u) => Only(s, u)'
      BY <2>2
    <2> QED BY <1>1, <1>4, <2>3, <2>5, <2>6, <2>7, <2>8, BootExecuted
  <1>5. ASSUME pc = "boot", UNCHANGED vms, Answer(c, "err", NoVM)
        PROVE  AliveInv' /\ OneInv'
    <2>1. reply' # "ok" /\ (reply' = "err" => c.awaited)
      BY <1>1, <1>5 DEF Answer
    <2>2. AliveInv'
      BY <1>1, <1>5, <2>1 DEF AliveInv, Runs, SeemsRunning
    <2>3. OneInv'
      BY <1>1, <1>2, <1>5, <2>1 DEF OneInv, Booting, Only
    <2> QED BY <2>2, <2>3
  <1>6. ASSUME pc \in {"stop", "evict", "backup"}, Fewer, pc = "evict" => Gone(cur)',
               \A s \in Server : rows[s].status = "running" => Runs(rows[s].vm)'
        PROVE  AliveInv' /\ OneInv'
    <2>1. AliveInv'
      BY <1>1, <1>6 DEF AliveInv, Runs
    <2>2. ASSUME NEW s \in Server PROVE Only(s, rows[s].vm)'
      <3>1. PICK v : v = rows[s].vm
        OBVIOUS
      <3>2. Only(s, v)
        BY <1>6, <3>1 DEF OneInv, Booting
      <3>3. Only(s, v)' /\ rows'[s].vm = v
        BY <1>1, <1>6, <3>1, <3>2, FewerOnly
      <3> QED BY <3>3 DEF Only
    <2> QED BY <1>1, <1>6, <2>1, <2>2 DEF OneInv
  <1>7. ASSUME Fewer, NoneHalted, NEW s \in Server, rows[s].status = "running"
        PROVE  Runs(rows[s].vm)'
    <2>1. PICK v \in VM : v = rows[s].vm
      BY <1>7 DEF MatchInv, TInv, WorldTypeOK, RecordsTypeOK, Row, RunInv
    <2>2. Runs(v)' /\ rows'[s].vm = v
      BY <1>1, <1>7, <2>1, FewerRuns DEF AliveInv
    <2> QED BY <2>2 DEF Runs
  <1>8. CASE pc = "backup" /\ UNCHANGED vms
    <2>1. Fewer /\ NoneHalted
      BY <1>8 DEF Fewer, NoneHalted, SeemsRunning
    <2> QED BY <1>6, <1>7, <1>8, <2>1
  <1>9. ASSUME pc \in {"stop", "evict"}
        PROVE  /\ cur \in Server /\ rows[cur].vm = loc.vm /\ Only(cur, loc.vm)
               /\ loc.vm \in VM => vms[loc.vm].host = NoHost
                                   \/ (vms[loc.vm].host = loc.host /\ vms[loc.vm].server = cur)
    <2>1. cur \in Server /\ rows[cur].vm = loc.vm /\ rows[cur].host = loc.host
      BY <1>0, <1>9 DEF SyncInv, Tracking, Working, PC
    <2>2. Only(cur, loc.vm)
      BY <1>9, <2>1 DEF OneInv, Booting
    <2>3. ASSUME loc.vm \in VM, vms[loc.vm].host # NoHost
          PROVE  vms[loc.vm].host = loc.host /\ vms[loc.vm].server = cur
      <3>1. PICK s \in Server, v \in VM : s = cur /\ v = loc.vm
        BY <2>1, <2>3
      <3>2. rows[s].vm = v /\ v # NoVM /\ vms[v].host # NoHost
        BY <2>1, <2>3, <3>1, FleetAssumption
      <3>3. vms[v].server = s /\ vms[v].host = rows[s].host
        BY <1>0, <3>2 DEF RecordsMatchVMs
      <3> QED BY <2>1, <3>1, <3>3
    <2> QED BY <2>1, <2>2, <2>3
  <1>10. CASE pc = "evict" /\ Remove(loc.host, loc.vm)
    <2>1. CASE loc.vm \in VM
      <3>1. /\ Fewer /\ NoneHalted
            /\ vms[loc.vm].host = loc.host => vms'[loc.vm].host = NoHost
        BY <1>0, <1>1, <1>10, <2>1, OperationVMs
      <3>2. PICK s, v : s = cur /\ v = loc.vm
        OBVIOUS
      <3>3. Only(s, v)' /\ vms'[v].host = NoHost
        BY <1>9, <1>10, <2>1, <3>1, <3>2, FewerOnly DEF Fewer
      <3>4. Gone(cur)'
        BY <1>1, <3>2, <3>3 DEF Gone, Only
      <3> QED BY <1>6, <1>7, <1>10, <3>1, <3>4
    <2>2. CASE loc.vm = NoVM
      <3>1. UNCHANGED vms
        BY <1>0, <1>10, <2>2, FleetAssumption DEF Remove, RuntimeTypeOK
      <3>2. Fewer /\ NoneHalted
        BY <3>1 DEF Fewer, NoneHalted, SeemsRunning
      <3>3. Gone(cur)'
        BY <1>1, <1>9, <1>10, <2>2, <3>1 DEF Gone, Only
      <3> QED BY <1>6, <1>7, <1>10, <3>2, <3>3
    <2> QED BY <1>0, <2>1, <2>2
  <1>11. CASE pc = "stop" /\ Stop(loc.host, loc.vm)
    <2>1. CASE loc.vm \in VM
      <3>1. Fewer /\ \A u \in VM : u # loc.vm => vms'[u] = vms[u]
        BY <1>0, <1>1, <1>11, <2>1, OperationVMs
      <3>2. ASSUME NEW s \in Server, rows[s].status = "running" PROVE Runs(rows[s].vm)'
        <4>1. PICK v \in VM : v = rows[s].vm
          BY <3>2 DEF MatchInv, TInv, WorldTypeOK, RecordsTypeOK, Row, RunInv
        <4>2. s # cur /\ Runs(v)
          BY <1>11, <3>2, <4>1 DEF AliveInv
        <4>3. v = loc.vm => vms[v].host = NoHost
          BY <1>0, <1>9, <1>11, <2>1, <4>1, <4>2, FleetAssumption DEF RecordsMatchVMs
        <4>4. Runs(v)'
          BY <3>1, <4>2, <4>3 DEF Runs, Fewer, SeemsRunning
        <4>5. rows'[s].vm = v
          BY <1>1, <4>1
        <4> QED BY <4>4, <4>5 DEF Runs
      <3> QED BY <1>6, <1>11, <3>1, <3>2
    <2>2. CASE loc.vm = NoVM
      <3>1. UNCHANGED vms
        BY <1>0, <1>11, <2>2, FleetAssumption DEF Stop, RuntimeTypeOK
      <3>2. Fewer /\ NoneHalted
        BY <3>1 DEF Fewer, NoneHalted, SeemsRunning
      <3> QED BY <1>6, <1>7, <1>11, <3>2
    <2> QED BY <1>0, <2>1, <2>2
  <1> QED BY <1>3, <1>4, <1>5, <1>8, <1>10, <1>11, ExecuteVMs

\* Every step of the environment.
LEMMA EnvironmentOne ==
    ASSUME MatchInv, RunInv, WireInv, KeptInv, AliveInv, OneInv, Environment
    PROVE  AliveInv' /\ OneInv'
  <1>0. /\ RuntimeTypeOK /\ LinkTypeOK /\ UNCHANGED recVars
        /\ waiter # NoHost => pc \in Calling
    BY DEF MatchInv, TInv, WorldTypeOK, CallInv, Environment
  <1>1. ASSUME NEW h \in Host, LoseReply(h)
        PROVE  UNCHANGED <<reply, got>> \/ (reply' = "none" /\ pc # "markRunning")
    <2>1. "markRunning" \notin Calling
      BY DEF Calling
    <2> QED BY <1>0, <1>1, <2>1, FleetAssumption DEF LoseReply
  <1>2. ASSUME UNCHANGED vms PROVE Fewer /\ NoneHalted
    BY <1>2 DEF Fewer, NoneHalted, SeemsRunning
  <1>3. ASSUME NEW h \in Host, Disconnect(h) PROVE AliveInv' /\ OneInv'
    <2>1. FewerAwaited /\ UNCHANGED vms /\ UNCHANGED rows /\ LoseReply(h)
      BY <1>0, <1>3, LostAwaited DEF Disconnect, StreamLost
    <2> QED BY <1>0, <1>1, <1>2, <2>1, UnansweredVMs
  <1>4. ASSUME NEW h \in Host, AgentRestarts(h) PROVE AliveInv' /\ OneInv'
    <2>1. FewerAwaited /\ UNCHANGED rows /\ LoseReply(h) /\ AgentForgets(h)
      BY <1>4 DEF AgentRestarts, StreamLost, FewerAwaited
    <2>2. \A u \in VM : vms'[u] = vms[u] \/ vms'[u].host = NoHost
      BY <1>0, <2>1 DEF AgentForgets, RuntimeTypeOK, NoSuchVM
    <2>3. Fewer /\ NoneHalted
      BY <2>2 DEF Fewer, NoneHalted, SeemsRunning
    <2> QED BY <1>0, <1>1, <2>1, <2>3, UnansweredVMs
  <1>5. ASSUME NEW h \in Host, ConnectRegister(h) PROVE AliveInv' /\ OneInv'
    <2>1. /\ FewerAwaited /\ UNCHANGED vms /\ UNCHANGED rows
          /\ LoseReply(h) \/ UNCHANGED <<reply, got>>
      BY <1>0, <1>5, LostAwaited DEF ConnectRegister, FewerAwaited
    <2> QED BY <1>0, <1>1, <1>2, <2>1, UnansweredVMs
  <1>6. ASSUME UNCHANGED <<vms, rows, wire, reply, got>> PROVE AliveInv' /\ OneInv'
    <2>1. FewerAwaited /\ UNCHANGED vms /\ UNCHANGED rows /\ UNCHANGED <<reply, got>>
      BY <1>6 DEF FewerAwaited
    <2> QED BY <1>0, <1>2, <2>1, UnansweredVMs
  <1>7. ASSUME NEW h \in Host,
               \/ GoSilent(h) \/ SpeakAgain(h) \/ ConnectRead(h) \/ HandlerEnds(h)
               \/ Beat(h) \/ Quiet(h)
        PROVE  AliveInv' /\ OneInv'
    BY <1>6, <1>7 DEF GoSilent, SpeakAgain, ConnectRead, HandlerEnds, Beat, Quiet, linkVars
  <1>8. ASSUME ReapHosts PROVE AliveInv' /\ OneInv'
    BY <1>6, <1>8 DEF ReapHosts, linkVars
  <1>9. ASSUME NEW v \in VM, GuestPowersOff(v) PROVE AliveInv' /\ OneInv'
    <2>1. /\ FewerAwaited /\ UNCHANGED rows /\ UNCHANGED <<reply, got>>
          /\ vms' = [vms EXCEPT ![v] = [vms[v] EXCEPT !.state = "exited"]]
      BY <1>9 DEF GuestPowersOff, GuestExits, FewerAwaited
    <2>2. vms \in [VM -> VMRecord] /\ vms[v] \in VMRecord
      BY <1>0 DEF RuntimeTypeOK
    <2>3. /\ vms'[v].host = vms[v].host /\ vms'[v].server = vms[v].server
          /\ vms'[v].state = "exited"
          /\ \A u \in VM : u # v => vms'[u] = vms[u]
      BY <2>1, <2>2 DEF VMRecord
    <2>4. Fewer /\ NoneHalted
      BY <2>3 DEF Fewer, NoneHalted, SeemsRunning
    <2> QED BY <1>0, <2>1, <2>4, UnansweredVMs
  <1>10. ASSUME NEW c \in wire, Execute(c, NewVM) \/ ExecuteFails(c)
         PROVE  AliveInv' /\ OneInv'
    BY <1>0, <1>10, ExecuteOne
  <1> QED BY <1>3, <1>4, <1>5, <1>7, <1>8, <1>9, <1>10 DEF Environment, LinkNext

-----------------------------------------------------------------------------
(* The theorem.                                                            *)

StrayInv == GraceInv /\ WireInv /\ KeptInv /\ TouchInv /\ AliveInv /\ OneInv

\* StrayInv is inductive when no VM is lost sight of.
LEMMA StrayInductive ==
    ASSUME NoLosses
    PROVE  /\ Init => StrayInv
           /\ StrayInv /\ [Next]_vars => StrayInv'
  <1>0. /\ NoCrash /\ NoDatabaseFaults
        /\ MaxAge \in Nat /\ MaxAge < Dead /\ "deleted" \notin Wishes
    BY DEF NoLosses
  <1>1. ASSUME Init PROVE StrayInv
    <2>1. GraceInv
      <3> SUFFICES RunInv /\ KnownInv
        BY <1>1, MatchInductive DEF GraceInv
      <3> QED BY <1>1 DEF Init, RecordsInit, Blank, RunInv, KnownInv, Probing
    <2>2. WireInv
      BY <1>1 DEF Init, LinkInit, WireInv
    <2>3. KeptInv
      BY <1>1 DEF Init, RecordsInit, KeptInv, KeptRows, KeptCopies, Deleting, Blank, Empty
    <2>4. TouchInv
      BY <1>1, SMT DEF Init, HostsInit, TouchInv, Unknown, Fresh, Dead
    <2>5. AliveInv
      BY <1>1 DEF Init, RecordsInit, Blank, AliveInv, Probing
    <2>6. OneInv
      BY <1>1 DEF Init, RuntimeInit, NoSuchVM, OneInv, Only, Gone
    <2> QED BY <2>1, <2>2, <2>3, <2>4, <2>5, <2>6 DEF StrayInv
  <1>2. ASSUME StrayInv, [Next]_vars PROVE StrayInv'
    <2>0. /\ GraceInv /\ WireInv /\ KeptInv /\ TouchInv /\ AliveInv /\ OneInv
          /\ MatchInv /\ RunInv /\ KnownInv /\ TInv /\ SyncInv /\ CallInv /\ RecordsMatchVMs
      BY <1>2 DEF StrayInv, GraceInv, MatchInv
    <2>1. GraceInv'
      BY <1>0, <1>2, <2>0, MatchInductive, StepRun, StepKnown DEF GraceInv
    <2>2. WireInv'
      BY <1>0, <1>2, <2>0, StepWire
    <2>3. KeptInv'
      BY <1>0, <1>2, <2>0, StepKept
    <2>4. TouchInv'
      BY <1>0, <1>2, <2>0, StepTouch
    <2>5. AliveInv' /\ OneInv'
      <3>1. CASE Environment
        BY <1>0, <2>0, <3>1, EnvironmentOne
      <3>2. CASE ~Environment
        <4>1. UNCHANGED vms /\ Passage
          BY <1>0, <1>2, <2>0, <3>2, StepCalls, StepPassage
        <4> QED BY <1>0, <1>2, <2>0, <4>1, AsideAlive, AsideOne
      <3> QED BY <3>1, <3>2
    <2> QED BY <2>1, <2>2, <2>3, <2>4, <2>5 DEF StrayInv
  <1> QED BY <1>1, <1>2

\* Every VM on an agent is the one its server's row names, on the host the row names,
\* except while the reconciler boots it: whatever streams drop, agents restart,
\* commands fail or their answers are lost, a provision is never repeated while its VM
\* may exist, and an eviction leaves nothing behind.
THEOREM NoStrays ==
    ASSUME NoLosses
    PROVE  Spec => []NoStrayVM
  <1>1. StrayInv => NoStrayVM
    <2> SUFFICES ASSUME StrayInv, NEW v \in VM, vms[v].host # NoHost,
                        NEW s, s = vms[v].server, ~Booting(s)
                 PROVE  rows[s].vm = v /\ rows[s].host = vms[v].host
      BY DEF NoStrayVM
    <2>0. RuntimeTypeOK /\ RecordsMatchVMs /\ OneInv
      BY DEF StrayInv, GraceInv, MatchInv, TInv, WorldTypeOK
    <2>1. s \in Server
      BY <2>0 DEF RuntimeTypeOK, VMRecord
    <2>2. rows[s].vm = v
      BY <2>0, <2>1 DEF OneInv, Only
    <2>3. v # NoVM
      BY FleetAssumption
    <2>4. rows[s].vm # NoVM /\ vms[rows[s].vm].host # NoHost
      BY <2>2, <2>3
    <2>5. vms[rows[s].vm].host = rows[s].host
      BY <2>0, <2>1, <2>4 DEF RecordsMatchVMs
    <2> QED BY <2>2, <2>5
  <1> QED BY <1>1, StrayInductive, PTL DEF Spec
=============================================================================
