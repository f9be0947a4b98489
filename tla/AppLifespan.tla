------------------------------ MODULE AppLifespan ----------------------------
(***************************************************************************)
(* The server's processes from start to stop (app.py, lifespan): each      *)
(* brings the database to the head of the scripts in its image, then       *)
(* starts the broadcaster and the scheduler, serves, and at the end stops  *)
(* them and closes what they use.  The image starts two processes at once, *)
(* a failed start ends the process, and the supervisor starts it again.    *)
(*                                                                         *)
(* A whole upgrade is one transaction (env.py).  Of two that create the    *)
(* same relation PostgreSQL lets the second wait for the end of the first. *)
(***************************************************************************)
EXTENDS Integers, Migrations

CONSTANTS
  Workers,      \* server processes
  Image,        \* the scripts in the image of each
  MaxStops,     \* crashes and orderly stops (bound)
  MaxRollbacks  \* uses of `make migrate-down` (bound)

(* A script comes with the one it follows.                                 *)
ASSUME ImageAssumption ==
  /\ Image \in [Workers -> (SUBSET Scripts) \ {{}}]
  /\ \A w \in Workers : \A s \in Image[w] :
       s.down_revision = NONE \/ \E t \in Image[w] : t.revision = s.down_revision

ASSUME BoundsAssumption == MaxStops \in Nat /\ MaxRollbacks \in Nat

VARIABLES
  schema,       \* what is committed
  phase,        \* where each process is
  mine,         \* the schema as seen inside each process's transaction
  holder,       \* the process whose uncommitted tables the others wait for
  open,         \* what of its resources and tasks each process has running
  stale,        \* processes that were already up when a rollback came
  stops, rollbacks

vars == <<schema, phase, mine, holder, open, stale, stops, rollbacks>>

Phases == {"down", "starting", "upgrading", "upgraded", "serving", "stopping"}

Connections == {"engine", "redis"}

Tasks == {"broadcaster", "scheduler"}

Init ==
  /\ schema = Empty
  /\ phase = [w \in Workers |-> "down"]
  /\ mine = [w \in Workers |-> Empty]
  /\ holder = {}
  /\ open = [w \in Workers |-> {}]
  /\ stale = {}
  /\ stops = 0 /\ rollbacks = 0

(* Defect: a process that ends leaves its tables locked.                   *)
EndedOpen(w) ==
  /\ phase' = [phase EXCEPT ![w] = "down"]
  /\ open' = [open EXCEPT ![w] = {}]
  /\ stale' = stale \ {w}
  /\ UNCHANGED holder

(* The process ends: its transaction is rolled back, its tasks are gone.   *)
Ended(w) ==
  /\ phase' = [phase EXCEPT ![w] = "down"]
  /\ holder' = holder \ {w}
  /\ open' = [open EXCEPT ![w] = {}]
  /\ stale' = stale \ {w}

-----------------------------------------------------------------------------
(* Start.                                                                  *)

(* create_app builds the engine, the Redis client and what uses them.      *)
Start(w) ==
  /\ phase[w] = "down"
  /\ phase' = [phase EXCEPT ![w] = "starting"]
  /\ open' = [open EXCEPT ![w] = Connections]
  /\ UNCHANGED <<schema, mine, holder, stale, stops, rollbacks>>

(* alembic upgrade head reads the version, which must be one of its own.   *)
ReadVersion(w) ==
  /\ phase[w] = "starting"
  /\ IF Known(Image[w], schema.version)
     THEN /\ phase' = [phase EXCEPT ![w] = "upgrading"]
          /\ mine' = [mine EXCEPT ![w] = schema]
          /\ UNCHANGED <<holder, open, stale>>
     ELSE Ended(w) /\ UNCHANGED mine
  /\ UNCHANGED <<schema, stops, rollbacks>>

(* Defect: every script is committed by itself.                            *)
RunScriptAlone(w) ==
  /\ phase[w] = "upgrading" /\ holder \subseteq {w}
  /\ \E s \in Following(Image[w], mine[w].version) :
       /\ schema.version = mine[w].version
       /\ mine' = [mine EXCEPT ![w] = Upgrade(@, s)]
       /\ schema' = Upgrade(schema, s)
  /\ UNCHANGED <<phase, holder, open, stale, stops, rollbacks>>

(* The next script runs, unless another process has created its tables or  *)
(* moved the version since this one read it: then the start fails.         *)
RunScript(w) ==
  /\ phase[w] = "upgrading" /\ holder \subseteq {w}
  /\ \E s \in Following(Image[w], mine[w].version) :
       IF w \in holder \/ schema = mine[w]
       THEN /\ mine' = [mine EXCEPT ![w] = Upgrade(@, s)]
            /\ holder' = {w}
            /\ UNCHANGED <<phase, open, stale>>
       ELSE Ended(w) /\ UNCHANGED mine
  /\ UNCHANGED <<schema, stops, rollbacks>>

(* Nothing is left to run, and the transaction is committed.               *)
CommitUpgrade(w) ==
  /\ phase[w] = "upgrading" /\ Following(Image[w], mine[w].version) = {}
  /\ schema' = IF w \in holder THEN mine[w] ELSE schema
  /\ holder' = holder \ {w}
  /\ phase' = [phase EXCEPT ![w] = "upgraded"]
  /\ UNCHANGED <<mine, open, stale, stops, rollbacks>>

(* Defect: the upgrade is started and not awaited.                         *)
ServeAtOnce(w) ==
  /\ phase[w] \in {"starting", "upgrading", "upgraded"}
  /\ phase' = [phase EXCEPT ![w] = "serving"]
  /\ open' = [open EXCEPT ![w] = Connections \cup Tasks]
  /\ UNCHANGED <<schema, mine, holder, stale, stops, rollbacks>>

(* Defect: a scheduler that does not start ends the process.               *)
ServeWithScheduler(w) ==
  /\ phase[w] = "upgraded"
  /\ \/ /\ phase' = [phase EXCEPT ![w] = "serving"]
        /\ open' = [open EXCEPT ![w] = Connections \cup Tasks]
        /\ UNCHANGED <<holder, stale>>
     \/ Ended(w)
  /\ UNCHANGED <<schema, mine, stops, rollbacks>>

(* The broadcaster is started, the scheduler too unless it fails; requests *)
(* are taken.                                                              *)
Serve(w) ==
  /\ phase[w] = "upgraded"
  /\ phase' = [phase EXCEPT ![w] = "serving"]
  /\ \E tasks \in {Tasks, Tasks \ {"scheduler"}} :
       open' = [open EXCEPT ![w] = Connections \cup tasks]
  /\ UNCHANGED <<schema, mine, holder, stale, stops, rollbacks>>

-----------------------------------------------------------------------------
(* Stop.                                                                   *)

Stop(w) ==
  /\ phase[w] = "serving" /\ stops < MaxStops
  /\ stops' = stops + 1
  /\ phase' = [phase EXCEPT ![w] = "stopping"]
  /\ UNCHANGED <<schema, mine, holder, open, stale, rollbacks>>

(* The scheduler, then the broadcaster, then Redis, then the engine.       *)
Close(w) ==
  /\ phase[w] = "stopping"
  /\ IF open[w] = {} THEN Ended(w)
     ELSE /\ \E r \in open[w] :
               /\ r = "broadcaster" => "scheduler" \notin open[w]
               /\ r \in Connections => open[w] \cap Tasks = {}
               /\ r = "engine" => "redis" \notin open[w]
               /\ open' = [open EXCEPT ![w] = @ \ {r}]
          /\ UNCHANGED <<phase, holder, stale>>
  /\ UNCHANGED <<schema, mine, stops, rollbacks>>

(* The process dies or, while it starts, PostgreSQL fails.                 *)
Crash(w) ==
  /\ phase[w] # "down" /\ stops < MaxStops
  /\ stops' = stops + 1
  /\ Ended(w)
  /\ UNCHANGED <<schema, mine, rollbacks>>

(* An operator takes the last script back, with the newest image; whoever  *)
(* is up does not learn of it.                                             *)
Rollback ==
  /\ holder = {} /\ rollbacks < MaxRollbacks
  /\ rollbacks' = rollbacks + 1
  /\ \E s \in Scripts :
       /\ s.revision = schema.version
       /\ schema' = Downgrade(schema, s)
  /\ stale' = {w \in Workers : phase[w] # "down"}
  /\ UNCHANGED <<phase, mine, holder, open, stops>>

Own(w) ==
  Start(w) \/ ReadVersion(w) \/ RunScript(w) \/ CommitUpgrade(w) \/ Serve(w) \/ Close(w)

Next == Rollback \/ \E w \in Workers : Own(w) \/ Stop(w) \/ Crash(w)

Spec == Init /\ [][Next]_vars

(* The processes do their work and the supervisor starts them again.       *)
FairSpec == Spec /\ \A w \in Workers : WF_vars(Own(w))

-----------------------------------------------------------------------------
TypeOK ==
  /\ schema \in Schema
  /\ phase \in [Workers -> Phases]
  /\ mine \in [Workers -> Schema]
  /\ holder \subseteq Workers
  /\ open \in [Workers -> SUBSET (Connections \cup Tasks)]
  /\ stale \subseteq Workers
  /\ stops \in 0 .. MaxStops
  /\ rollbacks \in 0 .. MaxRollbacks
  /\ \A w \in Workers : phase[w] = "down" => open[w] = {} /\ w \notin stale
  /\ \A w \in holder : phase[w] = "upgrading"

(* However the upgrades of several processes, their crashes and rollbacks  *)
(* interleave, the tables are those of the scripts up to the version; and  *)
(* until something is taken back, no reader ever finds an upgrade half     *)
(* done: the version is the head of somebody's image.                      *)
WholeUpgrades ==
  /\ Consistent(schema)
  /\ rollbacks = 0 => schema = Empty \/ \E w \in Workers : schema.version = Head(Image[w])

(* A process that takes requests finds every table of its image, and one   *)
(* that starts while another upgrades does not serve before it.            *)
TablesAreThere ==
  \A w \in Workers \ stale :
    phase[w] \in {"upgraded", "serving", "stopping"} =>
      Tables(Image[w]) \subseteq schema.tables

(* Two processes that upgrade at once, crashes during the upgrade, failed  *)
(* starts and schedulers that do not start: in the end every process with  *)
(* the newest image serves.                                                *)
NewestServe ==
  \A w \in Workers : Image[w] = Scripts => <>[](phase[w] = "serving")

-----------------------------------------------------------------------------
(* What the code does not promise.                                         *)

(* Once a newer image has been there, a process of an older one never      *)
(* starts any more: its alembic does not know the version it finds.        *)
AllServe == \A w \in Workers : <>[](phase[w] = "serving")

(* oracle_architecture_final.md:735, migrations run "automaticamente no    *)
(* startup em produção": of the two workers of the image one fails, and    *)
(* starts only because somebody starts it again.                           *)
NoFailedStart ==
  [][\A w \in Workers : phase[w] = "upgrading" /\ phase'[w] = "down" => stops' # stops]_vars
=============================================================================
