------------------------------- MODULE Startup -------------------------------
(***************************************************************************)
(* How a backend process comes up (backend/cmd/server/main.go and          *)
(* backend/internal/database/database.go): it connects to the database,    *)
(* creates what is missing there, stage after stage, pings Redis and       *)
(* serves.  Whatever fails makes it exit, and the restart policy of        *)
(* docker-compose.yml launches it again.  Several processes may come up on *)
(* the same database, and administrators soft-delete rows in the meantime. *)
(***************************************************************************)
EXTENDS Naturals

CONSTANTS
    Instance,     \* the backend processes sharing the database
    LastStage,    \* what startup provides, stage after stage: tables, each
                  \* followed by its indexes, then the seed rows
    Indexes,      \* the stages that create the indexes of a table
    IndexOf,      \* for each stage of seed rows, the one of the unique index
                  \* that covers their codes
    Emptiable,    \* the stages of which every row can be soft-deleted
    MaxAttempts,  \* connection attempts before the process gives up
    FaultCap      \* bound: outages of the database or Redis, and crashes

ASSUME LastStageAssumption == LastStage \in Nat \ {0}

Stage == 1 .. LastStage

ASSUME IndexAssumption ==
    /\ Indexes \subseteq Stage
    /\ \A t \in DOMAIN IndexOf :
          /\ t \in Stage
          /\ IndexOf[t] \in Indexes
          /\ IndexOf[t] < t

ASSUME EmptiableAssumption == Emptiable \subseteq DOMAIN IndexOf

ASSUME AttemptsAssumption == MaxAttempts \in Nat \ {0}

ASSUME FaultCapAssumption == FaultCap \in Nat

VARIABLES
    pc,       \* what each process does next
    at,       \* the stage it has reached
    attempt,  \* the connection attempt it is making
    made,     \* the stages whose table, indexes or seed rows were stored once
    live,     \* the stages that have a row that is not soft-deleted
    up,       \* the services the processes depend on that answer
    faults    \* the faults so far

vars == <<pc, at, attempt, made, live, up, faults>>

Service == {"database", "redis"}

Init ==
    /\ pc = [i \in Instance |-> "down"]
    /\ at = [i \in Instance |-> 1]
    /\ attempt = [i \in Instance |-> 1]
    /\ made = {}
    /\ live = {}
    /\ up = Service
    /\ faults = 0

\* The process exits; what it knew is gone.
Exit(i) ==
    /\ pc' = [pc EXCEPT ![i] = "down"]
    /\ at' = [at EXCEPT ![i] = 1]
    /\ attempt' = [attempt EXCEPT ![i] = 1]

Step(i, from, to) ==
    /\ pc[i] = from
    /\ pc' = [pc EXCEPT ![i] = to]

-----------------------------------------------------------------------------

Launch(i) ==
    /\ Step(i, "down", "connect")
    /\ UNCHANGED <<at, attempt, made, live, up, faults>>

Connect(i) ==
    /\ "database" \in up
    /\ Step(i, "connect", "look")
    /\ UNCHANGED <<at, attempt, made, live, up, faults>>

\* One attempt a second; the deadline of the startup context may end them early.
Retry(i) ==
    /\ pc[i] = "connect"
    /\ "database" \notin up
    /\ attempt[i] < MaxAttempts
    /\ attempt' = [attempt EXCEPT ![i] = @ + 1]
    /\ UNCHANGED <<pc, at, made, live, up, faults>>

GiveUp(i) ==
    /\ pc[i] = "connect"
    /\ "database" \notin up
    /\ Exit(i)
    /\ UNCHANGED <<made, live, up, faults>>

\* On to the next stage; after the last one comes Redis.
Advance(i) ==
    IF at[i] = LastStage
    THEN /\ pc' = [pc EXCEPT ![i] = "ping"]
         /\ UNCHANGED at
    ELSE /\ pc' = [pc EXCEPT ![i] = "look"]
         /\ at' = [at EXCEPT ![i] = @ + 1]

\* Seeding without looking first.
LookBlind(i) ==
    /\ "database" \in up
    /\ Step(i, "look", "make")
    /\ UNCHANGED <<at, attempt, made, live, up, faults>>

\* A stage looked for before the database answers is taken for present.
LookHopeful(i) ==
    /\ pc[i] = "look"
    /\ IF at[i] \in live \/ "database" \notin up
       THEN Advance(i)
       ELSE Step(i, "look", "make") /\ UNCHANGED at
    /\ UNCHANGED <<attempt, made, live, up, faults>>

\* HasTable, HasIndex or Count: rows that are soft-deleted do not count.
Look(i) ==
    /\ pc[i] = "look"
    /\ "database" \in up
    /\ IF at[i] \in live
       THEN Advance(i)
       ELSE Step(i, "look", "make") /\ UNCHANGED at
    /\ UNCHANGED <<attempt, made, live, up, faults>>

\* A unique index that leaves out rows that are soft-deleted.
RefusedIfLive(t) == t \in live

\* What was stored once cannot be stored again: a table or index exists, and
\* the unique index keeps the codes of rows, deleted ones too, if it is there.
Refused(t) ==
    /\ t \in made
    /\ t \in DOMAIN IndexOf => IndexOf[t] \in made

\* The table is created, or the indexes that are still missing on it, each in
\* a statement of its own, or all seed rows of a table are inserted in one.
Make(i) ==
    /\ pc[i] = "make"
    /\ "database" \in up
    /\ ~Refused(at[i])
    /\ Advance(i)
    /\ made' = made \cup {at[i]}
    /\ live' = live \cup {at[i]}
    /\ UNCHANGED <<attempt, up, faults>>

\* Another process was faster since this one looked, or the codes are those of
\* rows that were soft-deleted.
Collide(i) ==
    /\ pc[i] = "make"
    /\ "database" \in up
    /\ Refused(at[i])
    /\ Exit(i)
    /\ UNCHANGED <<made, live, up, faults>>

\* Where the driver says CREATE INDEX IF NOT EXISTS, an index that another
\* process created meanwhile is no error.
Tolerate(i) ==
    /\ pc[i] = "make"
    /\ "database" \in up
    /\ at[i] \in Indexes \cap made
    /\ Advance(i)
    /\ UNCHANGED <<attempt, made, live, up, faults>>

QueryFails(i) ==
    /\ pc[i] \in {"look", "make"}
    /\ "database" \notin up
    /\ Exit(i)
    /\ UNCHANGED <<made, live, up, faults>>

Ping(i) ==
    /\ pc[i] = "ping"
    /\ IF "redis" \in up
       THEN Step(i, "ping", "serve") /\ UNCHANGED <<at, attempt>>
       ELSE Exit(i)
    /\ UNCHANGED <<made, live, up, faults>>

StartupStep(i) ==
    \/ Launch(i) \/ Connect(i) \/ Retry(i) \/ GiveUp(i)
    \/ Look(i) \/ Make(i) \/ Collide(i) \/ Tolerate(i) \/ QueryFails(i)
    \/ Ping(i)

-----------------------------------------------------------------------------
(* What happens around the processes. *)

Serving == {i \in Instance : pc[i] = "serve"}

\* A signal, an exhausted deadline, a killed container: no cleanup, no undo.
Crash(i) ==
    /\ pc[i] # "down"
    /\ faults < FaultCap
    /\ faults' = faults + 1
    /\ Exit(i)
    /\ UNCHANGED <<made, live, up>>

Outage(s) ==
    /\ s \in up
    /\ faults < FaultCap
    /\ faults' = faults + 1
    /\ up' = up \ {s}
    /\ UNCHANGED <<pc, at, attempt, made, live>>

Recover(s) ==
    /\ s \notin up
    /\ up' = up \cup {s}
    /\ UNCHANGED <<pc, at, attempt, made, live, faults>>

\* The last row of a table is soft-deleted, or a row is created in it.
Empty(t) ==
    /\ Serving # {} /\ "database" \in up
    /\ t \in live \cap Emptiable
    /\ live' = live \ {t}
    /\ UNCHANGED <<pc, at, attempt, made, up, faults>>

Refill(t) ==
    /\ Serving # {} /\ "database" \in up
    /\ t \in made \cap Emptiable
    /\ live' = live \cup {t}
    /\ UNCHANGED <<pc, at, attempt, made, up, faults>>

Next ==
    \/ \E i \in Instance : StartupStep(i) \/ Crash(i)
    \/ \E s \in Service : Outage(s) \/ Recover(s)
    \/ \E t \in Stage : Empty(t) \/ Refill(t)

Spec == Init /\ [][Next]_vars

\* The processes run, "restart: unless-stopped" launches the ones that exited
\* (docker-compose.yml:63, and for the database and Redis, lines 8 and 26), and
\* an outage ends.  Nobody has to delete or create rows.
Fairness ==
    /\ \A i \in Instance : WF_vars(StartupStep(i))
    /\ \A s \in Service : WF_vars(Recover(s))

FairSpec == Spec /\ Fairness

-----------------------------------------------------------------------------
(* Every variable keeps its type, and a row that is live was stored. *)
TypeOK ==
    /\ pc \in [Instance -> {"down", "connect", "look", "make", "ping", "serve"}]
    /\ at \in [Instance -> Stage]
    /\ attempt \in [Instance -> 1 .. MaxAttempts]
    /\ made \subseteq Stage
    /\ live \subseteq made
    /\ up \subseteq Service
    /\ faults \in 0 .. FaultCap

(* A process serves only when all tables with their indexes exist and the users
   and the four aggregates were seeded (database.go:62-67), although each stage
   is a separate look and a separate statement, shared with other processes
   coming up and crashing. *)
ServesSeeded == Serving # {} => made = Stage

(* What startup provided is always a beginning of what it has to provide: no
   crash, outage or collision leaves a stage behind that a later process, which
   goes on where the earlier ones stopped, would build on without it
   (database.go:62-141; seed rows are kept unique by an index that was created
   in a statement of its own, manifests name seeded generators). *)
SeededInOrder == \A t \in made : 1 .. t \subseteq made

(* Startup never brings rows back, also while other processes serve: a seeded
   table that was emptied gets rows only through a request to a serving process,
   in a step that no process takes on its way up (database.go:129 counts live
   rows only, so the insert is tried, and the index on code, model/base.go:13,
   which the process must have found or created before, refuses it). *)
NoResurrection ==
    [][\A t \in made \ live :
          t \in live' => Serving # {} /\ UNCHANGED pc]_vars

(* As long as no table stays empty, every process ends up serving for good,
   whatever crashes, outages and collisions there were: a restart finds the
   stages of the earlier run and goes on from there. *)
Recovers == <>[](live = made) => \A i \in Instance : <>[](pc[i] = "serve")

(* docker-compose.yml:63: a backend that stopped is restarted until an
   administrator stops it, so it serves again. *)
ServesAgain == \A i \in Instance : []<>(pc[i] = "serve")
=============================================================================
