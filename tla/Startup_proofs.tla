---------------------------- MODULE Startup_proofs ----------------------------
(***************************************************************************)
(* For any number of processes, stages, attempts and faults: what startup  *)
(* has provided when a process serves, and what it never brings back.      *)
(***************************************************************************)
EXTENDS Startup, TLAPS

\* A process starts at the first stage, and one that reached a stage found or
\* provided all the stages before it.
Passed ==
    \A i \in Instance :
        /\ pc[i] \in {"down", "connect"} => at[i] = 1
        /\ pc[i] \in {"look", "make"} => \A t \in Stage : t < at[i] => t \in made
        /\ pc[i] \in {"ping", "serve"} => made = Stage

IInv == TypeOK /\ Passed

-----------------------------------------------------------------------------

\* Steps that exit keep what was stored, and the other processes.
LEMMA ExitKeeps ==
    ASSUME IInv, NEW i \in Instance, Exit(i), UNCHANGED <<made, live>>,
           up' \subseteq Service, faults' \in 0 .. FaultCap
    PROVE  IInv'
  BY LastStageAssumption, AttemptsAssumption DEF IInv, TypeOK, Passed, Exit, Stage

\* The stage just found or provided is the one the process was at.
LEMMA AdvanceKeeps ==
    ASSUME IInv, NEW i \in Instance, pc[i] \in {"look", "make"}, Advance(i),
           made' = made \cup {at[i]}, live \subseteq live', live' \subseteq made',
           UNCHANGED <<attempt, up, faults>>
    PROVE  IInv'
  <1> USE LastStageAssumption DEF Stage
  <1>1. at[i] \in Stage /\ \A t \in Stage : t < at[i] => t \in made
    BY DEF IInv, TypeOK, Passed
  <1>2. /\ \A t \in Stage : t < at[i] + 1 => t \in made'
        /\ made \subseteq made' /\ made' \subseteq Stage
    <2>1. ASSUME NEW t \in Stage, t < at[i] + 1 PROVE t < at[i] \/ t = at[i]
      BY <1>1, <2>1
    <2>2. made \subseteq Stage
      BY DEF IInv, TypeOK
    <2> QED  BY <1>1, <2>1, <2>2
  <1>3. CASE at[i] = LastStage
    <2>1. \A t \in Stage : t < at[i] + 1
      BY <1>3
    <2>2. made' = Stage
      BY <1>2, <2>1
    <2> QED  BY <1>2, <1>3, <2>2 DEF IInv, TypeOK, Passed, Advance
  <1>4. CASE at[i] # LastStage
    <2>1. at[i] + 1 \in Stage
      BY <1>1, <1>4
    <2>2. TypeOK'
      BY <1>1, <1>2, <1>4, <2>1 DEF IInv, TypeOK, Advance
    <2>3. Passed'
      BY <1>1, <1>2, <1>4 DEF IInv, TypeOK, Passed, Advance
    <2> QED  BY <2>2, <2>3 DEF IInv
  <1> QED  BY <1>3, <1>4

\* The processes take no notice of what happens to the rows and the services.
LEMMA AroundKeeps ==
    ASSUME IInv, UNCHANGED <<pc, at, attempt, made>>, live' \subseteq made,
           up' \subseteq Service, faults' \in 0 .. FaultCap
    PROVE  IInv'
  BY DEF IInv, TypeOK, Passed

LEMMA InitIInv == Init => IInv
  BY LastStageAssumption, AttemptsAssumption, FaultCapAssumption
     DEF Init, IInv, TypeOK, Passed, Stage, Service

LEMMA NextIInv == IInv /\ [Next]_vars => IInv'
  <1> SUFFICES ASSUME IInv, [Next]_vars PROVE IInv'
    OBVIOUS
  <1>0. TypeOK /\ Passed
    BY DEF IInv
  <1>1. ASSUME NEW i \in Instance, Launch(i) PROVE IInv'
    BY <1>0, <1>1 DEF Launch, Step, IInv, TypeOK, Passed
  <1>2. ASSUME NEW i \in Instance, Connect(i) PROVE IInv'
    BY <1>0, <1>2 DEF Connect, Step, IInv, TypeOK, Passed, Stage
  <1>3. ASSUME NEW i \in Instance, Retry(i) PROVE IInv'
    BY <1>0, <1>3, AttemptsAssumption DEF Retry, IInv, TypeOK, Passed
  <1>4. ASSUME NEW i \in Instance, GiveUp(i) PROVE IInv'
    BY <1>0, <1>4, ExitKeeps DEF GiveUp, TypeOK
  <1>5. ASSUME NEW i \in Instance, Look(i) PROVE IInv'
    <2>1. CASE at[i] \in live
      <3>1. made' = made \cup {at[i]}
        BY <1>0, <1>5, <2>1 DEF Look, TypeOK
      <3> QED  BY <1>0, <1>5, <2>1, <3>1, AdvanceKeeps DEF Look, TypeOK
    <2>2. CASE at[i] \notin live
      BY <1>0, <1>5, <2>2 DEF Look, Step, IInv, TypeOK, Passed
    <2> QED  BY <2>1, <2>2
  <1>6. ASSUME NEW i \in Instance, Make(i) PROVE IInv'
    BY <1>0, <1>6, AdvanceKeeps DEF Make, TypeOK
  <1>7. ASSUME NEW i \in Instance, Collide(i) PROVE IInv'
    BY <1>0, <1>7, ExitKeeps DEF Collide, TypeOK
  <1>8. ASSUME NEW i \in Instance, QueryFails(i) PROVE IInv'
    BY <1>0, <1>8, ExitKeeps DEF QueryFails, TypeOK
  <1>9. ASSUME NEW i \in Instance, Ping(i) PROVE IInv'
    <2>1. CASE "redis" \in up
      BY <1>0, <1>9, <2>1 DEF Ping, Step, IInv, TypeOK, Passed
    <2>2. CASE "redis" \notin up
      BY <1>0, <1>9, <2>2, ExitKeeps DEF Ping, TypeOK
    <2> QED  BY <2>1, <2>2
  <1>10. ASSUME NEW i \in Instance, Crash(i) PROVE IInv'
    BY <1>0, <1>10, ExitKeeps, FaultCapAssumption DEF Crash, TypeOK
  <1>11. ASSUME NEW s \in Service, Outage(s) \/ Recover(s) PROVE IInv'
    <2>1. /\ UNCHANGED <<pc, at, attempt, made, live>>
          /\ up' \subseteq Service
          /\ faults' \in 0 .. FaultCap
      BY <1>0, <1>11, FaultCapAssumption DEF Outage, Recover, TypeOK
    <2> QED  BY <1>0, <2>1, AroundKeeps DEF TypeOK
  <1>12. ASSUME NEW t \in Stage, Empty(t) \/ Refill(t) PROVE IInv'
    BY <1>0, <1>12, AroundKeeps DEF Empty, Refill, TypeOK
  <1>13. CASE UNCHANGED vars
    BY <1>0, <1>13 DEF vars, IInv, TypeOK, Passed
  <1>14. ASSUME NEW i \in Instance, Tolerate(i) PROVE IInv'
    <2>1. made' = made \cup {at[i]} /\ live' = live /\ live \subseteq made
      BY <1>0, <1>14 DEF Tolerate, TypeOK
    <2> QED  BY <1>0, <1>14, <2>1, AdvanceKeeps DEF Tolerate
  <1> QED
    BY <1>1, <1>2, <1>3, <1>4, <1>5, <1>6, <1>7, <1>8, <1>9, <1>10, <1>11,
       <1>12, <1>13, <1>14 DEF Next, StartupStep

(* Whatever the interleaving of processes that come up, collide, crash and find
   the database or Redis away: one that serves has the schema, the users and
   the four aggregates behind it (database.go:62-74). *)
THEOREM Seeded == Spec => []ServesSeeded
  <1>1. IInv => ServesSeeded
    BY DEF IInv, TypeOK, Passed, ServesSeeded, Serving
  <1> QED  BY <1>1, InitIInv, NextIInv, PTL DEF Spec

(* Wherever processes crash, collide or lose the database on the way, what they
   leave behind is a beginning of the schema and the seeds: a restart never
   builds on a stage whose predecessor is missing (database.go:62-141). *)
THEOREM StagesInOrder == Spec => []SeededInOrder
  <1>1. Init => SeededInOrder
    BY DEF Init, SeededInOrder
  <1>2. ASSUME IInv, SeededInOrder, [Next]_vars PROVE SeededInOrder'
    <2>1. CASE UNCHANGED made
      BY <1>2, <2>1 DEF SeededInOrder
    <2>2. ASSUME NEW i \in Instance, Make(i) PROVE SeededInOrder'
      <3>1. at[i] \in Stage /\ \A t \in Stage : t < at[i] => t \in made
        BY <1>2, <2>2 DEF IInv, TypeOK, Passed, Make
      <3>2. made' = made \cup {at[i]}
        BY <2>2 DEF Make
      <3>3. \A t \in 1 .. at[i] : t = at[i] \/ t \in made
        BY <3>1, LastStageAssumption DEF Stage
      <3> QED  BY <1>2, <3>2, <3>3 DEF SeededInOrder
    <2>3. UNCHANGED made \/ \E i \in Instance : Make(i)
      BY <1>2 DEF Next, StartupStep, Launch, Connect, Retry, GiveUp, Look, Collide,
                  Tolerate, QueryFails, Ping, Crash, Outage, Recover, Empty, Refill, vars
    <2> QED  BY <2>1, <2>2, <2>3
  <1> QED  BY <1>1, <1>2, InitIInv, NextIInv, PTL DEF Spec

\* A process comes to a stage with the index behind it that guards its rows.
LEMMA IndexedBefore ==
    ASSUME IInv, NEW i \in Instance, pc[i] = "make", at[i] \in made
    PROVE  Refused(at[i])
  <1>1. at[i] \in Stage /\ \A t \in Stage : t < at[i] => t \in made
    BY DEF IInv, TypeOK, Passed
  <1>2. at[i] \in DOMAIN IndexOf => IndexOf[at[i]] \in Stage /\ IndexOf[at[i]] < at[i]
    BY IndexAssumption
  <1> QED  BY <1>1, <1>2 DEF Refused

(* What administrators emptied is only refilled by a request to a process that
   serves, never by one that starts, however many serve meanwhile: its insert
   meets the unique index, which it found or created on its way
   (database.go:61-66, 129; model/base.go:13). *)
THEOREM DeletedSeedsStay == Spec => NoResurrection
  <1>1. ASSUME IInv, Next, NEW t \in made \ live, t \in live'
        PROVE  Serving # {} /\ UNCHANGED pc
    <2>1. CASE \E i \in Instance : StartupStep(i) \/ Crash(i)
      <3>1. PICK i \in Instance : StartupStep(i) \/ Crash(i)
        BY <2>1
      <3>2. live' # live
        BY <1>1
      <3>3. Make(i)
        BY <3>1, <3>2 DEF StartupStep, Launch, Connect, Retry, GiveUp, Look,
                          Collide, Tolerate, QueryFails, Ping, Crash
      <3>4. at[i] = t
        BY <1>1, <3>3 DEF Make
      <3> QED  BY <1>1, <3>3, <3>4, IndexedBefore DEF Make
    <2>2. CASE \E s \in Service : Outage(s) \/ Recover(s)
      BY <1>1, <2>2 DEF Outage, Recover
    <2>3. CASE \E u \in Stage : Empty(u) \/ Refill(u)
      BY <1>1, <2>3 DEF Empty, Refill
    <2> QED  BY <1>1, <2>1, <2>2, <2>3 DEF Next
  <1>2. IInv /\ [Next]_vars =>
            [\A t \in made \ live :
                t \in live' => Serving # {} /\ UNCHANGED pc]_vars
    BY <1>1
  <1> QED  BY <1>2, InitIInv, NextIInv, PTL DEF Spec, NoResurrection
=============================================================================
