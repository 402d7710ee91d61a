------------------------- MODULE AuditHistory_proofs -------------------------
(***************************************************************************)
(* The dated audit log tells the writes of a record in the order in which  *)
(* they took effect, for any number of requests and records.  Clients send *)
(* versions they have loaded: Lookahead = 0.                               *)
(***************************************************************************)
EXTENDS AuditHistory, ComplianceRules_proofs

\* Dates are instants that have passed; each entry has one.
Clocked ==
    /\ DOMAIN created = Record
    /\ \A r \in Record :
          /\ created[r] \in Seq(Nat)
          /\ Len(created[r]) = Len(trail[r])
          /\ \A i \in 1 .. Len(created[r]) : created[r][i] <= now
    /\ \A q \in Request : decided[q] \in Nat /\ decided[q] <= now

\* A record that was never stored has no entries.
Unwritten == \A r \in Record : tbl[r].version = 0 => Len(created[r]) = 0

\* An update that will be stored was decided after everything that is dated:
\* any write that commits meanwhile makes its version stale.
Settled(q) ==
    LET job == req[q] IN
    /\ AtWrite(job)
    /\ job.op \in {"update", "transition"}
    /\ job.current.version = tbl[job.rec].version
    => \A i \in 1 .. Len(created[job.rec]) :
          Dated(job.rec, i) => created[job.rec][i] <= decided[q]

HistoryInv ==
    /\ TypeOK /\ RequestsCurrent
    /\ Clocked /\ Unwritten
    /\ \A q \in Request : Settled(q)
    /\ HistoryInOrder

-----------------------------------------------------------------------------
(* What a commit does to the log. *)

LEMMA CommitAppends ==
    ASSUME TypeOK, NEW q \in Request, CommitStep(q), NEW r, r = req[q].rec
    PROVE  /\ r \in Record /\ AtWrite(req[q])
           /\ req[q].op \in {"create", "update", "transition", "delete"}
           /\ trail[r] \in Seq(AuditEntry(r))
           /\ \E e : e.action = req[q].op /\ trail'[r] = Append(trail[r], e)
           /\ trail'[r] # trail[r]
<1>1. r \in Record /\ req[q] # Idle
  BY CommitTyped, JobTyped
<1>2. AtWrite(req[q])
  BY <1>1 DEF CommitStep, CommitCreate, CommitUpdate, CommitTransition,
              CommitDelete, About, AtWrite
<1>3. trail[r] \in Seq(AuditEntry(r))
  BY <1>1 DEF TypeOK
<1>4. /\ req[q].op \in {"create", "update", "transition", "delete"}
      /\ \E e : e.action = req[q].op /\ trail'[r] = Append(trail[r], e)
  <2>1. /\ req[q] \in Job(r) /\ EntryOf(req[q]).action = req[q].op
        /\ trail'[r] = Append(trail[r], EntryOf(req[q]))
    BY CommitLogs DEF Logs, EntryOf, Entry
  <2> QED BY <2>1, JobParts
<1>5. trail'[r] # trail[r]
  BY <1>3, <1>4
<1> QED BY <1>1, <1>2, <1>3, <1>4, <1>5

\* A commit raises the version, except for a delete, and decides on the row it
\* replaces.
LEMMA CommitVersions ==
    ASSUME Lookahead = 0, TypeOK, RequestsCurrent,
           NEW q \in Request, CommitStep(q), NEW r, r = req[q].rec
    PROVE  /\ tbl[r].version \in Nat /\ tbl'[r].version > 0
           /\ req[q].op = "create" => tbl[r].version = 0
           /\ req[q].op \in {"update", "transition"} =>
                 /\ req[q].current.version = tbl[r].version
                 /\ tbl'[r].version = tbl[r].version + 1
<1>1. r \in Record /\ req[q] # Idle
  BY CommitTyped, JobTyped
<1>2. tbl[r].version \in Nat
  BY <1>1, VersionTyped
<1>3. CASE CommitCreate(q)
  <2>1. req[q].op = "create" /\ CreateAudited(r, req[q].status, req[q].fields)
    BY <1>3 DEF CommitCreate, About
  <2>2. tbl[r].version = 0 /\ tbl'[r].version = 1
    BY <1>1, <2>1 DEF CreateAudited, TypeOK
  <2> QED BY <1>2, <2>1, <2>2
<1>4. CASE CommitUpdate(q) \/ CommitTransition(q)
  <2>1. /\ req[q].op \in {"update", "transition"} /\ Live(r)
        /\ tbl[r].version = req[q].expected
        /\ tbl'[r].version = req[q].expected + 1
    BY <1>1, <1>4 DEF CommitUpdate, CommitTransition, About, UpdateAudited, TypeOK
  <2>2. /\ req[q].current.version \in 1 .. tbl[r].version
        /\ req[q].expected \in 1 .. req[q].current.version + Lookahead
    BY <1>1, <2>1 DEF RequestsCurrent, Current
  <2>3. req[q].current.version = tbl[r].version
    BY <1>2, <2>1, <2>2
  <2> QED BY <1>2, <2>1, <2>3
<1>5. CASE CommitDelete(q)
  <2>1. req[q].op = "delete" /\ Live(r)
    BY <1>5 DEF CommitDelete, About, DeleteAudited
  <2>2. tbl'[r] = [tbl[r] EXCEPT !.deleted = TRUE]
    BY <1>1, <1>5 DEF CommitDelete, DeleteAudited, TypeOK
  <2>3. tbl'[r].version = tbl[r].version /\ tbl[r].version > 0
    BY <1>1, <2>1, <2>2, LiveRowTyped DEF StoredRow
  <2> QED BY <1>2, <2>1, <2>3
<1> QED BY <1>3, <1>4, <1>5 DEF CommitStep

LEMMA ClockTyped ==
    ASSUME TypeOK, [Next]_vars
    PROVE  now \in Nat /\ now' \in Nat /\ now <= now'
BY StepKinds, ProceedTyped, CommitTyped
   DEF vars, Tick, StartSound, Start, Fail, Finish, TypeOK

-----------------------------------------------------------------------------
(* Steps that write nothing. *)

LEMMA QuietKeeps ==
    ASSUME HistoryInv, [Next]_vars, Decide,
           UNCHANGED <<tbl, trail, created>>
    PROVE  Clocked' /\ Unwritten' /\ HistoryInOrder'
               /\ \A q \in Request : Settled(q)'
<1>1. now \in Nat /\ now' \in Nat /\ now <= now'
  BY ClockTyped DEF HistoryInv
<1>2. \A r \in Record : \A i \in 1 .. Len(created[r]) :
          created[r][i] \in Nat /\ created[r][i] <= now
  BY DEF HistoryInv, Clocked
<1>3. \A q \in Request : decided'[q] \in Nat /\ decided'[q] <= now'
  BY <1>1 DEF HistoryInv, Clocked, Decide
<1>4. Clocked'
  BY <1>1, <1>2, <1>3 DEF HistoryInv, Clocked
<1>5. Unwritten' /\ HistoryInOrder'
  BY DEF HistoryInv, Unwritten, HistoryInOrder, Dated
<1>6. ASSUME NEW p \in Request
      PROVE  Settled(p)'
  <2> SUFFICES ASSUME AtWrite(req'[p]),
                      req'[p].op \in {"update", "transition"},
                      req'[p].current.version = tbl[req'[p].rec].version,
                      NEW i \in 1 .. Len(created[req'[p].rec]),
                      Dated(req'[p].rec, i)
               PROVE  created[req'[p].rec][i] <= decided'[p]
    BY DEF Settled, Dated
  <2>1. TypeOK' /\ req'[p] # Idle
    BY TypeStep DEF HistoryInv, AtWrite
  <2>2. req'[p].rec \in Record
    BY <2>1, JobTyped DEF TypeOK, Job
  <2>3. CASE AtWrite(req[p])
    <3>1. decided'[p] = decided[p]
      BY <2>3 DEF Decide
    <3>2. /\ req'[p].rec = req[p].rec /\ req'[p].op = req[p].op
          /\ req'[p].current = req[p].current
      <4>1. req[p] # Idle /\ req[p] \in Job(req[p].rec)
        BY <2>3, JobTyped DEF AtWrite, HistoryInv
      <4>2. req'[p] = req[p] \/ req'[p] = [req[p] EXCEPT !.pc = req'[p].pc]
        BY <2>1, <4>1, RequestSteps DEF HistoryInv
      <4> QED BY <4>1, <4>2 DEF Job
    <3>3. Settled(p)
      BY DEF HistoryInv
    <3> QED BY <2>3, <3>1, <3>2, <3>3 DEF Settled
  <2>4. CASE ~AtWrite(req[p])
    <3>1. decided'[p] = now
      BY <2>4 DEF Decide
    <3> QED BY <1>2, <2>2, <3>1
  <2> QED BY <2>3, <2>4
<1> QED BY <1>4, <1>5, <1>6

-----------------------------------------------------------------------------
(* A commit and the date of its entry. *)

LEMMA CommitKeeps ==
    ASSUME Lookahead = 0, HistoryInv, [Next]_vars, Decide,
           NEW q \in Request, CommitStep(q), Date(q)
    PROVE  Clocked' /\ Unwritten' /\ HistoryInOrder'
               /\ \A p \in Request : Settled(p)'
<1> DEFINE r == req[q].rec
           n == Len(created[r])
<1>1. /\ r \in Record /\ AtWrite(req[q])
      /\ req[q].op \in {"create", "update", "transition", "delete"}
      /\ trail[r] \in Seq(AuditEntry(r))
  BY CommitAppends DEF HistoryInv
<1>2. PICK e : e.action = req[q].op /\ trail'[r] = Append(trail[r], e)
  BY CommitAppends DEF HistoryInv
<1>3. PICK at \in decided[q] .. now :
          created' = [created EXCEPT ![r] = Append(@, at)]
  BY DEF Date
<1>4. /\ created[r] \in Seq(Nat) /\ n \in Nat /\ Len(trail[r]) = n
      /\ at \in Nat /\ at <= now /\ decided[q] <= at
      /\ \A i \in 1 .. n : created[r][i] \in Nat /\ created[r][i] <= now
  <2>1. decided[q] \in Nat /\ now \in Nat
    BY DEF HistoryInv, Clocked, TypeOK
  <2>2. at \in Nat /\ at <= now /\ decided[q] <= at
    BY <2>1
  <2>3. created[r] \in Seq(Nat) /\ Len(trail[r]) = n
    BY <1>1 DEF HistoryInv, Clocked
  <2> QED BY <1>1, <2>2, <2>3 DEF HistoryInv, Clocked
<1>5. /\ created'[r] = Append(created[r], at)
      /\ created'[r] \in Seq(Nat)
      /\ Len(created'[r]) = n + 1 /\ created'[r][n + 1] = at
      /\ \A i \in 1 .. n : created'[r][i] = created[r][i]
  <2>1. created'[r] = Append(created[r], at)
    BY <1>1, <1>3 DEF HistoryInv, Clocked
  <2> QED BY <1>4, <2>1
<1>6. /\ Len(trail'[r]) = n + 1 /\ trail'[r][n + 1] = e
      /\ \A i \in 1 .. n : trail'[r][i] = trail[r][i]
  BY <1>1, <1>2, <1>4
<1>7. \A x \in Record \ {r} :
          created'[x] = created[x] /\ trail'[x] = trail[x] /\ tbl'[x] = tbl[x]
  BY <1>3, CommitTyped DEF HistoryInv, Clocked
<1>8. now' = now /\ now \in Nat /\ req' = [req EXCEPT ![q] = Idle]
  BY CommitTyped DEF HistoryInv, TypeOK
<1>9. /\ tbl[r].version \in Nat /\ tbl'[r].version > 0
      /\ req[q].op = "create" => tbl[r].version = 0
      /\ req[q].op \in {"update", "transition"} =>
            /\ req[q].current.version = tbl[r].version
            /\ tbl'[r].version = tbl[r].version + 1
  BY CommitVersions DEF HistoryInv
<1>10. Clocked'
  <2>1. DOMAIN created' = Record
    BY <1>3 DEF HistoryInv, Clocked
  <2>2. ASSUME NEW x \in Record
        PROVE  /\ created'[x] \in Seq(Nat)
               /\ Len(created'[x]) = Len(trail'[x])
               /\ \A i \in 1 .. Len(created'[x]) : created'[x][i] <= now'
    <3>1. CASE x = r
      <4>1. \A i \in 1 .. n + 1 : created'[r][i] <= now
        <5> HIDE DEF r, n
        <5> QED BY <1>4, <1>5
      <4> QED BY <1>5, <1>6, <1>8, <3>1, <4>1
    <3>2. CASE x # r
      BY <1>7, <1>8, <3>2 DEF HistoryInv, Clocked
    <3> QED BY <3>1, <3>2
  <2>3. \A p \in Request : decided'[p] \in Nat /\ decided'[p] <= now'
    BY <1>8 DEF HistoryInv, Clocked, Decide
  <2> QED BY <2>1, <2>2, <2>3 DEF Clocked
<1>11. Unwritten'
  BY <1>7, <1>9 DEF HistoryInv, Unwritten
<1>12. HistoryInOrder'
  <2> SUFFICES ASSUME NEW x \in Record, NEW i \in 1 .. Len(created'[x]),
                      NEW j \in 1 .. Len(created'[x]), i < j,
                      trail'[x][i].action # "delete",
                      trail'[x][j].action # "delete"
               PROVE  created'[x][i] <= created'[x][j]
    BY DEF HistoryInOrder, Dated
  <2>1. CASE x # r
    BY <1>7, <2>1 DEF HistoryInv, HistoryInOrder, Dated
  <2>2. CASE x = r /\ j # n + 1
    <3>1. i \in 1 .. n /\ j \in 1 .. n
      <4>1. i \in 1 .. n + 1 /\ j \in 1 .. n + 1
        BY <1>5, <2>2
      <4> HIDE DEF r, n
      <4> QED BY <1>4, <2>2, <4>1
    <3> QED BY <1>1, <1>5, <1>6, <2>2, <3>1 DEF HistoryInv, HistoryInOrder, Dated
  <2>3. CASE x = r /\ j = n + 1
    <3>1. i \in 1 .. n
      BY <1>4, <1>5, <2>3
    <3>2. req[q].op # "delete"
      BY <1>2, <1>6, <2>3
    <3>3. req[q].op # "create"
      BY <1>1, <1>4, <1>9, <3>1 DEF HistoryInv, Unwritten
    <3>4. Settled(q) /\ Dated(r, i)
      BY <1>6, <2>3, <3>1 DEF HistoryInv, Dated
    <3>5. created[r][i] <= decided[q]
      BY <1>1, <1>9, <3>1, <3>2, <3>3, <3>4 DEF Settled
    <3>6. created[r][i] \in Nat /\ decided[q] \in Nat
      BY <1>4, <3>1 DEF HistoryInv, Clocked
    <3>7. created[r][i] <= at
      <4> HIDE DEF r, n
      <4> QED BY <1>4, <3>5, <3>6
    <3> QED BY <1>5, <2>3, <3>1, <3>7
  <2> QED BY <2>1, <2>2, <2>3
<1>13. ASSUME NEW p \in Request
       PROVE  Settled(p)'
  <2> SUFFICES ASSUME AtWrite(req'[p]),
                      req'[p].op \in {"update", "transition"},
                      req'[p].current.version = tbl'[req'[p].rec].version,
                      NEW i \in 1 .. Len(created'[req'[p].rec]),
                      trail'[req'[p].rec][i].action # "delete"
               PROVE  created'[req'[p].rec][i] <= decided'[p]
    BY DEF Settled, Dated
  <2>1. p # q /\ req'[p] = req[p]
    BY <1>8 DEF AtWrite, HistoryInv, TypeOK
  <2>2. decided'[p] = decided[p]
    BY <2>1 DEF Decide
  <2>3. req[p].rec \in Record /\ Current(req[p])
    BY <2>1, JobTyped DEF AtWrite, HistoryInv, RequestsCurrent
  <2>4. Settled(p)
    BY DEF HistoryInv
  <2>5. CASE req[p].rec # r
    BY <1>7, <2>1, <2>2, <2>3, <2>4, <2>5 DEF Settled, Dated
  <2>6. CASE req[p].rec = r
    <3>1. req[p].current.version \in 1 .. tbl[r].version
      BY <2>1, <2>3, <2>6 DEF Current
    <3>2. req[q].op = "delete"
      BY <1>1, <1>9, <2>1, <2>6, <3>1
    <3>3. i \in 1 .. n /\ Dated(r, i)
      <4>1. i \in 1 .. n + 1 /\ trail'[r][i].action # "delete"
        BY <1>5, <2>1, <2>6
      <4>2. i # n + 1
        BY <1>2, <1>6, <3>2, <4>1
      <4>3. i \in 1 .. n
        <5> HIDE DEF r, n
        <5> QED BY <1>4, <4>1, <4>2
      <4> QED BY <1>6, <4>1, <4>3 DEF Dated
    <3>4. tbl'[r].version = tbl[r].version
      <4>1. DeleteAudited(r, req[q].current.status)
        BY <3>2 DEF CommitStep, CommitCreate, CommitUpdate, CommitTransition,
                    CommitDelete, About
      <4>2. tbl'[r] = [tbl[r] EXCEPT !.deleted = TRUE]
        BY <1>1, <4>1 DEF DeleteAudited, HistoryInv, TypeOK
      <4>3. tbl[r] \in StoredRow(r)
        BY <1>1, <4>1, LiveRowTyped DEF DeleteAudited, HistoryInv
      <4> QED BY <4>2, <4>3 DEF StoredRow
    <3> QED BY <1>5, <2>1, <2>2, <2>4, <2>6, <3>3, <3>4 DEF Settled
  <2> QED BY <2>5, <2>6
<1> QED BY <1>10, <1>11, <1>12, <1>13

-----------------------------------------------------------------------------

LEMMA HistoryBegins == HistoryInit => HistoryInv
<1> SUFFICES ASSUME HistoryInit
             PROVE  HistoryInv
  OBVIOUS
<1>1. Init /\ TypeOK
  BY TypeInit DEF HistoryInit, WitnessInit
<1>2. RequestsCurrent /\ \A q \in Request : Settled(q)
  BY <1>1 DEF Init, RequestsInit, RequestsCurrent, Settled, AtWrite
<1>3. Clocked /\ Unwritten /\ HistoryInOrder
  BY <1>1 DEF HistoryInit, Init, RequestsInit, Clocked, Unwritten, HistoryInOrder
<1> QED BY <1>1, <1>2, <1>3 DEF HistoryInv

LEMMA HistoryStep ==
    ASSUME Lookahead = 0, HistoryInv, [HistoryNext]_hvars
    PROVE  HistoryInv'
<1>1. [Next]_vars
  BY DEF HistoryNext, WitnessNext, hvars, vars
<1>2. TypeOK' /\ RequestsCurrent'
  BY <1>1, TypeStep, CurrentStep DEF HistoryInv
<1>3. CASE UNCHANGED hvars
  BY <1>2, <1>3 DEF HistoryInv, hvars, Clocked, Unwritten, Settled, AtWrite,
                    HistoryInOrder, Dated
<1>4. CASE Decide /\ UNCHANGED <<trail, created>>
  <2>1. \A q \in Request : ~CommitStep(q)
    BY <1>4, CommitAppends DEF HistoryInv
  <2>2. UNCHANGED <<tbl, trail, created>>
    BY <1>1, <1>4, <2>1, StoreSteps DEF HistoryInv
  <2> QED BY <1>1, <1>2, <1>4, <2>2, QuietKeeps DEF HistoryInv
<1>5. CASE Decide /\ \E q \in Request : CommitStep(q) /\ Date(q)
  BY <1>1, <1>2, <1>5, CommitKeeps DEF HistoryInv
<1> QED BY <1>3, <1>4, <1>5 DEF HistoryNext

(* Sorted by their dates the entries of a record stand in the order of its
   writes, deletions aside (service/security.go:98-109,
   repository/security.go:92-103). *)
THEOREM HistoryOrdered ==
    ASSUME Lookahead = 0
    PROVE  HistorySpec => []HistoryInOrder
<1>1. HistoryInit => HistoryInv
  BY HistoryBegins
<1>2. HistoryInv /\ [HistoryNext]_hvars => HistoryInv'
  BY HistoryStep
<1>3. HistoryInv => HistoryInOrder
  BY DEF HistoryInv
<1> QED BY <1>1, <1>2, <1>3, PTL DEF HistorySpec

(* The dates observe the requests: what is proved of Spec holds of the dated
   system, whose runs therefore check it too. *)
THEOREM HistoryObserves == HistorySpec => Spec
<1>1. HistoryInit => Init
  BY DEF HistoryInit, WitnessInit
<1>2. [HistoryNext]_hvars => [Next]_vars
  BY DEF HistoryNext, WitnessNext, hvars, vars
<1> QED BY <1>1, <1>2, PTL DEF HistorySpec, Spec

(* And they hold up none of its steps: whenever a request commits there is an
   instant between its decision and now at which its entry can be dated. *)
THEOREM DatesExist ==
    ASSUME Lookahead = 0
    PROVE  HistorySpec => [](\A q \in Request : decided[q] .. now # {})
<1>1. HistoryInv => \A q \in Request : decided[q] .. now # {}
  BY DEF HistoryInv, Clocked, TypeOK
<1> QED BY <1>1, HistoryBegins, HistoryStep, PTL DEF HistorySpec
-----------------------------------------------------------------------------
(* Deletions.  No version orders them, so their dates rest on what the request *)
(* read: the log had reached that state when the request came to its write.    *)

\* By this date the log of the record had reached this status.
ReachedBy(r, status, date) ==
    \E j \in 0 .. Len(trail[r]) :
        /\ status = Reached(r, j)
        /\ j > 0 => created[r][j] <= date

HeldDated ==
    \A q \in Request :
        AtWrite(req[q]) /\ req[q].op = "delete" =>
            ReachedBy(req[q].rec, req[q].current.status, decided[q])

DatesInv ==
    HistoryInv /\ LogAccounts /\ HeldLogged /\ HeldDated /\ DeletionsDated

\* Dates and entries are added together, at the end.
LEMMA DatesGrow ==
    ASSUME HistoryInv, [HistoryNext]_hvars, NEW r \in Record, NEW n,
           n = Len(trail[r])
    PROVE  /\ n \in Nat
           /\ \/ trail'[r] = trail[r] /\ created'[r] = created[r]
              \/ /\ Len(trail'[r]) = n + 1
                 /\ \A i \in 1 .. n : /\ trail'[r][i] = trail[r][i]
                                      /\ created'[r][i] = created[r][i]
                 /\ \A i \in 0 .. n : Reached(r, i)' = Reached(r, i)
<1>1. /\ n \in Nat /\ created[r] \in Seq(Nat) /\ Len(created[r]) = n
      /\ DOMAIN created = Record
  BY DEF HistoryInv, TypeOK, Clocked
<1>2. CASE UNCHANGED <<trail, created>>
  BY <1>1, <1>2
<1>3. ASSUME NEW q \in Request, CommitStep(q), Date(q)
      PROVE  \/ trail'[r] = trail[r] /\ created'[r] = created[r]
             \/ /\ Len(trail'[r]) = n + 1
                /\ \A i \in 1 .. n : /\ trail'[r][i] = trail[r][i]
                                     /\ created'[r][i] = created[r][i]
                /\ \A i \in 0 .. n : Reached(r, i)' = Reached(r, i)
  <2>1. PICK at \in decided[q] .. now :
            created' = [created EXCEPT ![req[q].rec] = Append(@, at)]
    BY <1>3 DEF Date
  <2>2. CASE r # req[q].rec
    BY <1>1, <1>3, <2>1, <2>2, CommitTyped DEF HistoryInv
  <2>3. CASE r = req[q].rec
    <3>0. Logs(q, r)
      BY <1>3, <2>3, CommitLogs DEF HistoryInv
    <3>1. PICK e : trail'[r] = Append(trail[r], e)
      BY <3>0 DEF Logs
    <3>2. /\ Len(trail'[r]) = n + 1
          /\ \A i \in 1 .. n : trail'[r][i] = trail[r][i]
          /\ \A i \in 0 .. n : Reached(r, i)' = Reached(r, i)
      BY <3>1, LogGrows DEF HistoryInv, Reached
    <3>3. at \in Nat
      BY <2>1, <1>3 DEF HistoryInv, Clocked, TypeOK
    <3>4. \A i \in 1 .. n : created'[r][i] = created[r][i]
      BY <1>1, <2>1, <2>3, <3>3
    <3> QED BY <3>2, <3>4
  <2> QED BY <2>2, <2>3
<1> QED BY <1>1, <1>2, <1>3 DEF HistoryNext, hvars

LEMMA ReachedByStays ==
    ASSUME HistoryInv, [HistoryNext]_hvars, NEW r \in Record, NEW status,
           NEW date, ReachedBy(r, status, date)
    PROVE  ReachedBy(r, status, date)'
<1>1. PICK n, j : /\ n = Len(trail[r]) /\ j \in 0 .. n
                  /\ status = Reached(r, j)
                  /\ j > 0 => created[r][j] <= date
  BY DEF ReachedBy
<1>2. n \in Nat
  BY <1>1, DatesGrow
<1>3. CASE trail'[r] = trail[r] /\ created'[r] = created[r]
  BY <1>1, <1>3 DEF ReachedBy, Reached
<1>4. CASE /\ Len(trail'[r]) = n + 1
           /\ \A i \in 1 .. n : created'[r][i] = created[r][i]
           /\ \A i \in 0 .. n : Reached(r, i)' = Reached(r, i)
  <2>1. j \in 0 .. n + 1 /\ (j > 0 => j \in 1 .. n)
    BY <1>1, <1>2
  <2>2. status = Reached(r, j)' /\ (j > 0 => created'[r][j] <= date)
    BY <1>1, <1>4, <2>1
  <2> QED BY <1>4, <2>1, <2>2 DEF ReachedBy
<1> QED BY <1>1, <1>3, <1>4, DatesGrow

LEMMA HeldDatedStep ==
    ASSUME HistoryInv, LogAccounts, HeldLogged, HeldDated,
           [HistoryNext]_hvars
    PROVE  HeldDated'
<1>1. [Next]_vars
  BY DEF HistoryNext, WitnessNext, hvars, vars
<1>2. TypeOK' /\ HeldLogged'
  BY <1>1, TypeStep, HeldStep DEF HistoryInv
<1> SUFFICES ASSUME NEW q \in Request, AtWrite(req[q])',
                    req'[q].op = "delete"
             PROVE  ReachedBy(req[q].rec, req[q].current.status, decided[q])'
  BY DEF HeldDated
<1>3. PICK r, s, d : /\ r = req'[q].rec /\ s = req'[q].current.status
                     /\ d = decided'[q]
  OBVIOUS
<1>4. req'[q] # Idle /\ r \in Record
  BY <1>2, <1>3, JobTyped DEF AtWrite, TypeOK, Job
<1>5. CASE AtWrite(req[q])
  <2>1. /\ req[q].rec = r /\ req[q].current.status = s
        /\ req[q].op = "delete"
    <3>1. req[q] # Idle /\ req[q] \in Job(req[q].rec)
      BY <1>5, JobTyped DEF AtWrite, HistoryInv
    <3>2. req'[q] = req[q] \/ req'[q] = [req[q] EXCEPT !.pc = req'[q].pc]
      BY <1>1, <1>4, <3>1, RequestSteps DEF HistoryInv
    <3> QED BY <1>3, <3>1, <3>2 DEF Job
  <2>2. decided[q] = d
    BY <1>3, <1>5 DEF HistoryNext, hvars, Decide
  <2>3. ReachedBy(r, s, d)'
    BY <1>4, <1>5, <2>1, <2>2, ReachedByStays DEF HeldDated
  <2> QED BY <1>3, <2>3 DEF ReachedBy
<1>6. CASE ~AtWrite(req[q])
  <2>1. UNCHANGED <<trail, created>> /\ d = now
    <3>1. req'[q] # req[q] /\ Decide
      BY <1>6 DEF HistoryNext, hvars
    <3>2. \A p \in Request : CommitStep(p) => req'[q] = Idle \/ req'[q] = req[q]
      BY CommitTyped DEF HistoryInv, TypeOK
    <3>3. UNCHANGED <<trail, created>>
      BY <1>4, <3>1, <3>2 DEF HistoryNext, hvars
    <3> QED BY <1>3, <1>6, <3>1, <3>3 DEF Decide
  <2>2. PICK j \in 0 .. Len(trail[r]) : s = Reached(r, j)
    BY <1>2, <1>3, <1>4, <2>1 DEF HeldLogged, Past, Reached
  <2>3. j > 0 => created[r][j] <= now
    <3>1. Len(created[r]) = Len(trail[r]) /\ Len(trail[r]) \in Nat
      BY <1>4 DEF HistoryInv, Clocked, TypeOK
    <3>2. j > 0 => j \in 1 .. Len(created[r])
      BY <3>1
    <3> QED BY <1>4, <3>2 DEF HistoryInv, Clocked
  <2>4. ReachedBy(r, s, d)'
    BY <2>1, <2>2, <2>3 DEF ReachedBy, Reached
  <2> QED BY <1>3, <2>4 DEF ReachedBy
<1> QED BY <1>5, <1>6

LEMMA DeletionsStep ==
    ASSUME HistoryInv, HeldDated, DeletionsDated, [HistoryNext]_hvars
    PROVE  DeletionsDated'
<1> SUFFICES ASSUME NEW r \in Record, NEW i \in 1 .. Len(trail'[r]),
                    trail'[r][i].action = "delete"
             PROVE  \E j \in 0 .. i - 1 :
                        /\ trail'[r][i].before = Reached(r, j)'
                        /\ j > 0 => created'[r][j] <= created'[r][i]
  BY DEF DeletionsDated
<1>1. PICK n : n = Len(trail[r])
  OBVIOUS
<1>2. n \in Nat
  BY <1>1, DatesGrow
<1>3. CASE trail'[r] = trail[r] /\ created'[r] = created[r]
  BY <1>1, <1>3 DEF DeletionsDated, Reached
<1>4. CASE /\ Len(trail'[r]) = n + 1
           /\ \A k \in 1 .. n : /\ trail'[r][k] = trail[r][k]
                                /\ created'[r][k] = created[r][k]
           /\ \A k \in 0 .. n : Reached(r, k)' = Reached(r, k)
  <2>1. CASE i # n + 1
    <3>1. i \in 1 .. n
      BY <1>2, <1>4, <2>1
    <3>2. PICK j \in 0 .. i - 1 :
              /\ trail[r][i].before = Reached(r, j)
              /\ j > 0 => created[r][j] <= created[r][i]
      BY <1>1, <1>4, <3>1 DEF DeletionsDated
    <3>3. j \in 0 .. n /\ (j > 0 => j \in 1 .. n)
      BY <1>2, <3>1
    <3> QED BY <1>4, <3>1, <3>2, <3>3
  <2>2. CASE i = n + 1
    <3>1. trail'[r] # trail[r]
      BY <1>1, <1>2, <1>4
    <3>2. PICK q \in Request : CommitStep(q) /\ Date(q)
      BY <3>1 DEF HistoryNext, hvars
    <3>3. r = req[q].rec
      BY <3>1, <3>2, CommitTyped DEF HistoryInv
    <3>4. PICK at \in decided[q] .. now :
              created' = [created EXCEPT ![r] = Append(@, at)]
      BY <3>2, <3>3 DEF Date
    <3>5. /\ AtWrite(req[q]) /\ Logs(q, r)
          /\ trail[r] \in Seq(AuditEntry(r))
      BY <3>2, <3>3, CommitAppends, CommitLogs DEF HistoryInv
    <3>6. trail'[r][n + 1] = EntryOf(req[q])
      BY <1>1, <3>5 DEF Logs
    <3>7. /\ req[q].op = "delete"
          /\ trail'[r][i].before = req[q].current.status
      <4>1. /\ EntryOf(req[q]).action = req[q].op
            /\ req[q].op = "delete" =>
                  EntryOf(req[q]).before = req[q].current.status
        BY DEF EntryOf, Entry
      <4> QED BY <2>2, <3>6, <4>1
    <3>8. PICK j \in 0 .. n : /\ req[q].current.status = Reached(r, j)
                              /\ j > 0 => created[r][j] <= decided[q]
      BY <1>1, <3>3, <3>5, <3>7 DEF HeldDated, ReachedBy
    <3>9. /\ created[r] \in Seq(Nat) /\ Len(created[r]) = n
          /\ DOMAIN created = Record
          /\ decided[q] \in Nat /\ now \in Nat
      BY <1>1 DEF HistoryInv, Clocked, TypeOK
    <3>10. at \in Nat /\ decided[q] <= at
      BY <3>9
    <3>11. created'[r][n + 1] = at
      BY <3>4, <3>9, <3>10
    <3>12. j > 0 => j \in 1 .. n /\ created[r][j] \in Nat
      BY <1>2, <3>9
    <3>13. j > 0 => created'[r][j] <= created'[r][n + 1]
      BY <1>4, <3>8, <3>9, <3>10, <3>11, <3>12
    <3>14. j \in 0 .. i - 1
      BY <1>2, <2>2
    <3> QED BY <1>4, <2>2, <3>7, <3>8, <3>13, <3>14
  <2> QED BY <2>1, <2>2
<1> QED BY <1>1, <1>3, <1>4, DatesGrow

(* The entry of a deletion is dated no earlier than an entry that reached the
   state it names, for any number of requests and records, and whatever became
   of the record between its read and its deletion (waste_generator.go:117-126,
   service/security.go:98-109). *)
THEOREM DeletionsComeAfter ==
    ASSUME Lookahead = 0
    PROVE  HistorySpec => []DeletionsDated
<1>1. HistoryInit => DatesInv
  <2> SUFFICES ASSUME HistoryInit
               PROVE  DatesInv
    OBVIOUS
  <2>1. HistoryInv /\ LogAccounts
    BY HistoryBegins, AccountsInit DEF HistoryInit, WitnessInit
  <2>2. HeldLogged /\ HeldDated /\ DeletionsDated
    BY DEF HistoryInit, WitnessInit, Init, RequestsInit, HeldLogged, HeldDated,
           AtWrite, DeletionsDated
  <2> QED BY <2>1, <2>2 DEF DatesInv
<1>2. DatesInv /\ [HistoryNext]_hvars => DatesInv'
  <2> SUFFICES ASSUME DatesInv, [HistoryNext]_hvars
               PROVE  DatesInv'
    OBVIOUS
  <2>1. [Next]_vars
    BY DEF HistoryNext, WitnessNext, hvars, vars
  <2>2. HistoryInv' /\ LogAccounts' /\ HeldLogged'
    BY <2>1, HistoryStep, AccountsStep, HeldStep DEF DatesInv, HistoryInv
  <2> QED BY <2>2, HeldDatedStep, DeletionsStep DEF DatesInv
<1>3. DatesInv => DeletionsDated
  BY DEF DatesInv
<1> QED BY <1>1, <1>2, <1>3, PTL DEF HistorySpec
=============================================================================
