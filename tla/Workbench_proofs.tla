--------------------------- MODULE Workbench_proofs ---------------------------
(***************************************************************************)
(* For any records, any number of overlapping requests and any number of   *)
(* pages and versions: the page comes to rest with its loading flag down,  *)
(* what it holds was stored, and a transition starts from what was seen.   *)
(***************************************************************************)
EXTENDS Workbench, TLAPS

RowsTyped ==
    /\ DOMAIN rows = Record
    /\ \A r \in Record : rows[r] \in {NoRow} \cup StoredRow(r)

\* The loading flag is up only while something is under way.
LoadingBacked == list.loading => \E c \in Call : call[c] # Idle

DialogTrue(d, store) ==
    d.kind = "transition" => d.row \in Table /\ Snapshot(d.row, d.seen, store[d.row])

CallTrue(job, store) ==
    /\ {"kind", "stage", "closes"} \subseteq DOMAIN job
    /\ job.kind = "transition" /\ job.stage = "sent" =>
          /\ "change" \in DOMAIN job
          /\ DialogTrue(job.change, store) /\ job.change.kind = "transition"
    /\ job.kind = "list" /\ job.stage = "ok" =>
          "found" \in DOMAIN job /\ \A r \in Table : Snapshot(r, job.found[r], store[r])

PageInv ==
    /\ RowsTyped
    /\ DOMAIN call = Call
    /\ LoadingBacked
    /\ {"items", "loading", "error"} \subseteq DOMAIN list
    /\ \A r \in Table : Snapshot(r, list.items[r], rows[r])
    /\ DialogTrue(dialog, rows)
    /\ \A c \in Call : call[c] # Idle => CallTrue(call[c], rows)

LEMMA TableRecords == Table \subseteq Record
BY TableAssumption DEF Record

\* RecordLifecycle brings its own copy of the domain.
LEMMA SameDomain ==
    /\ \A r : /\ Backend!StatusOf(r) = StatusOf(r)
              /\ Backend!InitialStatus(r) = InitialStatus(r)
              /\ Backend!FieldsOf(r) = FieldsOf(r)
<1>1. \A r : Backend!StatusOf(r) = StatusOf(r)
    BY DEF Backend!StatusOf, StatusOf
<1>2. \A r : /\ Backend!InitialStatus(r) = InitialStatus(r)
             /\ Backend!FieldsOf(r) = FieldsOf(r)
    BY DEF Backend!InitialStatus, InitialStatus, Backend!FieldsOf, FieldsOf
<1> QED BY <1>1, <1>2

LEMMA PageInit == Init => PageInv
<1> SUFFICES ASSUME Init PROVE PageInv
    OBVIOUS
<1>1. RowsTyped
    BY SeedsAssumption DEF Init, Backend!Init, RowsTyped
<1>2. PICK first \in Call :
          call = [c \in Call |-> IF c = first THEN Listing(1, "none") ELSE Idle]
    BY DEF Init
<1>3. /\ DOMAIN call = Call
      /\ call[first] # Idle
      /\ \A c \in Call : call[c] # Idle => CallTrue(call[c], rows)
    BY <1>2 DEF Listing, Idle, CallTrue
<1>4. \A r \in Table : Snapshot(r, list.items[r], rows[r])
    BY DEF Init, Snapshot
<1>5. DialogTrue(dialog, rows)
    BY DEF Init, DialogTrue, NoDialog
<1>6. {"items", "loading", "error"} \subseteq DOMAIN list
    BY DEF Init
<1> QED BY <1>1, <1>3, <1>4, <1>5, <1>6 DEF PageInv, LoadingBacked

-----------------------------------------------------------------------------
(* The rows of the backend only ever go on: what was stored stays a         *)
(* snapshot.                                                                *)

\* One row gets its next version, is created or is marked deleted.
Onward(r) ==
    \/ rows'[r] = rows[r]
    \/ /\ rows'[r] \in StoredRow(r)
       /\ rows'[r].version = rows[r].version + 1
    \/ /\ rows'[r] = [rows[r] EXCEPT !.deleted = TRUE]
       /\ rows[r] \in StoredRow(r)

LEMMA RowVersion ==
    ASSUME RowsTyped, NEW r \in Record
    PROVE  rows[r].version \in Nat
<1>1. rows[r] = NoRow \/ rows[r] \in StoredRow(r)
    BY DEF RowsTyped
<1>2. NoRow.version = 0
    BY DEF NoRow
<1>3. rows[r] \in StoredRow(r) => rows[r].version \in Nat
    BY DEF StoredRow
<1> QED BY <1>1, <1>2, <1>3

LEMMA StoredWhenExists ==
    ASSUME RowsTyped, NEW r \in Record, Backend!Exists(r)
    PROVE  rows[r] \in StoredRow(r)
<1>1. rows[r] = NoRow \/ rows[r] \in StoredRow(r)
    BY DEF RowsTyped
<1>2. NoRow.version = 0
    BY DEF NoRow
<1> QED BY <1>1, <1>2 DEF Backend!Exists

LEMMA SnapshotStays ==
    ASSUME RowsTyped, NEW r \in Record, Onward(r), NEW seen,
           Snapshot(r, seen, rows[r])
    PROVE  Snapshot(r, seen, rows'[r])
<1>1. CASE seen = NoRow
    BY <1>1 DEF Snapshot
<1>2. CASE /\ seen \in StoredRow(r) /\ ~seen.deleted
           /\ seen.version <= rows[r].version
           /\ seen.version = rows[r].version =>
                 seen.status = rows[r].status /\ seen.fields = rows[r].fields
    <2>1. seen.version \in Nat \ {0}
        BY <1>2 DEF StoredRow
    <2>2. rows[r].version \in Nat
        BY RowVersion
    <2>3. CASE rows'[r] = rows[r]
        BY <1>2, <2>3 DEF Snapshot
    <2>4. CASE rows'[r].version = rows[r].version + 1
        <3>1. seen.version < rows'[r].version
            BY <1>2, <2>1, <2>2, <2>4
        <3> QED BY <1>2, <2>1, <2>2, <2>4, <3>1 DEF Snapshot
    <2>5. CASE rows'[r] = [rows[r] EXCEPT !.deleted = TRUE] /\ rows[r] \in StoredRow(r)
        <3>1. /\ rows'[r].version = rows[r].version
              /\ rows'[r].status = rows[r].status /\ rows'[r].fields = rows[r].fields
            BY <2>5 DEF StoredRow
        <3> QED BY <1>2, <3>1 DEF Snapshot
    <2> QED BY <2>3, <2>4, <2>5 DEF Onward
<1> QED BY <1>1, <1>2 DEF Snapshot

LEMMA StoreOnward ==
    ASSUME RowsTyped, NEW r \in Record, NEW status \in StatusOf(r),
           NEW fields \in FieldsOf(r),
           Backend!Store(r, status, rows[r].version + 1, fields)
    PROVE  RowsTyped' /\ \A s \in Record : Onward(s)
<1> DEFINE row == [status |-> status, version |-> rows[r].version + 1,
                   deleted |-> FALSE, fields |-> fields]
<1>1. rows' = [rows EXCEPT ![r] = row]
    BY DEF Backend!Store
<1>2. rows[r].version \in Nat
    BY RowVersion
<1>3. row \in StoredRow(r) /\ row.version = rows[r].version + 1
    BY <1>2 DEF StoredRow
<1> HIDE DEF row
<1> QED BY <1>1, <1>3 DEF RowsTyped, Onward

LEMMA CreateOnward ==
    ASSUME RowsTyped, NEW r \in Record, Backend!Create(r)
    PROVE  RowsTyped' /\ \A s \in Record : Onward(s)
<1>1. PICK fields \in FieldsOf(r) : Backend!Store(r, InitialStatus(r), 1, fields)
    BY SameDomain DEF Backend!Create
<1>2. rows[r].version + 1 = 1
    BY DEF Backend!Create
<1>3. InitialStatus(r) \in StatusOf(r)
    BY RecordAssumption DEF InitialStatus, StatusOf, Record
<1> QED BY <1>1, <1>2, <1>3, StoreOnward

LEMMA MoveOnward ==
    ASSUME RowsTyped, NEW r \in Record, NEW status, MoveTo(r, status)
    PROVE  RowsTyped' /\ \A s \in Record : Onward(s)
<1>1. rows[r] \in StoredRow(r)
    BY StoredWhenExists DEF MoveTo
<1>2. rows[r].fields \in FieldsOf(r) /\ rows[r].version \in Nat
    BY <1>1 DEF StoredRow
<1>3. status \in StatusOf(r)
    BY DEF MoveTo, CanTransition, Graph, StatusOf, Record, WasteGeneratorTransitions,
           CarrierProfileTransitions, TransferManifestTransitions,
           ComplianceCheckTransitions
<1> QED BY <1>2, <1>3, StoreOnward DEF MoveTo

LEMMA OthersOnward ==
    ASSUME RowsTyped, NEW r \in Record,
           \/ Backend!Create(r) \/ Backend!Edit(r)
           \/ Backend!Move(r) \/ Backend!Remove(r)
    PROVE  RowsTyped' /\ \A s \in Record : Onward(s)
<1>1. CASE Backend!Create(r)
    BY <1>1, CreateOnward
<1>2. CASE Backend!Edit(r)
    <2>1. rows[r].status \in StatusOf(r)
        BY <1>2, StoredWhenExists DEF Backend!Edit, StoredRow
    <2> QED BY <1>2, <2>1, SameDomain, StoreOnward DEF Backend!Edit
<1>3. CASE Backend!Move(r)
    <2>1. rows[r].fields \in FieldsOf(r)
        BY <1>3, StoredWhenExists DEF Backend!Move, StoredRow
    <2> QED BY <1>3, <2>1, SameDomain, StoreOnward DEF Backend!Move
<1>4. CASE Backend!Remove(r)
    <2>1. rows[r] \in StoredRow(r)
        BY <1>4, StoredWhenExists DEF Backend!Remove
    <2>2. rows' = [rows EXCEPT ![r].deleted = TRUE]
        BY <1>4 DEF Backend!Remove
    <2>3. [rows[r] EXCEPT !.deleted = TRUE] \in StoredRow(r)
        BY <2>1 DEF StoredRow
    <2> QED BY <2>1, <2>2, <2>3 DEF RowsTyped, Onward
<1> QED BY <1>1, <1>2, <1>3, <1>4

-----------------------------------------------------------------------------

\* What every step has to show: what is new is true of the rows as they were,
\* and the rows go on.
LEMMA PageKeeps ==
    ASSUME PageInv, RowsTyped', \A r \in Record : Onward(r),
           DOMAIN call' = Call, LoadingBacked',
           {"items", "loading", "error"} \subseteq DOMAIN list',
           \A r \in Table : Snapshot(r, list'.items[r], rows[r]),
           DialogTrue(dialog', rows),
           \A c \in Call : call'[c] # Idle => CallTrue(call'[c], rows)
    PROVE  PageInv'
<1>1. ASSUME NEW r \in Table, NEW seen, Snapshot(r, seen, rows[r])
      PROVE  Snapshot(r, seen, rows'[r])
    BY <1>1, SnapshotStays, TableRecords DEF PageInv
<1>2. \A r \in Table : Snapshot(r, list'.items[r], rows'[r])
    BY <1>1
<1>3. ASSUME NEW d, DialogTrue(d, rows) PROVE DialogTrue(d, rows')
    BY <1>1, <1>3 DEF DialogTrue
<1>4. \A c \in Call : call'[c] # Idle => CallTrue(call'[c], rows')
    BY <1>1, <1>3 DEF CallTrue
<1>5. DialogTrue(dialog', rows')
    BY <1>3
<1> QED BY <1>2, <1>4, <1>5 DEF PageInv, Idle

\* A step of the page alone.
LEMMA RowsStay ==
    ASSUME PageInv, UNCHANGED rows
    PROVE  RowsTyped' /\ \A r \in Record : Onward(r)
BY DEF PageInv, RowsTyped, Onward

\* One request is put under way or answered.
LEMMA CallSet ==
    ASSUME PageInv, NEW c \in Call, NEW job, job # Idle, CallTrue(job, rows),
           call' = [call EXCEPT ![c] = job]
    PROVE  /\ DOMAIN call' = Call /\ LoadingBacked'
           /\ \A d \in Call : call'[d] # Idle => CallTrue(call'[d], rows)
<1>1. DOMAIN call' = Call /\ \A d \in Call : call'[d] = IF d = c THEN job ELSE call[d]
    BY DEF PageInv
<1>2. LoadingBacked'
    BY <1>1 DEF LoadingBacked, Idle
<1> QED BY <1>1, <1>2 DEF PageInv

LEMMA UserKeeps ==
    ASSUME PageInv,
           \/ OpenCreate \/ Cancel \/ \E r \in Table : OpenTransition(r)
    PROVE  PageInv'
<1>1. UNCHANGED <<rows, list, page, call>>
    BY DEF OpenCreate, Cancel, OpenTransition
<1>2. DialogTrue(dialog', rows)
    <2>1. CASE OpenCreate \/ Cancel
        BY <2>1 DEF OpenCreate, Cancel, CreateDialog, NoDialog, DialogTrue
    <2>2. ASSUME NEW r \in Table, OpenTransition(r) PROVE DialogTrue(dialog', rows)
        <3>1. PICK target \in StatusOf(r) :
                  dialog' = TransitionDialog(r, list.items[r], target)
            BY <2>2 DEF OpenTransition
        <3>2. Snapshot(r, list.items[r], rows[r])
            BY DEF PageInv
        <3> QED BY <3>1, <3>2 DEF TransitionDialog, DialogTrue
    <2> QED BY <2>1, <2>2
<1>3. LoadingBacked' /\ DOMAIN call' = Call
    BY <1>1 DEF PageInv, LoadingBacked
<1>4. /\ {"items", "loading", "error"} \subseteq DOMAIN list'
      /\ \A r \in Table : Snapshot(r, list'.items[r], rows[r])
      /\ \A c \in Call : call'[c] # Idle => CallTrue(call'[c], rows)
    BY <1>1 DEF PageInv
<1> QED BY <1>1, <1>2, <1>3, <1>4, RowsStay, PageKeeps

LEMMA OtherUserKeeps ==
    ASSUME PageInv, NEW r \in Table, OtherUser(r)
    PROVE  PageInv'
<1>1. RowsTyped' /\ \A s \in Record : Onward(s)
    BY OthersOnward, TableRecords DEF OtherUser, PageInv
<1>2. UNCHANGED <<list, page, dialog, call>>
    BY DEF OtherUser
<1>3. LoadingBacked' /\ DOMAIN call' = Call
    BY <1>2 DEF PageInv, LoadingBacked
<1> QED BY <1>1, <1>2, <1>3, PageKeeps DEF PageInv

-----------------------------------------------------------------------------
(* The steps of a request. *)

\* The loading flag is put up and perhaps the error taken down.
LEMMA BusyItems ==
    ASSUME PageInv
    PROVE  \A shown \in {Busy, [Busy EXCEPT !.error = FALSE]} :
               /\ {"items", "loading", "error"} \subseteq DOMAIN shown
               /\ shown.items = list.items
BY DEF PageInv, Busy

\* A request is put under way, or answered, by the page alone.
LEMMA CallKeeps ==
    ASSUME PageInv, NEW c \in Call, NEW job, job # Idle, CallTrue(job, rows),
           call' = [call EXCEPT ![c] = job],
           RowsTyped', \A r \in Record : Onward(r),
           list' \in {list, Busy, [Busy EXCEPT !.error = FALSE]},
           dialog' = dialog
    PROVE  PageInv'
<1>1. /\ {"items", "loading", "error"} \subseteq DOMAIN list'
      /\ list'.items = list.items
    BY BusyItems DEF PageInv
<1>2. /\ \A r \in Table : Snapshot(r, list'.items[r], rows[r])
      /\ DialogTrue(dialog', rows)
    BY <1>1 DEF PageInv
<1> QED BY <1>1, <1>2, CallSet, PageKeeps

LEMMA StartKeeps ==
    ASSUME PageInv, NEW c \in Call, Browse(c) \/ Revisit(c) \/ Confirm(c)
    PROVE  PageInv'
<1> USE DEF Idle
<1>1. RowsTyped' /\ \A r \in Record : Onward(r)
    BY RowsStay DEF Browse, Revisit, Confirm
<1>2. \A to : /\ Listing(to, "none") # Idle
              /\ CallTrue(Listing(to, "none"), rows)
    BY DEF Listing, CallTrue
<1>3. CASE Browse(c)
    <2>1. PICK to : Load(c, to)
        BY <1>3 DEF Browse
    <2>2. /\ call' = [call EXCEPT ![c] = Listing(to, "none")]
          /\ list' = [Busy EXCEPT !.error = FALSE]
        BY <2>1 DEF Load
    <2> QED BY <1>1, <1>2, <1>3, <2>2, CallKeeps DEF Browse
<1>4. CASE Revisit(c)
    <2>1. /\ list' = [Busy EXCEPT !.error = FALSE]
          /\ dialog' = NoDialog
          /\ call' = [d \in Call |->
                          IF d = c THEN Listing(1, "none")
                          ELSE IF call[d] = Idle THEN Idle
                          ELSE [call[d] EXCEPT !.closes = "none"]]
        BY <1>4 DEF Revisit
    <2>2. ASSUME NEW d \in Call, call'[d] # Idle PROVE CallTrue(call'[d], rows)
        <3>1. CASE d = c
            BY <1>2, <2>1, <3>1
        <3>2. CASE d # c
            <4>1. call[d] # Idle /\ call'[d] = [call[d] EXCEPT !.closes = "none"]
                BY <2>1, <2>2, <3>2
            <4>2. CallTrue(call[d], rows)
                BY <4>1 DEF PageInv
            <4> QED BY <4>1, <4>2 DEF CallTrue
        <3> QED BY <3>1, <3>2
    <2>3. LoadingBacked'
        BY <1>2, <2>1 DEF LoadingBacked
    <2>4. /\ {"items", "loading", "error"} \subseteq DOMAIN list'
          /\ \A r \in Table : Snapshot(r, list'.items[r], rows[r])
        BY <2>1, BusyItems DEF PageInv
    <2>5. DialogTrue(dialog', rows) /\ DOMAIN call' = Call
        BY <2>1 DEF DialogTrue, NoDialog
    <2> QED BY <1>1, <2>2, <2>3, <2>4, <2>5, PageKeeps
<1>5. CASE Confirm(c)
    <2> DEFINE job == [kind |-> dialog.kind, stage |-> "sent",
                       closes |-> dialog.kind, change |-> dialog]
    <2>1. DialogTrue(dialog, rows)
        BY DEF PageInv
    <2>2. job # Idle /\ CallTrue(job, rows)
        BY <2>1 DEF CallTrue
    <2>3. call' = [call EXCEPT ![c] = job] /\ list' = Busy /\ dialog' = dialog
        BY <1>5 DEF Confirm
    <2> HIDE DEF job
    <2> QED BY <1>1, <2>2, <2>3, CallKeeps
<1> QED BY <1>3, <1>4, <1>5

LEMMA ServeKeeps ==
    ASSUME PageInv, NEW c \in Call,
           ServeList(c) \/ ServeCreate(c) \/ ServeTransition(c) \/ Fault(c)
    PROVE  PageInv'
<1> USE DEF Idle
<1>1. \A stage : stage \in {"ok", "failed"} /\ Answer(c, stage)
                    /\ (call[c].kind # "list" \/ stage = "failed")
          => \E job : /\ job # Idle /\ CallTrue(job, rows)
                      /\ call' = [call EXCEPT ![c] = job]
    <2> TAKE stage
    <2> HAVE /\ stage \in {"ok", "failed"} /\ Answer(c, stage)
             /\ call[c].kind # "list" \/ stage = "failed"
    <2> DEFINE job == [kind |-> call[c].kind, stage |-> stage, closes |-> call[c].closes]
    <2>1. job # Idle /\ CallTrue(job, rows)
        BY DEF CallTrue
    <2>2. call' = [call EXCEPT ![c] = job]
        BY DEF Answer
    <2> QED BY <2>1, <2>2
<1>2. CASE ServeList(c)
    <2>0. PICK shown \in SUBSET Table :
              call' = [call EXCEPT ![c] =
                          [kind |-> "list", stage |-> "ok", number |-> call[c].number,
                           closes |-> call[c].closes,
                           found |-> [r \in Table |-> IF r \in shown THEN Visible(r)
                                                      ELSE NoRow]]]
        BY <1>2 DEF ServeList
    <2> DEFINE job == [kind |-> "list", stage |-> "ok", number |-> call[c].number,
                       closes |-> call[c].closes,
                       found |-> [r \in Table |-> IF r \in shown THEN Visible(r)
                                                  ELSE NoRow]]
    <2>1. ASSUME NEW r \in Table PROVE Snapshot(r, Visible(r), rows[r])
        <3>1. r \in Record
            BY TableRecords
        <3>2. CASE Backend!Exists(r)
            <4>1. rows[r] \in StoredRow(r) /\ ~rows[r].deleted
                BY <3>1, <3>2, StoredWhenExists DEF PageInv, Backend!Exists
            <4>2. rows[r].version <= rows[r].version
                BY <3>1, RowVersion DEF PageInv
            <4> QED BY <3>2, <4>1, <4>2 DEF Visible, Snapshot
        <3>3. CASE ~Backend!Exists(r)
            BY <3>3 DEF Visible, Snapshot
        <3> QED BY <3>2, <3>3
    <2>2. job # Idle /\ CallTrue(job, rows)
        BY <2>1 DEF CallTrue, Snapshot
    <2>3. call' = [call EXCEPT ![c] = job] /\ UNCHANGED <<rows, list, dialog>>
        BY <1>2, <2>0 DEF ServeList
    <2> HIDE DEF job
    <2> QED BY <2>2, <2>3, RowsStay, CallKeeps
<1>3. CASE ServeCreate(c)
    <2>1. RowsTyped' /\ \A s \in Record : Onward(s)
        BY <1>3, CreateOnward, TableRecords DEF ServeCreate, PageInv
    <2>2. PICK job : /\ job # Idle /\ CallTrue(job, rows)
                     /\ call' = [call EXCEPT ![c] = job]
        BY <1>1, <1>3 DEF ServeCreate, Pending
    <2> QED BY <1>3, <2>1, <2>2, CallKeeps DEF ServeCreate
<1>4. CASE ServeTransition(c)
    <2>1. call[c].change.row \in Record
        BY <1>4, TableRecords DEF ServeTransition, Pending, PageInv, CallTrue, DialogTrue
    <2>2. RowsTyped' /\ \A s \in Record : Onward(s)
        BY <1>4, <2>1, MoveOnward DEF ServeTransition, PageInv
    <2>3. PICK job : /\ job # Idle /\ CallTrue(job, rows)
                     /\ call' = [call EXCEPT ![c] = job]
        BY <1>1, <1>4 DEF ServeTransition, Pending
    <2> QED BY <1>4, <2>2, <2>3, CallKeeps DEF ServeTransition
<1>5. CASE Fault(c)
    <2>1. PICK job : /\ job # Idle /\ CallTrue(job, rows)
                     /\ call' = [call EXCEPT ![c] = job]
        BY <1>1, <1>5 DEF Fault
    <2> QED BY <1>5, <2>1, RowsStay, CallKeeps DEF Fault
<1> QED BY <1>2, <1>3, <1>4, <1>5

LEMMA ReturnKeeps ==
    ASSUME PageInv, NEW c \in Call, Failed(c) \/ Listed(c) \/ Written(c)
    PROVE  PageInv'
<1> USE DEF Idle
<1>1. RowsTyped' /\ \A r \in Record : Onward(r)
    BY RowsStay DEF Failed, Listed, Written
<1>2. ASSUME Return(c), ~list'.loading,
             {"items", "loading", "error"} \subseteq DOMAIN list',
             \A r \in Table : Snapshot(r, list'.items[r], rows[r])
      PROVE  PageInv'
    <2>1. /\ DOMAIN call' = Call
          /\ \A d \in Call : call'[d] # Idle => CallTrue(call'[d], rows)
        BY <1>2 DEF Return, PageInv
    <2>2. DialogTrue(dialog', rows)
        BY <1>2 DEF Return, PageInv, DialogTrue, NoDialog
    <2>3. LoadingBacked'
        BY <1>2 DEF LoadingBacked
    <2> QED BY <1>1, <1>2, <2>1, <2>2, <2>3, PageKeeps
<1>3. CASE Failed(c)
    <2>1. /\ ~list'.loading /\ list'.items = list.items
          /\ {"items", "loading", "error"} \subseteq DOMAIN list'
        BY <1>3 DEF Failed, PageInv
    <2> QED BY <1>2, <1>3, <2>1 DEF Failed, PageInv
<1>4. CASE Listed(c)
    <2>1. CallTrue(call[c], rows) /\ call[c].kind = "list" /\ call[c].stage = "ok"
        BY <1>4 DEF Listed, PageInv
    <2>2. /\ ~list'.loading /\ list'.items = call[c].found
          /\ {"items", "loading", "error"} \subseteq DOMAIN list'
        BY <1>4 DEF Listed
    <2> QED BY <1>2, <1>4, <2>1, <2>2 DEF Listed, CallTrue
<1>5. CASE Written(c)
    <2> DEFINE job == Listing(1, call[c].closes)
    <2>1. job # Idle /\ CallTrue(job, rows)
        BY DEF Listing, CallTrue
    <2>2. /\ call' = [call EXCEPT ![c] = job]
          /\ list' = [Busy EXCEPT !.error = FALSE] /\ dialog' = dialog
        BY <1>5 DEF Written
    <2> HIDE DEF job
    <2> QED BY <1>1, <2>1, <2>2, CallKeeps
<1> QED BY <1>3, <1>4, <1>5

-----------------------------------------------------------------------------

LEMMA PageInductive == PageInv /\ [Next]_vars => PageInv'
<1> SUFFICES ASSUME PageInv, [Next]_vars PROVE PageInv'
    OBVIOUS
<1>1. CASE OpenCreate \/ Cancel \/ \E r \in Table : OpenTransition(r) \/ OtherUser(r)
    BY <1>1, UserKeeps, OtherUserKeeps
<1>2. CASE \E c \in Call : CallStep(c)
    BY <1>2, StartKeeps, ServeKeeps, ReturnKeeps DEF CallStep
<1>3. CASE UNCHANGED vars
    <2>1. UNCHANGED <<rows, list, page, dialog, call>>
        BY <1>3 DEF vars
    <2>2. LoadingBacked'
        BY <2>1 DEF PageInv, LoadingBacked
    <2> QED BY <2>1, <2>2, RowsStay, PageKeeps DEF PageInv
<1> QED BY <1>1, <1>2, <1>3 DEF Next

THEOREM PageInvariant == Spec => []PageInv
BY PageInit, PageInductive, PTL DEF Spec

(* The page comes to rest with its loading flag down, however many loads,
   writes, reloads and failures overlap (factory.ts:7-9). *)
THEOREM Rests == Spec => []RestsIdle
<1>1. PageInv => RestsIdle
    BY DEF PageInv, LoadingBacked, RestsIdle, AtRest
<1> QED BY <1>1, PageInvariant, PTL

(* Whatever the page holds of a record was stored at its version: the table,
   the dialog, a confirmed change and an answer under way. *)
THEOREM SnapshotsHold == Spec => []SnapshotsTrue
<1>1. PageInv => SnapshotsTrue
    BY DEF PageInv, SnapshotsTrue, OfRow, DialogTrue, CallTrue
<1> QED BY <1>1, PageInvariant, PTL

(* An accepted transition starts from the row the user saw in the dialog
   (entity-page.component.ts:80, factory.ts:9). *)
THEOREM MovesAsSeen == Spec => TransitionAsSeen
<1>1. ASSUME PageInv, NEW c \in Call, ServeTransition(c)
      PROVE  rows[call[c].change.row] = call[c].change.seen
    <2> DEFINE r == call[c].change.row
               seen == call[c].change.seen
    <2>1. r \in Table /\ Snapshot(r, seen, rows[r])
        BY <1>1 DEF ServeTransition, Pending, PageInv, CallTrue, DialogTrue, Idle
    <2>2. rows[r].version = seen.version /\ Backend!Exists(r)
        BY <1>1 DEF ServeTransition, MoveTo
    <2>3. rows[r].version > 0
        BY <2>2 DEF Backend!Exists
    <2>4. NoRow.version = 0
        BY DEF NoRow
    <2>5. seen # NoRow
        <3> HIDE DEF r, seen
        <3> QED BY <2>2, <2>3, <2>4
    <2>6. /\ seen \in StoredRow(r) /\ ~seen.deleted
          /\ seen.status = rows[r].status /\ seen.fields = rows[r].fields
        BY <2>1, <2>2, <2>5 DEF Snapshot
    <2>7. rows[r] \in StoredRow(r) /\ ~rows[r].deleted
        BY <1>1, <2>1, <2>2, TableRecords, StoredWhenExists DEF PageInv, Backend!Exists
    <2>8. seen.deleted = rows[r].deleted
        BY <2>6, <2>7 DEF StoredRow
    <2> HIDE DEF r, seen
    <2>9. rows[r] = seen
        BY <2>2, <2>6, <2>7, <2>8 DEF StoredRow
    <2> QED BY <2>9 DEF r, seen
<1>2. PageInv /\ [Next]_vars =>
          [\A c \in Call : ServeTransition(c) =>
               rows[call[c].change.row] = call[c].change.seen]_vars
    BY <1>1
<1> QED BY <1>2, PageInvariant, PTL DEF Spec, TransitionAsSeen
=============================================================================
