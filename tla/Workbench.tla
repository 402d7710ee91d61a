------------------------------ MODULE Workbench ------------------------------
(***************************************************************************)
(* One page of the browser workbench: the EntityPageComponent, its         *)
(* EntityStore and the requests between them and the backend               *)
(* (frontend/src/components/entity-page.component.ts, stores/factory.ts,   *)
(* hooks/use-pagination.ts, api/client.ts).                                *)
(*                                                                         *)
(* Every await lets the user and other answers in: requests overlap, their *)
(* answers arrive in any order or not at all, and meanwhile other users    *)
(* change the records.  The backend is what RecordLifecycle says it is,    *)
(* which TransferCompliance is shown to implement: records are created,    *)
(* edited, moved and removed in single steps, by this page and by others.  *)
(***************************************************************************)
EXTENDS ComplianceDomain

CONSTANTS
    Table,        \* the records of the aggregate that the page is about
    Seeds,        \* the rows that are stored when the page is entered first
    Call,         \* the requests of the page that can be under way together
    Pages,        \* the pages of ten records that the table fills, at least 3
    VersionBound  \* bound: the version up to which records change

ASSUME TableAssumption == Table \in {Generator, Carrier, Manifest, Check}

ASSUME SeedsAssumption ==
    /\ DOMAIN Seeds = Record
    /\ \A r \in Record : Seeds[r] \in {NoRow} \cup StoredRow(r)

ASSUME PagesAssumption == Pages \in Nat /\ Pages >= 3

ASSUME VersionBoundAssumption == VersionBound \in Nat

VARIABLES
    rows,    \* the rows of the backend
    list,    \* the state of the store: what the table shows
    page,    \* the page the pagination stands at
    dialog,  \* the open dialog
    call     \* the requests under way

vars == <<rows, list, page, dialog, call>>

Backend == INSTANCE RecordLifecycle WITH tbl <- rows, Seeds <- Seeds

\* What a list answers of a record: nothing when it is deleted or not there.
Visible(r) == IF Backend!Exists(r) THEN rows[r] ELSE NoRow

NoDialog == [kind |-> "none"]

CreateDialog == [kind |-> "create"]

\* A dialog keeps the row as the table showed it when the button was pressed.
TransitionDialog(r, seen, target) ==
    [kind |-> "transition", row |-> r, seen |-> seen, target |-> target]

Idle == [stage |-> "idle"]

\* A request for a page of the list; closes names the kind of the dialog that
\* is closed when it returns.
Listing(number, closes) ==
    [kind |-> "list", stage |-> "sent", number |-> number, closes |-> closes]

\* The page as it is entered first: its load is under way.
Init ==
    /\ Backend!Init
    /\ list = [items |-> [r \in Table |-> NoRow], number |-> 1, pages |-> 1,
               loading |-> TRUE, error |-> FALSE]
    /\ page = 1
    /\ dialog = NoDialog
    /\ \E first \in Call :
          call = [c \in Call |-> IF c = first THEN Listing(1, "none") ELSE Idle]

-----------------------------------------------------------------------------
(* What the user does.  An open dialog covers the page. *)

Busy == [list EXCEPT !.loading = TRUE]

\* load() of the component, with the pagination at the page to go to.
Load(c, to) ==
    /\ call[c] = Idle
    /\ call' = [call EXCEPT ![c] = Listing(to, "none")]
    /\ list' = [Busy EXCEPT !.error = FALSE]
    /\ page' = to

Browse(c) ==
    /\ dialog = NoDialog
    /\ \/ Load(c, 1)
       \/ page > 1 /\ Load(c, page - 1)
       \/ page < list.pages /\ Load(c, page + 1)
    /\ UNCHANGED <<rows, dialog>>

\* The page is left and entered again: a new component on the same store.  What
\* is under way goes on and no longer closes anything.
Revisit(c) ==
    /\ call[c] = Idle
    /\ call' = [d \in Call |->
                   IF d = c THEN Listing(1, "none")
                   ELSE IF call[d] = Idle THEN Idle
                   ELSE [call[d] EXCEPT !.closes = "none"]]
    /\ list' = [Busy EXCEPT !.error = FALSE]
    /\ page' = 1
    /\ dialog' = NoDialog
    /\ UNCHANGED rows

\* The edges of TRANSITIONS that the status graphs of the backend do not have.
OnlyOffered(r) ==
    IF r \in Carrier THEN {<<"pending", "expired">>}
    ELSE IF r \in Check THEN {<<"pending", "escalated">>}
    ELSE {}

\* TRANSITIONS of types/status.ts: the buttons of a row.
Offered(r) == Graph(r) \cup OnlyOffered(r)

OpenTransition(r) ==
    /\ dialog = NoDialog
    /\ \E target \in StatusOf(r) :
          /\ <<list.items[r].status, target>> \in Offered(r)
          /\ dialog' = TransitionDialog(r, list.items[r], target)
    /\ UNCHANGED <<rows, list, page, call>>

OpenCreate ==
    /\ dialog = NoDialog
    /\ dialog' = CreateDialog
    /\ UNCHANGED <<rows, list, page, call>>

Cancel ==
    /\ dialog # NoDialog
    /\ dialog' = NoDialog
    /\ UNCHANGED <<rows, list, page, call>>

\* The version looked up in the table when the user confirms.
ConfirmLatest(c) ==
    /\ dialog # NoDialog
    /\ call[c] = Idle
    /\ call' = [call EXCEPT ![c] =
                   [kind |-> dialog.kind, stage |-> "sent", closes |-> dialog.kind,
                    change |-> IF dialog = CreateDialog THEN dialog
                               ELSE [dialog EXCEPT !.seen.version =
                                        list.items[dialog.row].version]]]
    /\ list' = Busy
    /\ UNCHANGED <<rows, page, dialog>>

\* createDemo and confirmTransition: nothing keeps the user from confirming
\* again, or from cancelling, while the request is under way.
Confirm(c) ==
    /\ dialog # NoDialog
    /\ call[c] = Idle
    /\ call' = [call EXCEPT ![c] =
                   [kind |-> dialog.kind, stage |-> "sent", closes |-> dialog.kind,
                    change |-> dialog]]
    /\ list' = Busy
    /\ UNCHANGED <<rows, page, dialog>>

-----------------------------------------------------------------------------
(* What the backend does, for this page and for other users. *)

Answer(c, stage) ==
    call' = [call EXCEPT ![c] = [kind |-> @.kind, stage |-> stage, closes |-> @.closes]]

Pending(c, kind) == call[c].stage = "sent" /\ call[c].kind = kind

\* Of the records that are there the page that is asked for holds some.
ServeList(c) ==
    /\ Pending(c, "list")
    /\ \E shown \in SUBSET Table :
          call' = [call EXCEPT ![c] =
                      [kind |-> "list", stage |-> "ok", number |-> @.number,
                       closes |-> @.closes,
                       found |-> [r \in Table |-> IF r \in shown THEN Visible(r)
                                                  ELSE NoRow]]]
    /\ UNCHANGED <<rows, list, page, dialog>>

ServeCreate(c) ==
    /\ Pending(c, "create")
    /\ \E r \in Table : Backend!Create(r)
    /\ Answer(c, "ok")
    /\ UNCHANGED <<list, page, dialog>>

\* A write that leaves the version as it is.
MoveSilently(r, status) ==
    /\ Backend!Exists(r)
    /\ CanTransition(Graph(r), rows[r].status, status)
    /\ rows[r].version < VersionBound
    /\ Backend!Store(r, status, rows[r].version, rows[r].fields)

MoveTo(r, status) ==
    /\ Backend!Exists(r)
    /\ CanTransition(Graph(r), rows[r].status, status)
    /\ rows[r].version < VersionBound
    /\ Backend!Store(r, status, rows[r].version + 1, rows[r].fields)

ServeTransition(c) ==
    /\ Pending(c, "transition")
    /\ LET change == call[c].change IN
       /\ rows[change.row].version = change.seen.version
       /\ MoveTo(change.row, change.target)
    /\ Answer(c, "ok")
    /\ UNCHANGED <<list, page, dialog>>

\* Refused by the backend, or the connection breaks, before the request is
\* served or after.
Fault(c) ==
    /\ call[c].stage \in {"sent", "ok"}
    /\ Answer(c, "failed")
    /\ UNCHANGED <<rows, list, page, dialog>>

OtherUser(r) ==
    /\ rows[r].version < VersionBound
    /\ Backend!Create(r) \/ Backend!Edit(r) \/ Backend!Move(r) \/ Backend!Remove(r)
    /\ UNCHANGED <<list, page, dialog, call>>

-----------------------------------------------------------------------------
(* What the store and the component do with an answer. *)

\* The operation is over; a write that was accepted closes the dialog of its
\* kind, whichever row it is about by now.
Return(c) ==
    /\ call' = [call EXCEPT ![c] = Idle]
    /\ dialog' = IF call[c].kind = "list" /\ call[c].closes = dialog.kind
                 THEN NoDialog ELSE dialog

\* The catch block of a failed write that forgets the loading flag.
FailedStillLoading(c) ==
    /\ call[c].stage = "failed"
    /\ list' = [list EXCEPT !.loading = (call[c].kind # "list"), !.error = TRUE]
    /\ Return(c)
    /\ UNCHANGED <<rows, page>>

\* The catch blocks of load, createRecord and transition; the dialog of a
\* failed write stays open, a failed reload after a write still closes it.
Failed(c) ==
    /\ call[c].stage = "failed"
    /\ list' = [list EXCEPT !.loading = FALSE, !.error = TRUE]
    /\ Return(c)
    /\ UNCHANGED <<rows, page>>

Listed(c) ==
    /\ call[c].stage = "ok"
    /\ call[c].kind = "list"
    /\ list' = [items |-> call[c].found, number |-> call[c].number,
                pages |-> Pages, loading |-> FALSE, error |-> FALSE]
    /\ Return(c)
    /\ UNCHANGED <<rows, page>>

\* A write was accepted: the store reloads, always the first twenty records.
Written(c) ==
    /\ call[c].stage = "ok"
    /\ call[c].kind # "list"
    /\ call' = [call EXCEPT ![c] = Listing(1, @.closes)]
    /\ list' = [Busy EXCEPT !.error = FALSE]
    /\ UNCHANGED <<rows, page, dialog>>

CallStep(c) ==
    \/ Browse(c) \/ Revisit(c) \/ Confirm(c)
    \/ ServeList(c) \/ ServeCreate(c) \/ ServeTransition(c) \/ Fault(c)
    \/ Failed(c) \/ Listed(c) \/ Written(c)

Next ==
    \/ OpenCreate \/ Cancel
    \/ \E r \in Table : OpenTransition(r) \/ OtherUser(r)
    \/ \E c \in Call : CallStep(c)

\* No fairness: the user may leave at any time.
Spec == Init /\ [][Next]_vars

-----------------------------------------------------------------------------
AtRest == \A c \in Call : call[c] = Idle

(* The table is not left showing that it synchronises: however loads, writes,
   their reloads and their failures overlap, the loading flag is down once
   nothing is under way (factory.ts:7-9, three flags set and cleared by four
   overlapping operations). *)
RestsIdle == AtRest => ~list.loading

(* What the page holds of a record is what the backend stored at some version,
   and at the stored version it is what is stored: the table, an answer under
   way, an open dialog and a confirmed change. *)
Snapshot(r, seen, row) ==
    \/ seen = NoRow
    \/ /\ seen \in StoredRow(r) /\ ~seen.deleted
       /\ seen.version <= row.version
       /\ seen.version = row.version =>
             seen.status = row.status /\ seen.fields = row.fields

OfRow(r, seen) == Snapshot(r, seen, rows[r])

SnapshotsTrue ==
    /\ \A r \in Table : OfRow(r, list.items[r])
    /\ dialog.kind = "transition" => OfRow(dialog.row, dialog.seen)
    /\ \A c \in Call : call[c] # Idle =>
          /\ call[c].kind = "transition" /\ call[c].stage = "sent" =>
                OfRow(call[c].change.row, call[c].change.seen)
          /\ call[c].kind = "list" /\ call[c].stage = "ok" =>
                \A r \in Table : OfRow(r, call[c].found[r])

(* A transition that the backend accepts starts from the row that the user saw
   when the dialog was opened, the status it was confirmed for (entity-page.component.ts:80,
   factory.ts:9), even when the table was reloaded, the record was changed by
   others or the button was pressed twice in the meantime. *)
TransitionAsSeen ==
    [][\A c \in Call :
          ServeTransition(c) =>
              rows[call[c].change.row] = call[c].change.seen]_vars

-----------------------------------------------------------------------------
(* Statements of the repository that the code does not keep. *)

(* README.md:138 and status.go:3: the transitions of the page are kept in step
   with the status graphs of the backend. *)
OffersAccepted ==
    dialog.kind = "transition" =>
        CanTransition(Graph(dialog.row), dialog.seen.status, dialog.target)

(* README.md:48: the workbench pages through the records: at rest the table
   shows the page that the pager stands at. *)
PagerShowsPage ==
    AtRest /\ ~list.error => list.number = page
=============================================================================
