---------------------------- MODULE WeeklyReport ----------------------------
(***************************************************************************)
(* The weekly report: Notifier.weekly_inventory pages through the assets   *)
(* of Snipe-IT (SnipeITClient.list_assets, one step per request), ages     *)
(* them (build_inventory_rows) and mails the worst of them with a count of *)
(* each status (weekly_report).                                            *)
(*                                                                         *)
(* While the pages are read the worker applies inventory and creates       *)
(* assets, and administrators create and delete others; time passes.       *)
(* Where a new asset appears in the listing is Snipe-IT's choice.  What    *)
(* reserve_report makes of two reports of a week at once, or of a process  *)
(* that dies around its SMTP session, is in Notifier.                      *)
(***************************************************************************)
EXTENDS Integers, SequencesExt

CONSTANTS
    AssetIds,          \* assets, ordered as their names are
    Fleets,            \* the listings a behaviour may start from
    NewAssets,         \* assets created later, as [id, category]
    Never, NoCategory,
    WeeklyCategories,  \* notifications.weekly_category_ids
    StaleDays, CriticalDays, MaxRows,  \* notifications.weekly_*
    Limit,             \* rows asked for in a request
    DaysPerWeek,
    FirstDay, LastDay, \* bounds of the time in a behaviour
    MaxChanges         \* bound on what others change in a behaviour

Days == 0 .. LastDay + 1   \* an agent's clock may be a day ahead
Hardware == [id : AssetIds, category : Nat \cup {NoCategory},
             created : Days, last : Days \cup {Never}]

\* No two assets have one id.
Distinct(s) == \A i, j \in DOMAIN s : s[i].id = s[j].id => i = j

ASSUME WeeklyAssumption ==
    /\ AssetIds \subseteq Nat /\ Never \notin Nat /\ NoCategory \notin Nat
    /\ WeeklyCategories \subseteq Nat
    /\ Fleets \subseteq Seq(Hardware) /\ \A s \in Fleets : Distinct(s)
    /\ NewAssets \subseteq [id : AssetIds, category : Nat \cup {NoCategory}]
    /\ StaleDays \in Nat \ {0} /\ CriticalDays \in Nat /\ StaleDays < CriticalDays
    /\ MaxRows \in Nat \ {0} /\ Limit \in Nat \ {0} /\ DaysPerWeek \in Nat \ {0}
    /\ FirstDay \in Nat /\ LastDay \in Nat /\ FirstDay <= LastDay /\ MaxChanges \in Nat

VARIABLES
    hardware,   \* the assets in the order Snipe-IT lists them, with the custom field
                \* last_success and created_at
    day,
    pc,         \* "idle", "listing", "mailing"
    generated,  \* generated_at
    rows,       \* the rows listed so far; the offset is their number
    mailed,     \* weeks whose report was sent
    kept,       \* history: assets in Snipe-IT ever since the listing began
    silent,     \* history: those the report should show, silent for long when the listing
                \* began and ever since
    created,    \* history: assets created since the listing began
    deletions,  \* history: how many were deleted since
    short,      \* history: the listing ended at an answer without the rows that were there
    changes     \* how often others changed an asset

job == <<pc, generated, rows, mailed>>
history == <<kept, silent, created, deletions, short>>
vars == <<hardware, day, job, history, changes>>

IdsOf(s) == {r.id : r \in ToSet(s)}
WeekOf(d) == d \div DaysPerWeek
Weeks == 0 .. WeekOf(LastDay)

TypeOK ==
    /\ hardware \in Seq(Hardware) /\ Distinct(hardware)
    /\ day \in FirstDay .. LastDay
    /\ pc \in {"idle", "listing", "mailing"}
    /\ generated \in FirstDay .. day
    /\ rows \in Seq(Hardware)
    /\ mailed \subseteq Weeks
    /\ kept \subseteq IdsOf(hardware) /\ silent \subseteq kept
    /\ created \subseteq AssetIds /\ deletions \in 0 .. changes /\ short \in BOOLEAN
    /\ changes \in 0 .. MaxChanges

Init ==
    /\ hardware \in Fleets
    /\ day = FirstDay
    /\ pc = "idle" /\ generated = FirstDay /\ rows = <<>>
    /\ mailed = {}
    /\ kept = {} /\ silent = {} /\ created = {} /\ deletions = 0 /\ short = FALSE
    /\ changes = 0

---------------------------------------------------------------------------
(* build_inventory_rows and weekly_report.                                 *)

\* Assets without a category are reported, those of other categories are not.
IsReported(r) ==
    WeeklyCategories = {} \/ r.category = NoCategory \/ r.category \in WeeklyCategories

\* mutant: the age of the asset is taken for that of its data
ReferenceCreated(r) == r.created

Reference(r) == IF r.last = Never THEN r.created ELSE r.last

AgeDays(r, at) == IF at < Reference(r) THEN 0 ELSE at - Reference(r)

StatusOf(r, at) ==
    IF r.last = Never THEN "never"
    ELSE IF AgeDays(r, at) >= CriticalDays THEN "critical"
    ELSE IF AgeDays(r, at) >= StaleDays THEN "overdue" ELSE "current"

priority == [never |-> 0, critical |-> 1, overdue |-> 2, current |-> 3]

\* mutant: the longest silent first, whatever their status
PrecedesByAge(r, q, at) ==
    \/ AgeDays(r, at) > AgeDays(q, at)
    \/ AgeDays(r, at) = AgeDays(q, at) /\ r.id < q.id

\* The key of the rows: by status, the longest silent first, then by name.
Precedes(r, q, at) ==
    LET p(x) == priority[StatusOf(x, at)] IN
    \/ p(r) < p(q)
    \/ p(r) = p(q) /\ AgeDays(r, at) > AgeDays(q, at)
    \/ p(r) = p(q) /\ AgeDays(r, at) = AgeDays(q, at) /\ r.id < q.id

\* Rows of one key, those of an asset that is repeated, stay in the order they were listed.
ComesBefore(i, j, at) ==
    Precedes(rows[i], rows[j], at) \/ (i < j /\ ~ Precedes(rows[j], rows[i], at))

\* The k-th row has k - 1 before it.
InventoryRows(at) ==
    LET reported == {i \in DOMAIN rows : IsReported(rows[i])}
        before(i) == {j \in reported : ComesBefore(j, i, at)}
    IN  [k \in 1..Cardinality(reported) |->
            rows[CHOOSE i \in reported : Cardinality(before(i)) = k - 1]]

\* What the report lists, and what it counts without listing it.
Shown(table) == SubSeq(table, 1, IF Len(table) < MaxRows THEN Len(table) ELSE MaxRows)

---------------------------------------------------------------------------
(* The job weekly-report.                                                  *)

\* No data of an asset has come for weekly_critical_days, or ever.
IsSilent(r, at) == r.last = Never \/ at - r.last >= CriticalDays

\* mutant: dated by the time zone of the reader
StartAhead ==
    /\ pc = "idle"
    /\ pc' = "listing" /\ generated' = day + 1 /\ rows' = <<>>
    /\ kept' = IdsOf(hardware) /\ silent' = {} /\ created' = {} /\ deletions' = 0
    /\ short' = FALSE
    /\ UNCHANGED <<hardware, day, mailed, changes>>

\* A run of the timer, or one an operator starts: generated_at is taken before the first
\* request.
Start ==
    /\ pc = "idle"
    /\ pc' = "listing" /\ generated' = day /\ rows' = <<>>
    /\ kept' = IdsOf(hardware)
    /\ silent' = {r.id : r \in {h \in ToSet(hardware) : IsReported(h) /\ IsSilent(h, day)}}
    /\ created' = {} /\ deletions' = 0 /\ short' = FALSE
    /\ UNCHANGED <<hardware, day, mailed, changes>>

\* mutant: the offset of the next request counts the row it starts with twice
PageSkipping(offset) ==
    LET first == IF offset = 0 THEN 1 ELSE offset + 2 IN
    SubSeq(hardware, first,
           IF first + Limit - 1 < Len(hardware) THEN first + Limit - 1 ELSE Len(hardware))

Page(offset) ==
    SubSeq(hardware, offset + 1,
           IF offset + Limit < Len(hardware) THEN offset + Limit ELSE Len(hardware))

\* mutant: the listing ends when exactly the total has been read
IsLastExactly(page, listed, counted) == counted /\ Len(listed) = Len(hardware)

\* Whether a page is the last one.  total, if it is counted with the page at all, is the
\* number of assets when the page is read.
IsLast(page, listed, counted) ==
    Len(page) < Limit \/ (counted /\ Len(listed) >= Len(hardware))

\* One request of list_assets.  The answer may be a body without rows, as Snipe-IT reports
\* its errors: that is taken for an empty page.
FetchPage ==
    /\ pc = "listing"
    /\ \E page \in {Page(Len(rows)), <<>>}, counted \in BOOLEAN :
         /\ rows' = rows \o page
         /\ pc' = IF IsLast(page, rows', counted) THEN "mailing" ELSE "listing"
         /\ short' = (short \/ page # Page(Len(rows)))
    /\ UNCHANGED <<hardware, day, generated, mailed, kept, silent, created, deletions,
                   changes>>

\* The process ends, and with it the listing.
Leave ==
    /\ pc' = "idle" /\ rows' = <<>>
    /\ kept' = {} /\ silent' = {} /\ created' = {} /\ deletions' = 0 /\ short' = FALSE
    /\ UNCHANGED <<hardware, day, generated, changes>>

\* A request fails, or the SMTP session does (finish_report gives the week back): nothing
\* runs the job again before the timer or an operator.
Fail == pc # "idle" /\ Leave /\ UNCHANGED mailed

\* _send_once under the key of the week the report was generated in.
Mail == pc = "mailing" /\ Leave /\ mailed' = mailed \cup {WeekOf(generated)}

---------------------------------------------------------------------------
(* Meanwhile.  What changes between two listings is left to Fleets.        *)

Change ==
    /\ pc = "listing" /\ changes < MaxChanges /\ changes' = changes + 1
    /\ UNCHANGED <<day, job>>

\* The worker updates an asset: last_success becomes the observed_at of the event, which
\* is late, or of a clock that is ahead.
Inventory(i, d) ==
    /\ Change
    /\ hardware' = [hardware EXCEPT ![i].last = d]
    /\ silent' = silent \ {hardware[i].id}
    /\ UNCHANGED <<kept, created, deletions, short>>

\* The worker or an administrator creates an asset, without data so far.
Create(a, i) ==
    /\ Change
    /\ a.id \notin IdsOf(hardware) \cup created
    /\ hardware' = InsertAt(hardware, i, [id |-> a.id, category |-> a.category,
                                          created |-> day, last |-> Never])
    /\ created' = created \cup {a.id}
    /\ UNCHANGED <<kept, silent, deletions, short>>

Delete(i) ==
    /\ Change
    /\ hardware' = RemoveAt(hardware, i)
    /\ deletions' = deletions + 1
    /\ kept' = kept \ {hardware[i].id} /\ silent' = silent \ {hardware[i].id}
    /\ UNCHANGED <<created, short>>

TimePasses ==
    /\ day < LastDay /\ day' = day + 1
    /\ UNCHANGED <<hardware, job, history, changes>>

Job == Start \/ FetchPage \/ Fail \/ Mail

Meanwhile ==
    \/ \E i \in DOMAIN hardware, d \in 0 .. day + 1 : Inventory(i, d)
    \/ \E a \in NewAssets, i \in 1 .. Len(hardware) + 1 : Create(a, i)
    \/ \E i \in DOMAIN hardware : Delete(i)
    \/ TimePasses

Next == Job \/ Meanwhile

\* A request ends (its timeout is that of the HTTP client).
Spec == Init /\ [][Next]_vars /\ WF_vars(FetchPage)

---------------------------------------------------------------------------
(* Properties.                                                             *)

\* Paging over a listing that changes: of the assets that were in Snipe-IT all along, at
\* most as many are missed as others were deleted meanwhile, and at most as many rows are
\* repeated as assets were created (list_assets).  An answer without rows that are there
\* ends the listing early, and the report is mailed all the same.
ListsTheFleet ==
    pc = "mailing" =>
        /\ short \/ Cardinality(kept \ IdsOf(rows)) <= deletions
        /\ Len(rows) - Cardinality(IdsOf(rows)) <= Cardinality(created)

\* The report shows the computers it is for: of those that were silent for
\* weekly_critical_days, or for ever, when it was started and whose data still has not come,
\* it leaves out at most one for each deletion meanwhile, whatever its pages and its filter
\* of categories make of the listing and wherever weekly_max_rows cuts the table; unless
\* the table has room for such computers only (list_assets, build_inventory_rows,
\* weekly_report), or the listing was cut short.
SilentAreShown ==
    pc = "mailing" =>
        LET shown == Shown(InventoryRows(generated)) IN
        \/ short
        \/ Cardinality(silent \ IdsOf(shown)) <= deletions
        \/ \A r \in ToSet(shown) : IsSilent(r, generated)

\* weekly_max_rows cuts off no computer in favour of one that is less urgent: a computer
\* that is left out has sent data if any that is shown has, and has not been silent for
\* longer than one of its kind that is shown.
WorstAreShown ==
    pc = "mailing" =>
        LET table == InventoryRows(generated)
            shown == Shown(table)
            dropped == SubSeq(table, Len(shown) + 1, Len(table))
        IN  \A q \in ToSet(dropped), r \in ToSet(shown) :
                \/ r.last = Never /\ q.last # Never
                \/ /\ r.last = Never <=> q.last = Never
                   /\ AgeDays(q, generated) <= AgeDays(r, generated)

\* However the fleet changes under it, the listing comes to an end (list_assets has no
\* bound on its requests), as long as the fleet does not grow for ever.
ListingEnds == pc = "listing" ~> pc # "listing"
=============================================================================
