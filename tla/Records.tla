------------------------------ MODULE Records ------------------------------
(***************************************************************************)
(* What the gateway's database knows of the chain, for one subscriber and  *)
(* one merchant: the relationship index (sdk/src/relations.ts), the event  *)
(* scan that completes it (discovery.ts), the mirror of settled charges    *)
(* (recordCharge, appendJournal and chargesByMandate of sql-store.ts) and  *)
(* the monthly reports (compliance.ts, the /report route of gateway.ts).   *)
(*                                                                         *)
(* An ingest reads the chain and writes the row afterwards; a scan takes   *)
(* one await per page.  The subscriber signs, closes and does other things *)
(* in between.  Each charge is one coin; a month is a tick.                *)
(***************************************************************************)
EXTENDS Integers, Sequences, FiniteSetsExt, Functions

CONSTANTS
    Mandates,
    PageLimit,     \* events of a page
    MaxPages,      \* pages of a scan
    Limit,         \* rows of chargesByMandate
    MaxEvents,     \* bound: the subscriber's transactions
    MaxSettled,    \* bound: charges
    MaxMonth       \* bound: the clock

ASSUME RecordsAssumption ==
    /\ {PageLimit, MaxPages, Limit, MaxEvents, MaxSettled, MaxMonth} \subseteq Nat \ {0}
    /\ "other" \notin Mandates

VARIABLES
    objects,    \* the mandates on the chain: "none", "live", "closed"
    history,    \* the subscriber's events, oldest first
    idx,        \* the mandates that have a row
    ingest,     \* per task: the mandate it has read and will write, or NoMandate
    scan,       \* the discovery in progress, and its answer
    settled,    \* charges of the chain: [mandate, seq, by, at]
    told,       \* the charges the mirror was told of
    charges,    \* the mirror, in the order of its rows: [mandate, seq, at, of]
    month

mirror == <<told, charges>>
records == <<objects, history, idx, ingest, scan, settled, told, charges, month>>

NoMandate == "no mandate"
Null == -1
NotScanning == [at |-> "idle", cursor |-> Null, pages |-> 0, ids |-> {},
                must |-> {}, skipped |-> {}, answer |-> {}]

RecordsInit ==
    /\ objects = [m \in Mandates |-> "none"]
    /\ history = <<>> /\ idx = {}
    /\ ingest = [t \in {"web", "scan"} |-> NoMandate]
    /\ scan = NotScanning
    /\ settled = <<>> /\ told = {} /\ charges = <<>> /\ month = 1

-----------------------------------------------------------------------------
(* The chain.                                                              *)

Emit(e) == Len(history) < MaxEvents /\ history' = Append(history, e)
OffChain == UNCHANGED <<idx, ingest, scan, mirror, month>>

Authorize(m) ==
    /\ objects[m] = "none" /\ Emit(m)
    /\ objects' = [objects EXCEPT ![m] = "live"]
    /\ UNCHANGED settled /\ OffChain

CloseMandate(m) ==
    /\ objects[m] = "live" /\ Emit("other")
    /\ objects' = [objects EXCEPT ![m] = "closed"]
    /\ UNCHANGED settled /\ OffChain

OtherEvent == Emit("other") /\ UNCHANGED <<objects, settled>> /\ OffChain

SettledSeq(m) == Cardinality({i \in DOMAIN settled : settled[i].mandate = m})
\* A charge is made by one process: the keeper of scripts/keeper.ts, a biller,
\* or the keeper of scripts/backend.ts.
SettleCharge(m) ==
    /\ objects[m] = "live" /\ Len(settled) < MaxSettled
    /\ \E by \in {"keeper", "biller", "backend"} :
          settled' = Append(settled, [mandate |-> m, seq |-> SettledSeq(m) + 1,
                                      by |-> by, at |-> month])
    /\ UNCHANGED <<objects, history>> /\ OffChain

NextMonth ==
    /\ month < MaxMonth /\ month' = month + 1
    /\ UNCHANGED <<objects, history, idx, ingest, scan, settled, mirror>>

-----------------------------------------------------------------------------
(* The index.                                                              *)

\* The read of an ingest; a closed mandate cannot be read.
IngestRead(t, m) == objects[m] = "live" /\ ingest' = [ingest EXCEPT ![t] = m]
ingestMandate(t) == idx' = idx \cup {ingest[t]} /\ ingest' = [ingest EXCEPT ![t] = NoMandate]

\* Any page or device may ask for an ingest by id.
WebIngest ==
    /\ IF ingest["web"] = NoMandate THEN (\E m \in Mandates : IngestRead("web", m)) /\ idx' = idx
                                    ELSE ingestMandate("web")
    /\ UNCHANGED <<objects, history, scan, settled, mirror, month>>

mandatesBySubscriber == idx

-----------------------------------------------------------------------------
(* The scan: pages of events, newest first, from the cursor back.          *)

Live == {m \in Mandates : objects[m] = "live"}
Deep == {i \in DOMAIN history : i + PageLimit * MaxPages <= Len(history)}

StartScan ==
    /\ scan.at = "idle"
    /\ scan' = [NotScanning EXCEPT !.at = "page"]
    /\ UNCHANGED <<objects, history, idx, ingest, settled, mirror, month>>

PageEnd == IF scan.cursor = Null THEN Len(history) ELSE scan.cursor - 1
PageStart == Max({1, PageEnd - PageLimit + 1})
hasNextPage == PageStart > 1
AuthorizedOn(from, to) == {history[i] : i \in from..to} \ {"other"}

\* must (history): what a complete answer has, as far as the pages reach.
Must == IF scan.cursor = Null THEN Live \ {history[i] : i \in Deep} ELSE scan.must

MorePages_UntilEmptyPage ==
    hasNextPage /\ scan.pages + 1 < MaxPages /\ AuthorizedOn(PageStart, PageEnd) # {}
MorePages == hasNextPage /\ scan.pages + 1 < MaxPages

ScanPage ==
    /\ scan.at = "page"
    /\ scan' = [scan EXCEPT !.ids = @ \cup AuthorizedOn(PageStart, PageEnd),
                            !.cursor = PageStart, !.pages = @ + 1, !.must = Must,
                            !.at = IF MorePages THEN "page" ELSE "known"]
    /\ UNCHANGED <<objects, history, idx, ingest, settled, mirror, month>>

\* The page fails: the route answers from the index alone.
ScanFails ==
    /\ scan.at = "page"
    /\ scan' = NotScanning
    /\ UNCHANGED <<objects, history, idx, ingest, settled, mirror, month>>

\* The ids the index does not know yet are ingested one after the other.
KnownIds ==
    /\ scan.at = "known"
    /\ scan' = [scan EXCEPT !.at = "ingest",
                            !.ids = @ \ mandatesBySubscriber]
    /\ UNCHANGED <<objects, history, idx, ingest, settled, mirror, month>>

\* A read that fails leaves the mandate out.  Their order is any.
ScanIngest ==
    /\ scan.at = "ingest"
    /\ \/ /\ ingest["scan"] = NoMandate /\ \E m \in scan.ids : IngestRead("scan", m)
          /\ UNCHANGED <<idx, scan>>
       \/ /\ ingest["scan"] = NoMandate /\ UNCHANGED <<idx, ingest>>
          /\ \E m \in scan.ids :
                scan' = [scan EXCEPT !.ids = @ \ {m}, !.skipped = @ \cup {m}]
       \/ /\ ingest["scan"] # NoMandate /\ ingestMandate("scan")
          /\ scan' = [scan EXCEPT !.ids = @ \ {ingest["scan"]}]
    /\ UNCHANGED <<objects, history, settled, mirror, month>>

discoverMandatesBySubscriber ==
    /\ scan.at = "ingest" /\ scan.ids = {}
    /\ scan' = [scan EXCEPT !.at = "answered", !.answer = mandatesBySubscriber]
    /\ UNCHANGED <<objects, history, idx, ingest, settled, mirror, month>>

NextScan ==
    /\ scan.at = "answered" /\ scan' = NotScanning
    /\ UNCHANGED <<objects, history, idx, ingest, settled, mirror, month>>

-----------------------------------------------------------------------------
(* The mirror of settled charges.                                          *)

\* Whoever made a charge tells the mirror of it, or never does.  The time is
\* the teller's: that of its tick or flush, or of the telling.
RowOf(i, at) ==
    [mandate |-> settled[i].mandate, at |-> at, of |-> i,
     seq |-> IF settled[i].by = "backend" THEN Null ELSE settled[i].seq]
Added(i) == \E at \in {settled[i].at, month} : charges' = Append(charges, RowOf(i, at))
Tells(i) == told' = told \cup {i} /\ UNCHANGED <<objects, history, idx, ingest, scan, settled, month>>

\* The duplicate check and the insert are one step; a call may come again.
Mirrored_AnyMandate(c) == \E i \in DOMAIN charges : charges[i].seq = c.seq
Mirrored(c) == \E i \in DOMAIN charges : charges[i].mandate = c.mandate /\ charges[i].seq = c.seq
recordCharge(i) ==
    /\ settled[i].by = "keeper" /\ Tells(i)
    /\ IF Mirrored(settled[i]) THEN charges' = charges ELSE Added(i)

\* The insert of a journal entry checks nothing: a biller journals a charge
\* once (LedgerCountsCharges of Biller), backend.ts once per event, unnumbered.
appendJournal(i) ==
    /\ settled[i].by # "keeper" /\ i \notin told
    /\ Tells(i) /\ Added(i)

\* The rows of a mandate, oldest first and at most Limit of them.
RowsOf(m) == {i \in DOMAIN charges : charges[i].mandate = m}
Older(j, i) == charges[j].at < charges[i].at \/ (charges[j].at = charges[i].at /\ j < i)
chargesByMandate(m) ==
    {i \in RowsOf(m) : Cardinality({j \in RowsOf(m) : Older(j, i)}) < Limit}

-----------------------------------------------------------------------------
(* The reports.  A month is [start, end).                                  *)

monthRangeUtc(n) == [start |-> n, end |-> n + 1]
Within(at, range) == range.start <= at /\ at < range.end

reportRoute == UNION {chargesByMandate(m) : m \in mandatesBySubscriber}
buildComplianceReport(n) ==
    LET rows == {i \in reportRoute : Within(charges[i].at, monthRangeUtc(n))}
    IN  [rows |-> rows, total |-> Cardinality(rows)]

-----------------------------------------------------------------------------
RecordsNext ==
    \/ \E m \in Mandates : Authorize(m) \/ CloseMandate(m) \/ SettleCharge(m)
    \/ OtherEvent \/ NextMonth \/ WebIngest
    \/ StartScan \/ ScanPage \/ ScanFails \/ KnownIds \/ ScanIngest
    \/ discoverMandatesBySubscriber \/ NextScan
    \/ \E i \in DOMAIN settled : recordCharge(i) \/ appendJournal(i)

RecordsSpec == RecordsInit /\ [][RecordsNext]_records

-----------------------------------------------------------------------------
(* Properties.                                                             *)

\* discovery.ts and relations.ts 147-150: the answer of a discovery has every
\* mandate that existed when its first page was served, on whatever page its event is, although
\* new events shift the pages; but for those closed or unreadable since, and
\* those older than the pages reach.
DiscoveryIsComplete ==
    scan.at = "answered" => (scan.must \cap Live) \ scan.skipped \subseteq scan.answer

\* compliance.ts: a payment is on one line of one month's report.  No two lines
\* are of the same charge, and every charge the mirror was told of is on one if
\* its mandate is indexed and has not more rows than chargesByMandate returns:
\* a month's boundary, a repeated recordCharge, rows without a number, told late
\* or out of order, leave no payment out and count none twice.
ReportLines == UNION {{n} \X buildComplianceReport(n).rows : n \in 1..MaxMonth}
ChargeOn(line) == charges[line[2]].of
ChargesAreReportedOnce ==
    LET lines == ReportLines IN
    /\ \A x, y \in lines : ChargeOn(x) = ChargeOn(y) => x = y
    /\ \A x \in lines :
          ChargeOn(x) \in told /\ settled[ChargeOn(x)].mandate = charges[x[2]].mandate
    /\ \A i \in told :
          settled[i].mandate \in idx /\ Cardinality(RowsOf(settled[i].mandate)) <= Limit
             => \E x \in lines : ChargeOn(x) = i
=============================================================================
