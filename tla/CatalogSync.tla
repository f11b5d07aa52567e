------------------------------ MODULE CatalogSync ------------------------------
(***************************************************************************)
(* apps/api/src/catalogs: the mirror of external catalogues. A sync        *)
(* (syncAllCatalogs) takes the sources in turn: it reads a source's list   *)
(* page by page (sources/cdp-bazaar.ts), writes every entry into           *)
(* external_endpoints, where a row belongs to the source that wrote it     *)
(* last, and archives the rows of the source whose URL the list lacks.     *)
(* The scheduler skips a tick while one is under way; a POST to            *)
(* /admin/catalog/sync starts a sync whatever is under way.                *)
(*                                                                         *)
(* A page holds one entry here. Sources are pluggable and share the pager; *)
(* the stub for x402.org is a source whose list stays empty. The row of    *)
(* external_catalog_runs is read by a statistics page only and left out.   *)
(***************************************************************************)
EXTENDS Integers, Sequences

CONSTANTS
    Endpoints,    \* <<resource_url, pay_to>>: what a row is identified by
    SourceIds,
    SOURCES,      \* their order
    FirstList,    \* what each source lists at first
    MaxSyncs,     \* bounds how many syncs are started
    MaxPages,
    MaxChanges,   \* bounds how often the sources' lists change
    Unowned       \* the source of a row that is not there

ASSUME CatalogAssumption ==
    /\ SOURCES \in Seq(SourceIds) /\ SOURCES # <<>>
    /\ FirstList \in [SourceIds -> Seq(Endpoints)]
    /\ MaxPages \in Nat \ {0} /\ {MaxSyncs, MaxChanges} \subseteq Nat
    /\ Unowned \notin SourceIds

VARIABLES
    list,         \* what each source lists now
    changes,
    source,       \* of each row
    live,         \* the rows whose archived_at is NULL
    phase,        \* where each sync is
    manual,       \* those started by an administrator
    turn,         \* the source it is at
    out,          \* the entries it has read from it
    upserted,     \* how many of them it has been through
    steady,       \* history: what its source has listed all along the pass
    absent,       \* history: what its source has not listed all along it
    due, delisted, \* history: the same, of the last pass that archived rows
    lastUrls      \* history: the URLs of that pass's list

tableVars == <<source, live, due, delisted, lastUrls>>
passVars == <<turn, out, upserted, steady, absent>>
catalogVars == <<list, changes, tableVars, phase, manual, passVars>>

(* The syncs are numbered as they start.                                   *)
Syncs == 1 .. MaxSyncs
FirstIdle(r) == \A q \in Syncs : phase[q] = "idle" <=> q >= r

Url(e) == e[1]
Entries(l) == {l[n] : n \in DOMAIN l}
Urls(l) == {Url(e) : e \in Entries(l)}

Running(r) == phase[r] \in {"fetch", "write", "record"}
SourceOf(r) == SOURCES[turn[r]]

CatalogInit ==
    /\ list = FirstList /\ changes = 0
    /\ source = [e \in Endpoints |-> Unowned] /\ live = {}
    /\ phase = [r \in Syncs |-> "idle"] /\ manual = {}
    /\ turn = [r \in Syncs |-> 1]
    /\ out = [r \in Syncs |-> <<>>]
    /\ upserted = [r \in Syncs |-> 0]
    /\ steady = [r \in Syncs |-> {}] /\ absent = [r \in Syncs |-> {}]
    /\ due = [s \in SourceIds |-> {}] /\ delisted = [s \in SourceIds |-> {}]
    /\ lastUrls = [s \in SourceIds |-> {}]

-----------------------------------------------------------------------------
With(l, e, n) ==
    [m \in 1 .. Len(l) + 1 |-> IF m < n THEN l[m] ELSE IF m = n THEN e ELSE l[m - 1]]

Without(l, n) == [m \in 1 .. Len(l) - 1 |-> IF m < n THEN l[m] ELSE l[m + 1]]

(* The sources' lists change under the pager. A removal before the offset  *)
(* moves the entries behind it: what has not been read may be passed over. *)
Insert(s, e, n) ==
    /\ changes < MaxChanges /\ changes' = changes + 1
    /\ e \notin Entries(list[s])
    /\ n \in 1 .. Len(list[s]) + 1
    /\ list' = [list EXCEPT ![s] = With(@, e, n)]
    /\ absent' = [r \in Syncs |-> IF SourceOf(r) = s THEN absent[r] \ {e} ELSE absent[r]]
    /\ delisted' = [delisted EXCEPT ![s] = @ \ {e}]
    /\ UNCHANGED <<source, live, due, lastUrls, phase, manual, turn, out, upserted, steady>>

Remove(s, n) ==
    /\ changes < MaxChanges /\ changes' = changes + 1
    /\ n \in 1 .. Len(list[s])
    /\ list' = [list EXCEPT ![s] = Without(@, n)]
    /\ steady' = [r \in Syncs |->
           IF SourceOf(r) # s THEN steady[r]
           ELSE IF phase[r] = "fetch" /\ n <= Len(out[r])
                THEN (steady[r] \ {list[s][n]}) \intersect Entries(out[r])
                ELSE steady[r] \ {list[s][n]}]
    /\ UNCHANGED <<tableVars, phase, manual, turn, out, upserted, absent>>

-----------------------------------------------------------------------------
(* q is under way while r starts a pass, and one of them is a manual sync. *)
Crosses(q, r) == q # r /\ Running(q) /\ {q, r} \intersect manual' # {}

StartPass(r, n) ==
    LET listed == Entries(list[SOURCES[n]])
        History(hist, set) ==
            [q \in Syncs |-> IF Crosses(q, r) THEN {}
                             ELSE IF q # r THEN hist[q]
                             ELSE IF \E p \in Syncs : Crosses(p, r) THEN {} ELSE set]
    IN  /\ phase' = [phase EXCEPT ![r] = "fetch"]
        /\ turn' = [turn EXCEPT ![r] = n]
        /\ out' = [out EXCEPT ![r] = <<>>]
        /\ upserted' = [upserted EXCEPT ![r] = 0]
        /\ steady' = History(steady, listed)
        /\ absent' = History(absent, Endpoints \ listed)

(* Mutant: a tick does not look whether the one before is still running.   *)
TickAlways(r) ==
    /\ FirstIdle(r)
    /\ UNCHANGED <<list, changes, tableVars, manual>>
    /\ StartPass(r, 1)

tick(r) ==
    /\ FirstIdle(r)
    /\ \A q \in Syncs \ manual : ~Running(q)
    /\ UNCHANGED <<list, changes, tableVars, manual>>
    /\ StartPass(r, 1)

PostSync(r) ==
    /\ FirstIdle(r)
    /\ manual' = manual \union {r}
    /\ UNCHANGED <<list, changes, tableVars>>
    /\ StartPass(r, 1)

Moved(r, from, to) ==
    /\ phase[r] = from
    /\ phase' = [phase EXCEPT ![r] = to]

(* The syncs of R leave the pass they were in.                             *)
Leave(R, to) ==
    LET Reset(f, v) == [r \in Syncs |-> IF r \in R THEN v ELSE f[r]]
    IN  /\ phase' = Reset(phase, to)
        /\ turn' = IF to = "done" THEN Reset(turn, 1) ELSE turn
        /\ out' = Reset(out, <<>>)
        /\ upserted' = Reset(upserted, 0)
        /\ steady' = Reset(steady, {})
        /\ absent' = Reset(absent, {})

(* A page: the pager goes on until it has as many entries as the page says *)
(* there are, or has read MaxPages.                                        *)
FetchPage(r) ==
    LET l == list[SourceOf(r)]
        total == Len(l)
    IN  /\ Len(out[r]) < total
        /\ out' = [out EXCEPT ![r] = Append(@, l[Len(@) + 1])]
        /\ \/ Len(out'[r]) < total /\ Len(out'[r]) < MaxPages
              /\ Moved(r, "fetch", "fetch") /\ UNCHANGED steady
           \/ Len(out'[r]) = total
              /\ Moved(r, "fetch", "write") /\ UNCHANGED steady
           \/ Len(out'[r]) < total /\ Len(out'[r]) = MaxPages
              /\ Moved(r, "fetch", "write")
              /\ steady' = [steady EXCEPT ![r] = @ \intersect Entries(out'[r])]
        /\ UNCHANGED <<list, changes, tableVars, manual, turn, upserted, absent>>

(* An empty page, or one that could not be had: the list ends here.        *)
LastPage(r) ==
    /\ Moved(r, "fetch", "write")
    /\ \/ Len(out[r]) >= Len(list[SourceOf(r)]) /\ UNCHANGED steady
       \/ steady' = [steady EXCEPT ![r] = @ \intersect Entries(out[r])]
    /\ UNCHANGED <<list, changes, tableVars, manual, turn, out, upserted, absent>>

(* A source's fetch that throws is recorded as an error of that source.    *)
FetchThrows(r) ==
    /\ phase[r] = "fetch"
    /\ Leave({r}, "record")
    /\ UNCHANGED <<list, changes, tableVars, manual>>

UpsertRow(r, e) ==
    /\ live' = live \union {e}
    /\ source' = [source EXCEPT ![e] = SourceOf(r)]

(* The next entry of upsertEndpoints; a row that fails is skipped.         *)
UpsertEndpoint(r) ==
    /\ upserted[r] < Len(out[r])
    /\ Moved(r, "write", "write")
    /\ upserted' = [upserted EXCEPT ![r] = @ + 1]
    /\ LET e == out[r][upserted[r] + 1]
       IN  \/ UpsertRow(r, e) /\ UNCHANGED steady
           \/ /\ steady' = [steady EXCEPT ![r] = @ \ {e}]
              /\ UNCHANGED <<source, live>>
    /\ UNCHANGED <<list, changes, due, delisted, lastUrls, manual, turn, out, absent>>

(* Mutant: rows are archived by URL whichever source they are from now.    *)
MissingAnywhere(r) == {e \in Endpoints : Url(e) \notin Urls(out[r])}

Missing(r) == {e \in Endpoints : source[e] = SourceOf(r) /\ Url(e) \notin Urls(out[r])}

(* An empty list archives nothing.                                         *)
markArchivedIfMissing(r) ==
    /\ phase[r] = "write" /\ upserted[r] = Len(out[r])
    /\ Leave({r}, "record")
    /\ \/ out[r] = <<>> /\ UNCHANGED <<live, due, delisted, lastUrls>>
       \/ /\ out[r] # <<>>
          /\ live' = live \ Missing(r)
          /\ due' = [due EXCEPT ![SourceOf(r)] = steady[r]]
          /\ delisted' = [delisted EXCEPT ![SourceOf(r)] = absent[r]]
          /\ lastUrls' = [lastUrls EXCEPT ![SourceOf(r)] = Urls(out[r])]
    /\ UNCHANGED <<list, changes, source, manual>>

(* Its query throws: the sync is over and the sources behind are left out. *)
ArchiveThrows(r) ==
    /\ phase[r] = "write" /\ upserted[r] = Len(out[r]) /\ out[r] # <<>>
    /\ Leave({r}, "done")
    /\ UNCHANGED <<list, changes, tableVars, manual>>

(* recordRun, whose failure is logged, and the next source.                *)
recordRun(r) ==
    /\ phase[r] = "record"
    /\ UNCHANGED <<list, changes, tableVars, manual>>
    /\ \/ turn[r] < Len(SOURCES) /\ StartPass(r, turn[r] + 1)
       \/ turn[r] = Len(SOURCES) /\ Leave({r}, "done")

(* The process dies and takes its syncs with it.                           *)
Crash ==
    /\ \E r \in Syncs : Running(r)
    /\ Leave({r \in Syncs : Running(r)}, "done")
    /\ UNCHANGED <<list, changes, tableVars, manual>>

CatalogNext ==
    \/ \E s \in SourceIds : \E n \in 1 .. Len(list[s]) + 1 :
        Remove(s, n) \/ \E e \in Endpoints : Insert(s, e, n)
    \/ \E r \in Syncs :
        \/ tick(r) \/ PostSync(r)
        \/ FetchPage(r) \/ LastPage(r) \/ FetchThrows(r)
        \/ UpsertEndpoint(r) \/ markArchivedIfMissing(r) \/ ArchiveThrows(r) \/ recordRun(r)
    \/ Crash

CatalogSpec == CatalogInit /\ [][CatalogNext]_catalogVars

-----------------------------------------------------------------------------
CatalogTypeOK ==
    /\ list \in [SourceIds -> Seq(Endpoints)]
    /\ changes \in 0 .. MaxChanges
    /\ source \in [Endpoints -> SourceIds \union {Unowned}]
    /\ live \subseteq Endpoints
    /\ phase \in [Syncs -> {"idle", "fetch", "write", "record", "done"}]
    /\ manual \subseteq Syncs
    /\ turn \in [Syncs -> DOMAIN SOURCES]
    /\ out \in [Syncs -> Seq(Endpoints)]
    /\ upserted \in [Syncs -> Nat]
    /\ {steady, absent} \subseteq [Syncs -> SUBSET Endpoints]
    /\ {due, delisted} \subseteq [SourceIds -> SUBSET Endpoints]
    /\ lastUrls \in [SourceIds -> SUBSET {Url(e) : e \in Endpoints}]

(* What a source listed all along its last effective pass is on display    *)
(* until that source is read again or another one takes the row over:      *)
(* whatever changed meanwhile, failed, or died, and whatever the other     *)
(* sources list. (Not in it are the entries of a pass that a manual sync   *)
(* crossed, those whose own row failed, and those behind the page where    *)
(* the pager gave up, reached its cap or was overtaken by a removal: these *)
(* are archived although the source lists them.)                           *)
ListedIsVisible ==
    \A s \in SourceIds : \A e \in due[s] : source[e] = s => e \in live

(* What its source did not list all along that pass is not on display, but *)
(* for a row with another pay_to of a URL that the source does list.       *)
DelistedIsHidden ==
    \A s \in SourceIds : \A e \in delisted[s] :
        source[e] = s /\ e \in live => Url(e) \in lastUrls[s]
=============================================================================
