---------------------------- MODULE PGStateWrite ----------------------------
(***************************************************************************)
(* The write path of the Postgres state manager                            *)
(* (src/ext/storage/postgresstatemanager_write.go): WriteState opens a     *)
(* repeatable-read transaction, loads the persisted deployments, diffs     *)
(* them against the new state and issues one INSERT per table, then        *)
(* commits.  Deployment rows are never updated or deleted: a new or        *)
(* changed deployment gets a new "active" row, a removed one a             *)
(* "decommisioned" (tombstone) row, and the persisted state of a           *)
(* deployment is its row with the highest deployment_id.                   *)
(*                                                                         *)
(* Several Writers (server requests) run WriteState concurrently.  The     *)
(* database is modelled at the level the code depends on: rows tagged by   *)
(* the transaction that inserted them, snapshots, and the row locks and    *)
(* serialization failures of INSERT ... ON CONFLICT under repeatable read. *)
(* Any statement may also fail for reasons outside the model (connection   *)
(* loss, constraint errors); those are free choices.                       *)
(***************************************************************************)
EXTENDS Integers, Sequences, FiniteSets, FiniteSetsExt, SequencesExt, Relation

CONSTANTS
  Writers,     \* concurrent callers of WriteState
  Clusters,    \* cluster names (rows of table clusters)
  Components,  \* repo/dir/flavor/kind (rows of table components)
  Configs,     \* the distinguishable configurations of one deployment
  Absent,      \* "no deployment for this ID"
  NoTx,        \* a writer that holds no transaction
  NoRow,       \* a writer that waits on no row lock
  MaxTx        \* bound on the number of transactions opened

ASSUME Absent \notin Configs /\ NoRow \notin Clusters /\ MaxTx \in Nat \ {0}

\* A DeploymentID is a cluster and a component; a State maps every ID to its
\* configuration or to Absent.
DIDs   == Clusters \X Components
States == [DIDs -> Configs \cup {Absent}]
TxIds  == 1..MaxTx

\* Mutant: the child-row inserts issued before the deployment inserts.
StmtsChildrenFirst ==
  <<"components", "clusters", "owners", "component_owners", "envs", "resources",
    "metadatas", "volumes", "depUpdates", "depDeletes">>

\* The statements of storeManifests, in the order the code issues them.
\* "depUpdates" and "depDeletes" are the two inserts into deployments; the
\* last four insert child rows addressed through depID.
Stmts == <<"components", "clusters", "depUpdates", "depDeletes", "owners",
           "component_owners", "envs", "resources", "metadatas", "volumes">>
ChildTables == {"envs", "resources", "metadatas", "volumes"}
Stages == {"idle", "load", "commit"} \cup ToSet(Stmts)
Reports == {"none", "opening transaction", "storing state",
            "committing transaction"}

VARIABLES
  rows,        \* table deployments: <<[did, cfg, life, tx]>>, deployment_id = index
  compIns,     \* compIns[p]: transactions that inserted component p
  clusterW,    \* clusterW[c]: transactions that inserted or updated cluster c
  children,    \* child rows [tx, did, dep] of envs/resources/metadatas/volumes
  committed,   \* transactions that committed
  txCount,     \* transactions opened so far
  pc,          \* pc[w]: where writer w is in WriteState
  tx,          \* tx[w]: w's transaction
  snap,        \* snap[w]: transactions committed when w's snapshot was taken
  new,         \* new[w]: the state w is writing
  cur,         \* cur[w]: the persisted state w loaded
  aborted,     \* aborted[w]: the server has aborted w's transaction
  result,      \* result[w]: what w's last WriteState returned
  report,      \* report[w]: the context reportWriting gave the error
  failedAt,    \* failedAt[w]: the step at which w's last call first failed
  waitFor,     \* waitFor[w]: the cluster row w's upsert waits to lock, or NoRow
  lastWritten, \* history: lastWritten[d] = d's config in the last commit that wrote d
  written      \* history: the states committed WriteStates wrote

dbVars     == <<rows, compIns, clusterW, children, committed, txCount>>
writerVars == <<pc, tx, snap, new, cur, aborted, result, report, failedAt, waitFor>>
histVars   == <<lastWritten, written>>
vars       == <<dbVars, writerVars, histVars>>

-----------------------------------------------------------------------------
(* The database.                                                           *)

\* Transactions still open on behalf of some writer and not aborted by the
\* server: an error aborts the transaction and releases its row locks at
\* once, before the client's Commit or Rollback.
InProgress == {tx[w] : w \in {v \in Writers : pc[v] # "idle" /\ ~aborted[v]}} \ {NoTx}

\* The transactions whose rows w's statements see.  WriteState asks for
\* sql.LevelRepeatableRead: one snapshot, taken by the first statement
\* (loadState), plus w's own writes.
Visible(w) == snap[w] \cup {tx[w]}

\* loadState: a deployment's persisted configuration is that of its row with
\* the highest deployment_id, unless that row is a tombstone.
PersistedState(vis) ==
  [d \in DIDs |->
     LET i == SelectLastInSeq(rows, LAMBDA r : r.did = d /\ r.tx \in vis)
     IN  IF i = 0 \/ rows[i].life # "active" THEN Absent ELSE rows[i].cfg]

\* The loop over currentDeps.Diff(newDeps): Added and Modified go to updates,
\* Removed to deletes, both to alldeps; Same is dropped.
Updates(c, n) == {d \in DIDs : n[d] # Absent /\ n[d] # c[d]}
Deletes(c, n) == {d \in DIDs : c[d] # Absent /\ n[d] = Absent}
AllDeps(c, n) == Updates(c, n) \cup Deletes(c, n)

\* depID: the highest active deployment_id of d that w can see.
DepID(w, d) ==
  LET ids == {i \in 1..Len(rows) : rows[i].did = d /\ rows[i].life = "active"
                                   /\ rows[i].tx \in Visible(w)}
  IN  IF ids = {} THEN 0 ELSE Max(ids)

\* A row written by writers' transactions in ws, under INSERT ... ON CONFLICT
\* at repeatable read: it is locked while another writer's transaction that
\* wrote it is open, and writing it fails with a serialization error when a
\* transaction that committed after w's snapshot wrote it.
LockedFor(w, ws)   == (ws \cap InProgress) \ {tx[w]} # {}
ConflictFor(w, ws) == (ws \cap committed) \ snap[w] # {}

\* The components of alldeps that w cannot see: the only ones
\* "on conflict do nothing" inserts, and the only ones it can conflict on.
NewComps(w) ==
  {p \in {d[2] : d \in AllDeps(cur[w], new[w])} : compIns[p] \cap Visible(w) = {}}
DepClusters(w) == {d[1] : d \in AllDeps(cur[w], new[w])}

\* execInsertDeployments issues no statement when it has no rows.
StmtRows(w, s) ==
  CASE s \in {"components", "clusters"} -> AllDeps(cur[w], new[w])
    [] s = "depDeletes"                 -> Deletes(cur[w], new[w])
    [] OTHER                            -> Updates(cur[w], new[w])

NextStage(s) ==
  LET i == CHOOSE j \in 1..Len(Stmts) : Stmts[j] = s
  IN  IF i = Len(Stmts) THEN "commit" ELSE Stmts[i + 1]

-----------------------------------------------------------------------------
(* WriteState, one action per step of the writer.                          *)

\* WriteState returns an error: the deferred tx.Rollback() ends the
\* transaction.  failedAt keeps the first step that failed.
Fail(w, rep, at) ==
  /\ pc' = [pc EXCEPT ![w] = "idle"]
  /\ result' = [result EXCEPT ![w] = "err"]
  /\ report' = [report EXCEPT ![w] = rep]
  /\ failedAt' = [failedAt EXCEPT ![w] = IF @ = "none" THEN at ELSE @]

\* m.db.BeginTx: either opens a repeatable-read transaction or fails and
\* WriteState returns "opening transaction".
BeginTx(w, s) ==
  /\ pc[w] = "idle"
  /\ txCount < MaxTx
  /\ txCount' = txCount + 1
  /\ new' = [new EXCEPT ![w] = s]
  /\ aborted' = [aborted EXCEPT ![w] = FALSE]
  /\ \/ /\ tx' = [tx EXCEPT ![w] = txCount + 1]
        /\ pc' = [pc EXCEPT ![w] = "load"]
        /\ result' = [result EXCEPT ![w] = "none"]
        /\ report' = [report EXCEPT ![w] = "none"]
        /\ failedAt' = [failedAt EXCEPT ![w] = "none"]
     \/ /\ tx' = [tx EXCEPT ![w] = NoTx]
        /\ result' = [result EXCEPT ![w] = "err"]
        /\ report' = [report EXCEPT ![w] = "opening transaction"]
        /\ failedAt' = [failedAt EXCEPT ![w] = "begin"]
        /\ UNCHANGED pc
  /\ UNCHANGED <<rows, compIns, clusterW, children, committed, snap, cur, waitFor, histVars>>

\* storeManifests: state.Deployments() and loadState; the first statement of
\* the transaction fixes its snapshot.  Either may fail: "storing state".
LoadState(w) ==
  /\ pc[w] = "load"
  /\ \/ /\ snap' = [snap EXCEPT ![w] = committed]
        /\ cur' = [cur EXCEPT ![w] = PersistedState(committed \cup {tx[w]})]
        /\ pc' = [pc EXCEPT ![w] = "components"]
        /\ UNCHANGED <<result, report, failedAt>>
     \/ /\ Fail(w, "storing state", "load")
        /\ UNCHANGED <<snap, cur>>
  /\ UNCHANGED <<dbVars, tx, new, aborted, waitFor, histVars>>

\* execInsertDeployments with no rows issues no statement.
SkipStmt(w) ==
  /\ pc[w] \in ToSet(Stmts)
  /\ StmtRows(w, pc[w]) = {}
  /\ pc' = [pc EXCEPT ![w] = NextStage(pc[w])]
  /\ UNCHANGED <<dbVars, tx, snap, new, cur, aborted, result, report, failedAt, waitFor, histVars>>

\* A statement fails.  The server aborts the transaction.  For components
\* and clusters storeManifests then returns nil and WriteState goes on to
\* Commit; for every later statement it returns the error.
StmtError(w) ==
  /\ pc[w] \in ToSet(Stmts)
  /\ StmtRows(w, pc[w]) # {}
  /\ IF pc[w] \in {"components", "clusters"}
       THEN /\ aborted' = [aborted EXCEPT ![w] = TRUE]
            /\ failedAt' = [failedAt EXCEPT ![w] = pc[w]]
            /\ pc' = [pc EXCEPT ![w] = "commit"]
            /\ UNCHANGED <<result, report>>
       ELSE /\ Fail(w, "storing state", pc[w])
            /\ UNCHANGED aborted
  /\ waitFor' = [waitFor EXCEPT ![w] = NoRow]
  /\ UNCHANGED <<dbVars, tx, snap, new, cur, histVars>>

\* INSERT INTO components ... ON CONFLICT DO NOTHING.  It waits on a
\* component another open transaction inserted, and raises a serialization
\* failure (handled as StmtError) on one inserted after the snapshot.
InsertComponents(w) ==
  LET ws == UNION {compIns[p] : p \in NewComps(w)}
  IN  /\ pc[w] = "components"
      /\ StmtRows(w, "components") # {}
      /\ ~LockedFor(w, ws)
      /\ IF ConflictFor(w, ws)
           THEN /\ aborted' = [aborted EXCEPT ![w] = TRUE]
                /\ failedAt' = [failedAt EXCEPT ![w] = "components"]
                /\ pc' = [pc EXCEPT ![w] = "commit"]
                /\ UNCHANGED compIns
           ELSE /\ compIns' = [p \in Components |->
                                 IF p \in NewComps(w) THEN compIns[p] \cup {tx[w]}
                                 ELSE compIns[p]]
                /\ pc' = [pc EXCEPT ![w] = NextStage("components")]
                /\ UNCHANGED <<aborted, failedAt>>
      /\ UNCHANGED <<rows, clusterW, children, committed, txCount, tx, snap, new,
                     cur, result, report, waitFor, histVars>>

\* The cluster rows of alldeps w's upsert has not written yet.
Pending(w) == {c \in DepClusters(w) : tx[w] \notin clusterW[c]}

\* Mutant: a cluster row written without waiting for its lock, as with ON
\* CONFLICT DO NOTHING, which locks no existing row.
UpsertClustersNoWait(w) ==
  /\ pc[w] = "clusters"
  /\ StmtRows(w, "clusters") # {}
  /\ \E c \in Pending(w) :
       IF ConflictFor(w, clusterW[c])
         THEN /\ aborted' = [aborted EXCEPT ![w] = TRUE]
              /\ failedAt' = [failedAt EXCEPT ![w] = "clusters"]
              /\ pc' = [pc EXCEPT ![w] = "commit"]
              /\ UNCHANGED clusterW
         ELSE /\ clusterW' = [clusterW EXCEPT ![c] = @ \cup {tx[w]}]
              /\ pc' = [pc EXCEPT ![w] = IF Pending(w) = {c} THEN NextStage("clusters")
                                         ELSE "clusters"]
              /\ UNCHANGED <<aborted, failedAt>>
  /\ UNCHANGED <<rows, compIns, children, committed, txCount, tx, snap, new, cur,
                 result, report, waitFor, histVars>>

\* INSERT INTO clusters ... ON CONFLICT (name) DO UPDATE, one row at a time:
\* every cluster of alldeps is written, in the order of the VALUES list,
\* which is the iteration order of the Go map ds.Snapshot() returns, so any
\* pending row may come next.  A row another open transaction wrote is
\* locked: the statement waits on it (waitFor).  Once the lock is free, a
\* row a transaction committed after the snapshot wrote is a serialization
\* failure, which aborts the transaction; storeManifests swallows the error
\* (return nil) and WriteState goes on to Commit.
UpsertClusters(w) ==
  /\ pc[w] = "clusters"
  /\ StmtRows(w, "clusters") # {}
  /\ \E c \in Pending(w) :
       /\ waitFor[w] \in {NoRow, c}
       /\ CASE LockedFor(w, clusterW[c]) ->
                 /\ waitFor[w] = NoRow
                 /\ waitFor' = [waitFor EXCEPT ![w] = c]
                 /\ UNCHANGED <<clusterW, pc, aborted, failedAt>>
            [] ConflictFor(w, clusterW[c]) ->
                 /\ aborted' = [aborted EXCEPT ![w] = TRUE]
                 /\ failedAt' = [failedAt EXCEPT ![w] = "clusters"]
                 /\ pc' = [pc EXCEPT ![w] = "commit"]
                 /\ waitFor' = [waitFor EXCEPT ![w] = NoRow]
                 /\ UNCHANGED clusterW
            [] OTHER ->
                 /\ clusterW' = [clusterW EXCEPT ![c] = @ \cup {tx[w]}]
                 /\ waitFor' = [waitFor EXCEPT ![w] = NoRow]
                 /\ pc' = [pc EXCEPT ![w] = IF Pending(w) = {c} THEN NextStage("clusters")
                                            ELSE "clusters"]
                 /\ UNCHANGED <<aborted, failedAt>>
  /\ UNCHANGED <<rows, compIns, children, committed, txCount, tx, snap, new, cur,
                 result, report, histVars>>

\* WaitsFor[v, u]: v's upsert waits on a cluster row u's open transaction
\* holds.
WaitsFor ==
  [p \in Writers \X Writers |->
     /\ p[1] # p[2]
     /\ waitFor[p[1]] # NoRow
     /\ tx[p[2]] \in InProgress
     /\ tx[p[2]] \in clusterW[waitFor[p[1]]]]

\* Postgres's deadlock detector: a writer on a cycle of WaitsFor has its
\* statement fail ("deadlock detected"), which aborts its transaction.  The
\* error comes back from the clusters execInsertDeployments, so, as for any
\* clusters error, storeManifests returns nil and the Commit fails.
DeadlockDetected(w) ==
  /\ pc[w] = "clusters"
  /\ waitFor[w] # NoRow
  /\ TransitiveClosure(WaitsFor, Writers)[w, w]
  /\ aborted' = [aborted EXCEPT ![w] = TRUE]
  /\ failedAt' = [failedAt EXCEPT ![w] = "clusters"]
  /\ pc' = [pc EXCEPT ![w] = "commit"]
  /\ waitFor' = [waitFor EXCEPT ![w] = NoRow]
  /\ UNCHANGED <<dbVars, tx, snap, new, cur, result, report, histVars>>

\* Mutant: tombstones built from diff.Post (absent) instead of diff.Prior.
InsertDeploymentsPostForDeletes(w) ==
  LET ds     == SetToSeq(StmtRows(w, pc[w]))
      row(d) == [did |-> d, tx |-> tx[w], cfg |-> new[w][d],
                 life |-> IF pc[w] = "depDeletes" THEN "decommisioned" ELSE "active"]
  IN  /\ pc[w] \in {"depUpdates", "depDeletes"}
      /\ ds # <<>>
      /\ rows' = rows \o [i \in 1..Len(ds) |-> row(ds[i])]
      /\ pc' = [pc EXCEPT ![w] = NextStage(pc[w])]
      /\ UNCHANGED <<compIns, clusterW, children, committed, txCount, tx, snap,
                     new, cur, aborted, result, report, failedAt, waitFor, histVars>>

\* The two plain inserts into deployments: updates as "active" rows with the
\* new configuration, deletes as "decommisioned" rows with the prior one.
\* Each row takes the next deployment_id.
InsertDeployments(w) ==
  LET del  == pc[w] = "depDeletes"
      ds   == SetToSeq(StmtRows(w, pc[w]))
      row(d) == [did |-> d, tx |-> tx[w],
                 cfg  |-> IF del THEN cur[w][d] ELSE new[w][d],
                 life |-> IF del THEN "decommisioned" ELSE "active"]
  IN  /\ pc[w] \in {"depUpdates", "depDeletes"}
      /\ ds # <<>>
      /\ rows' = rows \o [i \in 1..Len(ds) |-> row(ds[i])]
      /\ pc' = [pc EXCEPT ![w] = NextStage(pc[w])]
      /\ UNCHANGED <<compIns, clusterW, children, committed, txCount, tx, snap,
                     new, cur, aborted, result, report, failedAt, waitFor, histVars>>

\* owners and component_owners: rows keyed by owner e-mail and component,
\* not by deployment.
InsertOwners(w) ==
  /\ pc[w] \in {"owners", "component_owners"}
  /\ StmtRows(w, pc[w]) # {}
  /\ pc' = [pc EXCEPT ![w] = NextStage(pc[w])]
  /\ UNCHANGED <<dbVars, tx, snap, new, cur, aborted, result, report, failedAt, waitFor, histVars>>

\* envs, resources, metadatas, volumes: one row per updated deployment,
\* attached to the deployment row found by the depID sub-select.
InsertChildren(w) ==
  /\ pc[w] \in ChildTables
  /\ StmtRows(w, pc[w]) # {}
  /\ children' = children \cup
       {[tx |-> tx[w], did |-> d, dep |-> DepID(w, d)] : d \in Updates(cur[w], new[w])}
  /\ pc' = [pc EXCEPT ![w] = NextStage(pc[w])]
  /\ UNCHANGED <<rows, compIns, clusterW, committed, txCount, tx, snap, new, cur,
                 aborted, result, report, failedAt, waitFor, histVars>>

\* Mutant: the error of tx.Commit() ignored.
CommitIgnoringError(w) ==
  /\ pc[w] = "commit"
  /\ \/ /\ ~aborted[w]
        /\ committed' = committed \cup {tx[w]}
        /\ lastWritten' = [d \in DIDs |->
                             IF d \in AllDeps(cur[w], new[w]) THEN new[w][d]
                             ELSE lastWritten[d]]
        /\ written' = written \cup {new[w]}
     \/ UNCHANGED <<committed, histVars>>
  /\ pc' = [pc EXCEPT ![w] = "idle"]
  /\ result' = [result EXCEPT ![w] = "ok"]
  /\ UNCHANGED <<rows, compIns, clusterW, children, txCount, tx, snap, new, cur,
                 aborted, report, failedAt, waitFor>>

\* tx.Commit().  On a transaction the server has aborted, lib/pq rolls back
\* and returns an error; otherwise the commit may still fail.
Commit(w) ==
  /\ pc[w] = "commit"
  /\ \/ /\ ~aborted[w]
        /\ committed' = committed \cup {tx[w]}
        /\ lastWritten' = [d \in DIDs |->
                             IF d \in AllDeps(cur[w], new[w]) THEN new[w][d]
                             ELSE lastWritten[d]]
        /\ written' = written \cup {new[w]}
        /\ pc' = [pc EXCEPT ![w] = "idle"]
        /\ result' = [result EXCEPT ![w] = "ok"]
        /\ UNCHANGED <<report, failedAt>>
     \/ /\ Fail(w, "committing transaction", "commit")
        /\ UNCHANGED <<committed, histVars>>
  /\ UNCHANGED <<rows, compIns, clusterW, children, txCount, tx, snap, new, cur,
                 aborted, waitFor>>

\* Every writer is idle and no transaction may be opened any more.
Done ==
  /\ txCount = MaxTx
  /\ \A w \in Writers : pc[w] = "idle"
  /\ UNCHANGED vars

Init ==
  /\ rows = <<>>
  /\ compIns = [p \in Components |-> {}]
  /\ clusterW = [c \in Clusters |-> {}]
  /\ children = {}
  /\ committed = {}
  /\ txCount = 0
  /\ pc = [w \in Writers |-> "idle"]
  /\ tx = [w \in Writers |-> NoTx]
  /\ snap = [w \in Writers |-> {}]
  /\ new = [w \in Writers |-> [d \in DIDs |-> Absent]]
  /\ cur = [w \in Writers |-> [d \in DIDs |-> Absent]]
  /\ aborted = [w \in Writers |-> FALSE]
  /\ result = [w \in Writers |-> "none"]
  /\ report = [w \in Writers |-> "none"]
  /\ failedAt = [w \in Writers |-> "none"]
  /\ waitFor = [w \in Writers |-> NoRow]
  /\ lastWritten = [d \in DIDs |-> Absent]
  /\ written = {}

Next ==
  \/ \E w \in Writers :
       \/ \E s \in States : BeginTx(w, s)
       \/ LoadState(w)
       \/ SkipStmt(w)
       \/ StmtError(w)
       \/ InsertComponents(w)
       \/ UpsertClusters(w)
       \/ DeadlockDetected(w)
       \/ InsertDeployments(w)
       \/ InsertOwners(w)
       \/ InsertChildren(w)
       \/ Commit(w)
  \/ Done

Spec == Init /\ [][Next]_vars

-----------------------------------------------------------------------------
(* Properties.                                                             *)

Rows == [did : DIDs, cfg : Configs, life : {"active", "decommisioned"}, tx : TxIds]

TypeOK ==
  /\ rows \in Seq(Rows)
  /\ compIns \in [Components -> SUBSET TxIds]
  /\ clusterW \in [Clusters -> SUBSET TxIds]
  /\ children \subseteq [tx : TxIds, did : DIDs, dep : 0..Len(rows)]
  /\ committed \subseteq TxIds
  /\ txCount \in 0..MaxTx
  /\ pc \in [Writers -> Stages]
  /\ tx \in [Writers -> TxIds \cup {NoTx}]
  /\ snap \in [Writers -> SUBSET TxIds]
  /\ new \in [Writers -> States]
  /\ cur \in [Writers -> States]
  /\ aborted \in [Writers -> BOOLEAN]
  /\ result \in [Writers -> {"none", "ok", "err"}]
  /\ report \in [Writers -> Reports]
  /\ failedAt \in [Writers -> {"none", "begin", "load", "commit"} \cup ToSet(Stmts)]
  /\ waitFor \in [Writers -> Clusters \cup {NoRow}]
  /\ lastWritten \in States
  /\ written \subseteq States

\* The state the database now holds, as a new reader would load it.
Persisted == PersistedState(committed)

\* When WriteState returns nil, its transaction committed and holds a row
\* with the new configuration for every deployment the diff changed; when
\* it returns an error after opening a transaction, nothing of that
\* transaction is ever visible.  (WriteState / tx.Commit error handling.)
OkMeansApplied ==
  \A w \in Writers :
    /\ result[w] = "ok" =>
         /\ tx[w] \in committed
         /\ \A d \in AllDeps(cur[w], new[w]) :
              \E i \in 1..Len(rows) : rows[i].tx = tx[w] /\ rows[i].did = d
                                      /\ rows[i].cfg = IF new[w][d] = Absent
                                                       THEN cur[w][d] ELSE new[w][d]
    /\ (result[w] = "err" /\ tx[w] # NoTx) => tx[w] \notin committed

\* Concurrent writers: every deployment holds the configuration written for
\* it by the last committed transaction that wrote it.  deployment_id order
\* is insertion order, not commit order; only the lock the clusters upsert
\* takes keeps two writers of one deployment from committing in the
\* opposite order to their inserts.
LastWriterWins == \A d \in DIDs : Persisted[d] = lastWritten[d]

\* The envs/resources/metadatas/volumes rows a committed WriteState inserts
\* hang off the deployment row that same WriteState inserted (the depID
\* sub-select picks max(deployment_id) among active rows it can see).
ChildRowsFollowDeployment ==
  \A c \in children :
    c.tx \in committed =>
      /\ c.dep \in 1..Len(rows)
      /\ rows[c.dep].tx = c.tx
      /\ rows[c.dep].did = c.did

\* WriteState writes a whole state, so in any serial execution of committed
\* WriteStates the database ends up holding the state of one of them.  The
\* spec says concurrent WriteStates are serialized by the transaction.
PersistedIsAWrittenState == written # {} => Persisted \in written

\* A statement that fails inside storeManifests is reported by WriteState
\* as an error "storing state" (its errors.Wrapf context), like every
\* other failure of storeManifests.
StoreErrorReportedAsStoring ==
  \A w \in Writers :
    (result[w] = "err" /\ failedAt[w] \in ToSet(Stmts)) => report[w] = "storing state"

\* One writer: WriteState implements the atomic write of
\* StateStoreAbstract.  The persisted state (what loadState would read
\* from committed rows) changes only when a call returns nil, and then to
\* exactly the state it was given; a call that returns an error, at
\* whatever statement it failed, leaves the persisted state as it was.
Atomic == INSTANCE StateStoreAbstract
            WITH persisted <- Persisted,
                 calling   <- {w \in Writers : pc[w] # "idle"},
                 req       <- new
StoreRefinesAtomicWrite == Atomic!Spec

=============================================================================
