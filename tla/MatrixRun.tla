----------------------------- MODULE MatrixRun -----------------------------
(* A matrix backtest from its submission to the dashboard: the handlers     *)
(* that create a batch and start its goroutine (api/router.go), the         *)
(* concurrent runner (backtest/batch_runner.go), the progress store both    *)
(* write to (api/progress_store.go), and the client that polls it           *)
(* (web/src/hooks/useMatrixStream.ts). One batch: batches share nothing but *)
(* the store's lock, and every method of the store holds that lock, so it   *)
(* is one step here. A combo is its number in the full product of           *)
(* strategies, symbols and timeframes; its number is also the key by which  *)
(* the store and the client recognise a result.                             *)
EXTENDS Integers, Sequences, FiniteSets, FiniteSetsExt

CONSTANTS
    Combos,       \* number of combos of the full product
    AllowedSets,  \* combos that strategyTimeframeAllowed keeps: the possible sets
    Skippable,    \* combos of a strategy that is not run on synthetic data
    Sizings,      \* sizings a light-optimized single run tries (4 in the code)
    MaxWorkers,   \* MatrixWorkers()
    BatchSize,    \* rows per database batch (100 in the code)
    MaxErrors     \* failed polls in a row after which the client stops (3)

ASSUME CombosAssumption ==
    /\ Combos \in Nat /\ Sizings \in Nat
    /\ MaxWorkers \in Nat \ {0} /\ BatchSize \in Nat \ {0} /\ MaxErrors \in Nat \ {0}
ASSUME SetsAssumption == AllowedSets \subseteq SUBSET (1 .. Combos) /\ Skippable \subseteq 1 .. Combos

VARIABLES
    mp,        \* the batch's MatrixProgress
    run,       \* the batch's goroutine, with the runner it calls
    rows,      \* backtest runs in the database: combos of the runner, by index
    client     \* the dashboard's stream

vars == <<mp, run, rows, client>>

Terminal == {"completed", "failed"}
Quick == 0         \* a result that carries no database id yet

-----------------------------------------------------------------------------
(* The progress store.                                                     *)

NewRecord(total) ==
    [total |-> total, combos |-> [i \in 1 .. total |-> "pending"], status |-> "running",
     completed |-> 0, failed |-> 0, running |-> 0, results |-> <<>>]

NoRecord == [NewRecord(0) EXCEPT !.status = "none"]

\* Mutant: the result is replaced at the place its combo has in the batch.
ReplaceResultAt(m, key, id) ==
    IF id \in DOMAIN m.results THEN [m EXCEPT !.results[id].id = id] ELSE m

\* The result of a combo that was terminal before replaces the one with its
\* key, wherever that one is.
ReplaceResult(m, key, id) ==
    LET at == {k \in DOMAIN m.results : m.results[k].key = key}
    IN  IF at = {} THEN m ELSE [m EXCEPT !.results[Min(at)].id = id]

\* The counters after combo i, in state prev, became terminal.
CountTerminal(m, prev, hasResult, key, id) ==
    [m EXCEPT !.running = IF prev = "running" THEN @ - 1 ELSE @,
              !.completed = @ + 1,
              !.results = IF hasResult THEN Append(@, [key |-> key, id |-> id]) ELSE @]

\* Mutant: the counters have to pass the total.
CloseBatchLate(m) ==
    IF m.completed + m.failed > m.total
    THEN [m EXCEPT !.status = "completed", !.running = 0]
    ELSE m

\* The end of UpdateCombo: a batch all of whose combos are counted is over.
CloseBatch(m) ==
    IF m.completed + m.failed >= m.total
    THEN [m EXCEPT !.status = "completed", !.running = 0]
    ELSE m

\* Mutant: a combo that was terminal before is counted again.
UpdateComboAgain(m, i, status, key, id) ==
    LET prev == m.combos[i]
        marked == [m EXCEPT !.combos[i] = status,
                            !.failed = IF status = "failed" THEN @ + 1 ELSE @]
    IN  IF status \in Terminal
        THEN CloseBatch(CountTerminal(marked, prev, status = "completed", key, id))
        ELSE CloseBatch([marked EXCEPT !.running = IF prev = "pending" THEN @ + 1 ELSE @])

\* UpdateCombo. A failure carries an error and no result, a completion the
\* reverse; the index is never beyond the record's combos.
UpdateCombo(m, i, status, key, id) ==
    LET prev == m.combos[i]
        marked == [m EXCEPT !.combos[i] = status,
                            !.failed = IF status = "failed" THEN @ + 1 ELSE @]
    IN  CASE status \in Terminal /\ prev \in Terminal ->
               IF status = "completed" THEN ReplaceResult(marked, key, id) ELSE marked
          [] status \in Terminal /\ prev \notin Terminal ->
               CloseBatch(CountTerminal(marked, prev, status = "completed", key, id))
          [] status = "running" ->
               CloseBatch([marked EXCEPT !.running = IF prev = "pending" THEN @ + 1 ELSE @])

Running(m, i) == UpdateCombo(m, i, "running", 0, Quick)
Failed(m, i) == UpdateCombo(m, i, "failed", 0, Quick)
Completed(m, i, key, id) == UpdateCombo(m, i, "completed", key, id)

-----------------------------------------------------------------------------
Init ==
    /\ mp = NoRecord
    /\ run = [pc |-> "none", kind |-> "none", work |-> <<>>, synthetic |-> FALSE, next |-> 1,
              active |-> {}, collected |-> <<>>, at |-> 1, orphaned |-> FALSE]
    /\ rows = {}
    /\ client = [pc |-> "none", seq |-> 0, delta |-> {}, to |-> 0, known |-> {}, errors |-> 0]

\* What the runner works through: the allowed combos, in their order. The
\* set has one member.
CartesianProduct(allowed) ==
    {work \in [1 .. Cardinality(allowed) -> allowed] :
        \A i, j \in DOMAIN work : i < j => work[i] < work[j]}

\* A handler creates the record and starts the goroutine; its response starts
\* the client.
Create(kind, total, work, synthetic) ==
    /\ run.pc = "none"
    /\ mp' = NewRecord(total)
    /\ run' = [run EXCEPT !.pc = IF kind = "single" THEN "single" ELSE "optimize",
                          !.kind = kind, !.work = work, !.synthetic = synthetic]
    /\ client' = [client EXCEPT !.pc = "idle"]
    /\ UNCHANGED rows

\* One entry for every combo the runner will run.
SubmitBacktest(allowed, synthetic) ==
    \E work \in CartesianProduct(allowed) : Create("backtest", Len(work), work, synthetic)

\* One entry for every combo of the full product, allowed or not.
SubmitMatrix(allowed, synthetic) ==
    \E work \in CartesianProduct(allowed) : Create("matrix", Combos, work, synthetic)

\* The sizings of one symbol, which share a key.
SubmitLightOptimize == Create("single", Sizings, [k \in 1 .. Sizings |-> 1], FALSE)

-----------------------------------------------------------------------------
(* RunMatrixConcurrent.                                                    *)

Runner(here) == run.pc = here /\ UNCHANGED client

\* The light optimization reports "optimized", which the handlers ignore.
LightOptimize ==
    /\ Runner("optimize")
    /\ run' = [run EXCEPT !.pc = "loop"]
    /\ UNCHANGED <<mp, rows>>

\* Only submitBacktest recovers a panic, wherever its goroutine is: before or
\* in the runner's loop, or at the database. It goes through all combos, and
\* the workers of the loop, whom nobody waits for now, report once more.
Panic ==
    /\ run.pc \in {"optimize", "loop", "insert", "update", "each"} /\ run.kind = "backtest"
    /\ mp' = [mp EXCEPT !.status = "failed"]
    /\ run' = [run EXCEPT !.pc = "recover", !.next = 1, !.orphaned = run.active # {}]
    /\ UNCHANGED <<rows, client>>

\* The recovery looks at a combo without the lock, then fails it.
RecoverCheck ==
    /\ Runner("recover") /\ run.next \in DOMAIN mp.combos
    /\ run' = IF mp.combos[run.next] \in {"pending", "running"}
              THEN [run EXCEPT !.pc = "fail"] ELSE [run EXCEPT !.next = @ + 1]
    /\ UNCHANGED <<mp, rows>>

RecoverFail ==
    /\ Runner("fail")
    /\ mp' = Failed(mp, run.next)
    /\ run' = [run EXCEPT !.pc = "recover", !.next = @ + 1]
    /\ UNCHANGED rows

RecoverEnds ==
    /\ Runner("recover") /\ run.next \notin DOMAIN mp.combos
    /\ run' = [run EXCEPT !.pc = "done"]
    /\ UNCHANGED <<mp, rows>>

Skips(k) == run.synthetic /\ run.work[k] \in Skippable

\* The handlers ignore "skipped" too.
SkipCombo ==
    /\ Runner("loop") /\ run.next \in DOMAIN run.work /\ Skips(run.next)
    /\ run' = [run EXCEPT !.next = @ + 1]
    /\ UNCHANGED <<mp, rows>>

\* Mutant: a combo that finds no worker free is left out.
StartComboTry ==
    /\ Runner("loop") /\ run.next \in DOMAIN run.work /\ ~Skips(run.next)
    /\ \/ /\ Cardinality(run.active) < MaxWorkers
          /\ mp' = Running(mp, run.next)
          /\ run' = [run EXCEPT !.next = @ + 1, !.active = @ \cup {run.next}]
       \/ /\ Cardinality(run.active) = MaxWorkers
          /\ run' = [run EXCEPT !.next = @ + 1]
          /\ UNCHANGED mp
    /\ UNCHANGED rows

\* The semaphore is acquired, the combo reported and its goroutine started.
StartCombo ==
    /\ Runner("loop") /\ run.next \in DOMAIN run.work /\ ~Skips(run.next)
    /\ Cardinality(run.active) < MaxWorkers
    /\ mp' = Running(mp, run.next)
    /\ run' = [run EXCEPT !.next = @ + 1, !.active = @ \cup {run.next}]
    /\ UNCHANGED rows

Worker(k) == k \in run.active /\ UNCHANGED <<rows, client>>

WorkerFails(k) ==
    /\ Worker(k)
    /\ mp' = Failed(mp, k)
    /\ run' = [run EXCEPT !.active = @ \ {k}]

\* The handler's callback reports the quick result, and keeps the result for
\* the database unless it cannot be encoded.
OnCompleted(k) ==
    /\ mp' = Completed(mp, k, run.work[k], Quick)
    /\ \E collect \in BOOLEAN :
          run' = [run EXCEPT !.active = @ \ {k},
                             !.collected = IF collect THEN Append(@, k) ELSE @]

WorkerCompletes(k) == Worker(k) /\ OnCompleted(k)

WaitEnds ==
    /\ Runner("loop") /\ run.next \notin DOMAIN run.work /\ run.active = {}
    /\ run' = [run EXCEPT !.pc = "insert"]
    /\ UNCHANGED <<mp, rows>>

-----------------------------------------------------------------------------
(* The handler's second half: the database.                                *)

ChunkEnd == Min({run.at + BatchSize - 1, Len(run.collected)})
Chunk == {run.collected[j] : j \in run.at .. ChunkEnd}

\* CreateBacktestRunsBatch, or the fall-back to single inserts.
InsertBatch ==
    /\ Runner("insert") /\ run.at <= Len(run.collected)
    /\ \/ rows' = rows \cup Chunk /\ run' = [run EXCEPT !.pc = "update", !.next = ChunkEnd]
       \/ rows' = rows /\ run' = [run EXCEPT !.pc = "each", !.next = ChunkEnd]
    /\ UNCHANGED mp

\* Mutant: the cursor advances by a batch after every row.
NextOfChunkByBatch(pc) ==
    run' = [run EXCEPT !.at = @ + BatchSize, !.pc = IF run.at = run.next THEN "insert" ELSE pc]

\* The next element of the chunk, whose last one is at run.next.
NextOfChunk(pc) ==
    run' = [run EXCEPT !.at = @ + 1, !.pc = IF run.at = run.next THEN "insert" ELSE pc]

ReportRow(k) == Completed(mp, k, run.work[k], k)

UpdateRow ==
    /\ Runner("update")
    /\ mp' = ReportRow(run.collected[run.at])
    /\ NextOfChunk("update")
    /\ UNCHANGED rows

InsertOne ==
    /\ Runner("each")
    /\ \/ /\ rows' = rows \cup {run.collected[run.at]}
          /\ mp' = ReportRow(run.collected[run.at])
       \/ UNCHANGED <<rows, mp>>
    /\ NextOfChunk("each")

InsertEnds ==
    /\ Runner("insert") /\ run.at > Len(run.collected)
    /\ run' = [run EXCEPT !.pc = "done"]
    /\ UNCHANGED <<mp, rows>>

-----------------------------------------------------------------------------
(* The light-optimized single run: sequential, nothing reported as running, *)
(* a panic logged and nothing else.                                         *)

SingleCombo ==
    /\ Runner("single") /\ run.next <= Len(run.work)
    /\ \/ mp' = Failed(mp, run.next)
       \/ mp' = Completed(mp, run.next, run.work[run.next], Quick)
    /\ run' = [run EXCEPT !.next = @ + 1]
    /\ UNCHANGED rows

SinglePanics ==
    /\ Runner("single") /\ run.next <= Len(run.work)
    /\ run' = [run EXCEPT !.pc = "done"]
    /\ UNCHANGED <<mp, rows>>

SingleEnds ==
    /\ Runner("single") /\ run.next > Len(run.work)
    /\ run' = [run EXCEPT !.pc = "done"]
    /\ UNCHANGED <<mp, rows>>

-----------------------------------------------------------------------------
(* Requests of the dashboard.                                              *)

\* cancelMatrix only marks the record: the runner's context is not its own.
Cancel ==
    /\ mp.status # "none"
    /\ mp' = [mp EXCEPT !.status = "cancelled",
                        !.combos = [i \in DOMAIN @ |->
                            IF @[i] \in {"pending", "running"} THEN "cancelled" ELSE @[i]]]
    /\ UNCHANGED <<run, rows, client>>

\* getMatrixResults takes the lock twice: first for the results since the
\* client's cursor and the next one ...
GetSince ==
    /\ client.pc = "idle"
    /\ client' = [client EXCEPT !.pc = "summary", !.to = Len(mp.results),
                     !.delta = {mp.results[k].key : k \in client.seq + 1 .. Len(mp.results)}]
    /\ UNCHANGED <<mp, run, rows>>

\* Mutant: the client takes its cursor from the summary.
ApplyDeltaSeq(status) ==
    [client EXCEPT !.pc = IF status \in {"completed", "failed", "cancelled"}
                          THEN "stopped" ELSE "idle",
                   !.known = @ \cup client.delta, !.seq = Len(mp.results),
                   !.delta = {}, !.to = 0, !.errors = 0]

\* Mutant: the client does not know that cancelled is the end.
ApplyDeltaOn(status) ==
    [client EXCEPT !.pc = IF status \in {"completed", "failed"} THEN "stopped" ELSE "idle",
                   !.known = @ \cup client.delta, !.seq = client.to,
                   !.delta = {}, !.to = 0, !.errors = 0]

\* The client adds the results, takes the cursor and looks at the status.
ApplyDelta(status) ==
    [client EXCEPT !.pc = IF status \in {"completed", "failed", "cancelled"}
                          THEN "stopped" ELSE "idle",
                   !.known = @ \cup client.delta, !.seq = client.to,
                   !.delta = {}, !.to = 0, !.errors = 0]

\* ... then for the summary, whose status may stop the client.
GetSummary ==
    /\ client.pc = "summary"
    /\ client' = ApplyDelta(mp.status)
    /\ UNCHANGED <<mp, run, rows>>

\* The request or its response is lost.
PollFails ==
    /\ client.pc \in {"idle", "summary"}
    /\ client' = [client EXCEPT
                    !.pc = IF client.errors + 1 >= MaxErrors THEN "stopped" ELSE "idle",
                    !.errors = @ + 1, !.delta = {}, !.to = 0]
    /\ UNCHANGED <<mp, run, rows>>

-----------------------------------------------------------------------------
Submission ==
    \/ \E allowed \in AllowedSets, synthetic \in BOOLEAN :
          SubmitBacktest(allowed, synthetic) \/ SubmitMatrix(allowed, synthetic)
    \/ SubmitLightOptimize

Goroutine ==
    \/ LightOptimize \/ Panic \/ RecoverCheck \/ RecoverFail \/ RecoverEnds
    \/ SkipCombo \/ StartCombo \/ WaitEnds
    \/ InsertBatch \/ UpdateRow \/ InsertOne \/ InsertEnds
    \/ SingleCombo \/ SinglePanics \/ SingleEnds

Work(k) == WorkerFails(k) \/ WorkerCompletes(k)
Poll == GetSince \/ GetSummary \/ PollFails

Next == Submission \/ Goroutine \/ (\E k \in run.active : Work(k)) \/ Cancel \/ Poll

Spec == Init /\ [][Next]_vars

\* The goroutines run, every backtest ends, and the client's timer fires.
FairSpec ==
    /\ Spec
    /\ WF_vars(Goroutine)
    /\ \A k \in 1 .. Combos : WF_vars(Work(k))
    /\ WF_vars(Poll)

-----------------------------------------------------------------------------
(* Properties.                                                             *)

InState(S) == {i \in DOMAIN mp.combos : mp.combos[i] \in S}

\* Type correctness; no more backtests run at a time than there are workers.
TypeOK ==
    /\ mp.status \in {"none", "running", "completed", "failed", "cancelled"}
    /\ mp.combos \in Seq({"pending", "running", "cancelled"} \cup Terminal)
    /\ mp.total = Len(mp.combos) /\ mp.running \in Int
    /\ run.active \subseteq DOMAIN run.work /\ Cardinality(run.active) <= MaxWorkers
    /\ run.at \in 1 .. Len(run.collected) + 1
    /\ client.pc \in {"none", "idle", "summary", "stopped"}

\* The store counts every combo once, whatever is reported twice (the quick
\* result and the one with the database id), failed, cancelled or recovered
\* after a panic; and there is one result for every combo that completed.
\* Workers a panic left behind report combos the recovery has failed already:
\* then only the number of the combos that ended is right.
CountsAreExact ==
    /\ mp.completed = Cardinality(InState(Terminal))
    /\ ~run.orphaned =>
          /\ mp.failed = Cardinality(InState({"failed"}))
          /\ Len(mp.results) = Cardinality(InState({"completed"}))
          /\ mp.status = "running" => mp.running = Cardinality(InState({"running"}))

\* A result that carries a database id carries that of its own run, in
\* whatever order the combos ended and whichever inserts failed.
ResultsMatchRows ==
    \A k \in DOMAIN mp.results :
        mp.results[k].id # Quick =>
            mp.results[k].id \in rows /\ run.work[mp.results[k].id] = mp.results[k].key

\* The client has exactly the results up to its cursor: none is skipped by a
\* poll that overlaps an update, and none is needed twice.
CursorIsExact ==
    /\ client.seq <= Len(mp.results)
    /\ client.known = {mp.results[k].key : k \in 1 .. client.seq}

\* The goroutine ends, through every wait for a worker and every panic, and
\* then each combo the runner does not skip has ended too; only a batch that
\* somebody cancelled may leave cancelled ones.
EveryComboEnds ==
    run.pc = "loop"
        ~> /\ run.pc = "done"
           /\ \A k \in DOMAIN run.work :
                 Skips(k) \/ mp.combos[k] \in Terminal \cup {"cancelled"}

\* A batch whose record has an entry for exactly what the runner runs does not
\* stay running, whether its combos complete, fail or are lost in a panic:
\* the last report closes it, or the recovery does.
BatchEnds ==
    run.kind = "backtest" /\ ~run.synthetic /\ run.work # <<>> ~> mp.status # "running"

\* A client whose batch is over, failed or cancelled stops polling.
ClientStops ==
    mp.status \in {"completed", "failed", "cancelled"} ~> client.pc = "stopped"
=============================================================================
