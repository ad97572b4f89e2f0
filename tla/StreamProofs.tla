--------------------------- MODULE StreamProofs ---------------------------
(***************************************************************************)
(* Proofs about the server's two streams to the dashboard.                 *)
(*                                                                         *)
(* MatrixRun, for any number of combos, workers, sizings and rows in a     *)
(* database batch: what UpdateCombo keeps of the progress store, then the  *)
(* invariant of the goroutine, its workers and the client.                 *)
(*                                                                         *)
(* WSHub, for any set of clients and any capacities:                       *)
(* the hub never touches a closed channel, and no registered client misses *)
(* a message.                                                              *)
(***************************************************************************)
EXTENDS MatrixRun, WSHub, FiniteSetTheorems, SequenceTheorems, WellFoundedInduction, TLAPS

-----------------------------------------------------------------------------
(***************************************************************************)
(* Facts about sets and sequences                                          *)
(***************************************************************************)

\* A non-empty set of natural numbers contains its minimum: the first result
\* with a key, which ReplaceResult replaces, is one with that key.
LEMMA MinOfNats ==
    ASSUME NEW S \in SUBSET Nat, S # {}
    PROVE  Min(S) \in S
<1> DEFINE R == {p \in Nat \X Nat : p[1] < p[2]}
<1>1. ~ \E f \in [Nat -> Nat] : \A n \in Nat : <<f[n + 1], f[n]>> \in R
  BY NatLessThanWellFounded, SMT DEF OpToRel, IsWellFoundedOn
<1>2. IsWellFoundedOn(R, Nat)
  BY <1>1 DEF IsWellFoundedOn
<1>3. \A i, j \in Nat : i < j => <<i, j>> \in R
  BY DEF R
<1> HIDE DEF R
<1>4. PICK x \in S : \A y \in S : ~(<<y, x>> \in R)
  BY <1>2, WFMin, Zenon
<1>5. \A y \in S : ~(y < x)
  BY <1>3, <1>4, Zenon
<1>6. \A y \in S : x <= y
  BY <1>5
<1> QED
  BY <1>6 DEF Min

ComboStates == {"pending", "running", "cancelled"} \cup Terminal

\* How many combos of c are in a state of S.
Count(c, S) == Cardinality({i \in DOMAIN c : c[i] \in S})

\* The combos of a sequence are finitely many, so a count is a number.
LEMMA CountType ==
    ASSUME NEW c \in Seq(ComboStates), NEW S
    PROVE  /\ IsFiniteSet({i \in DOMAIN c : c[i] \in S})
           /\ Count(c, S) \in Nat
<1>1. IsFiniteSet(1 .. Len(c))
  BY FS_Interval
<1>2. {i \in DOMAIN c : c[i] \in S} \subseteq 1 .. Len(c)
  OBVIOUS
<1>3. IsFiniteSet({i \in DOMAIN c : c[i] \in S})
  BY <1>1, <1>2, FS_Subset
<1> QED
  BY <1>3, FS_CardinalityType DEF Count

\* One combo changes its state: the count of S follows that combo alone.
LEMMA CountUpdate ==
    ASSUME NEW c \in Seq(ComboStates), NEW i \in DOMAIN c, NEW st \in ComboStates, NEW S,
           NEW d, DOMAIN d = DOMAIN c, \A k \in DOMAIN c : d[k] = IF k = i THEN st ELSE c[k]
    PROVE  /\ st \in S /\ c[i] \notin S => Count(d, S) = Count(c, S) + 1
           /\ st \notin S /\ c[i] \in S => Count(d, S) = Count(c, S) - 1
           /\ (st \in S <=> c[i] \in S) => Count(d, S) = Count(c, S)
<1> DEFINE C == {k \in DOMAIN c : c[k] \in S}
           D == {k \in DOMAIN d : d[k] \in S}
<1>1. /\ DOMAIN d = DOMAIN c
      /\ d[i] = st
      /\ \A k \in DOMAIN c : k # i => d[k] = c[k]
  OBVIOUS
<1>2. IsFiniteSet(C) /\ Count(c, S) = Cardinality(C) /\ Count(d, S) = Cardinality(D)
  BY CountType DEF Count
<1>3. Cardinality(C) \in Nat
  BY <1>2, FS_CardinalityType
<1>4. ASSUME st \in S, c[i] \notin S
      PROVE  Cardinality(D) = Cardinality(C) + 1
  <2>1. D = C \cup {i} /\ i \notin C
    BY <1>1, <1>4
  <2> HIDE DEF C, D
  <2> QED
    BY <1>2, <1>3, <2>1, FS_AddElement
<1>5. ASSUME st \notin S, c[i] \in S
      PROVE  Cardinality(D) = Cardinality(C) - 1
  <2>1. D = C \ {i} /\ i \in C
    BY <1>1, <1>5
  <2> HIDE DEF C, D
  <2> QED
    BY <1>2, <1>3, <2>1, FS_RemoveElement
<1>6. ASSUME st \in S <=> c[i] \in S
      PROVE  Cardinality(D) = Cardinality(C)
  <2>1. D = C
    BY <1>1, <1>6
  <2> QED
    BY <2>1
<1> HIDE DEF C, D
<1> QED
  BY <1>2, <1>4, <1>5, <1>6

\* d is c with the state of combo i replaced by st.
Update(d, c, i, st) ==
    /\ d \in Seq(ComboStates) /\ Len(d) = Len(c) /\ DOMAIN d = DOMAIN c
    /\ \A k \in DOMAIN c : d[k] = IF k = i THEN st ELSE c[k]

\* EXCEPT is such an update.
LEMMA UpdateByExcept ==
    ASSUME NEW c \in Seq(ComboStates), NEW i \in DOMAIN c, NEW st \in ComboStates
    PROVE  Update([c EXCEPT ![i] = st], c, i, st)
  BY DEF Update

\* The four counts a record keeps, when a combo that has not ended becomes
\* running, completed or failed.
LEMMA CountsUpdate ==
    ASSUME NEW c \in Seq(ComboStates), NEW i \in DOMAIN c, c[i] \notin Terminal,
           NEW st \in {"running", "completed", "failed"}, NEW d, Update(d, c, i, st)
    PROVE  /\ Count(d, Terminal) = IF st = "running" THEN Count(c, Terminal)
                                                     ELSE Count(c, Terminal) + 1
           /\ Count(d, {"failed"}) = IF st = "failed" THEN Count(c, {"failed"}) + 1
                                                      ELSE Count(c, {"failed"})
           /\ Count(d, {"completed"}) = IF st = "completed" THEN Count(c, {"completed"}) + 1
                                                            ELSE Count(c, {"completed"})
           /\ st = "running" =>
                Count(d, {"running"}) = IF c[i] = "running" THEN Count(c, {"running"})
                                                            ELSE Count(c, {"running"}) + 1
           /\ st # "running" =>
                Count(d, {"running"}) = IF c[i] = "running" THEN Count(c, {"running"}) - 1
                                                            ELSE Count(c, {"running"})
<1>1. st \in ComboStates /\ c[i] \in ComboStates
  BY DEF ComboStates, Terminal
<1>2. DOMAIN d = DOMAIN c /\ \A k \in DOMAIN c : d[k] = IF k = i THEN st ELSE c[k]
  BY DEF Update
<1>3. \A S : /\ st \in S /\ c[i] \notin S => Count(d, S) = Count(c, S) + 1
             /\ st \notin S /\ c[i] \in S => Count(d, S) = Count(c, S) - 1
             /\ (st \in S <=> c[i] \in S) => Count(d, S) = Count(c, S)
  BY <1>1, <1>2, CountUpdate
<1>4. Count(d, Terminal) = IF st = "running" THEN Count(c, Terminal) ELSE Count(c, Terminal) + 1
  BY <1>1, <1>3 DEF Terminal
<1>5. Count(d, {"failed"}) = IF st = "failed" THEN Count(c, {"failed"}) + 1
                                              ELSE Count(c, {"failed"})
  BY <1>1, <1>3 DEF Terminal
<1>6. Count(d, {"completed"}) = IF st = "completed" THEN Count(c, {"completed"}) + 1
                                                    ELSE Count(c, {"completed"})
  BY <1>1, <1>3 DEF Terminal
<1>7. /\ st = "running" =>
           Count(d, {"running"}) = IF c[i] = "running" THEN Count(c, {"running"})
                                                       ELSE Count(c, {"running"}) + 1
      /\ st # "running" =>
           Count(d, {"running"}) = IF c[i] = "running" THEN Count(c, {"running"}) - 1
                                                       ELSE Count(c, {"running"})
  BY <1>1, <1>3 DEF Terminal
<1> QED
  BY <1>4, <1>5, <1>6, <1>7

\* A combo that has ended and ends again leaves the number of the ended ones.
LEMMA EndedCount ==
    ASSUME NEW c \in Seq(ComboStates), NEW i \in DOMAIN c, c[i] \in Terminal,
           NEW st \in Terminal, NEW d, Update(d, c, i, st)
    PROVE  Count(d, Terminal) = Count(c, Terminal)
<1>1. st \in ComboStates
  BY DEF ComboStates
<1>2. DOMAIN d = DOMAIN c /\ \A k \in DOMAIN c : d[k] = IF k = i THEN st ELSE c[k]
  BY DEF Update
<1> QED
  BY <1>1, <1>2, CountUpdate

-----------------------------------------------------------------------------
(***************************************************************************)
(* The progress store                                                      *)
(***************************************************************************)

Result == [key : Nat, id : Nat]

Statuses == {"none", "running", "completed", "failed", "cancelled"}

Record ==
    [total : Nat, combos : Seq(ComboStates),
     status : Statuses,
     completed : Nat, failed : Nat, running : Int, results : Seq(Result)]

\* What every call keeps of a record: it counts the combos that ended.
StoreBase(m) ==
    /\ m \in Record
    /\ m.total = Len(m.combos)
    /\ m.completed = Count(m.combos, Terminal)

\* What a call keeps that does not report the end of a combo that failed
\* before: all counters are those of the combos, and a combo is cancelled only
\* in a batch that is no longer running.
StoreInv(m) ==
    /\ StoreBase(m)
    /\ m.failed = Count(m.combos, {"failed"})
    /\ Len(m.results) = Count(m.combos, {"completed"})
    /\ m.status = "running" => m.running = Count(m.combos, {"running"})
    /\ \A i \in DOMAIN m.combos : m.combos[i] = "cancelled" => m.status # "running"

\* m is the record with these fields.
Fields(m, total, combos, status, completed, failed, running, results) ==
    /\ m \in Record
    /\ m.total = total /\ m.combos = combos /\ m.status = status
    /\ m.completed = completed /\ m.failed = failed /\ m.running = running
    /\ m.results = results

\* UpdateCombo's record with the new state of combo i.
LEMMA MarkedFields ==
    ASSUME NEW m \in Record, NEW i \in DOMAIN m.combos, NEW st \in ComboStates, NEW failed \in Nat
    PROVE  Fields([m EXCEPT !.combos[i] = st, !.failed = failed],
                  m.total, [m.combos EXCEPT ![i] = st], m.status, m.completed, failed,
                  m.running, m.results)
<1> DEFINE c == [m.combos EXCEPT ![i] = st]
<1>1. c \in Seq(ComboStates)
  BY DEF Record
<1>2. [m EXCEPT !.combos[i] = st, !.failed = failed] = [m EXCEPT !.combos = c, !.failed = failed]
  OBVIOUS
<1> HIDE DEF c
<1>3. Fields([m EXCEPT !.combos = c, !.failed = failed],
             m.total, c, m.status, m.completed, failed, m.running, m.results)
  BY <1>1 DEF Record, Fields
<1> QED
  BY <1>2, <1>3, Zenon DEF c

\* CountTerminal counts the combo, and appends the result if there is one.
LEMMA CountTerminalFields ==
    ASSUME NEW m \in Record, NEW prev, NEW key \in Nat, NEW id \in Nat, NEW running,
           running = IF prev = "running" THEN m.running - 1 ELSE m.running
    PROVE  /\ Fields(CountTerminal(m, prev, TRUE, key, id), m.total, m.combos, m.status,
                     m.completed + 1, m.failed, running,
                     Append(m.results, [key |-> key, id |-> id]))
           /\ Fields(CountTerminal(m, prev, FALSE, key, id), m.total, m.combos, m.status,
                     m.completed + 1, m.failed, running, m.results)
<1> DEFINE r == Append(m.results, [key |-> key, id |-> id])
<1>1. running \in Int /\ m.completed + 1 \in Nat
  BY DEF Record
<1>2. r \in Seq(Result)
  <2>1. [key |-> key, id |-> id] \in Result
    BY DEF Result
  <2>2. m.results \in Seq(Result)
    BY DEF Record
  <2> QED
    BY <2>1, <2>2
<1>3. CountTerminal(m, prev, TRUE, key, id)
        = [m EXCEPT !.running = running, !.completed = m.completed + 1, !.results = r]
  BY DEF CountTerminal
<1>4. CountTerminal(m, prev, FALSE, key, id)
        = [m EXCEPT !.running = running, !.completed = m.completed + 1, !.results = m.results]
  BY DEF CountTerminal
<1> HIDE DEF r
<1>5. Fields([m EXCEPT !.running = running, !.completed = m.completed + 1, !.results = r],
             m.total, m.combos, m.status, m.completed + 1, m.failed, running, r)
  BY <1>1, <1>2 DEF Record, Fields
<1>6. Fields([m EXCEPT !.running = running, !.completed = m.completed + 1, !.results = m.results],
             m.total, m.combos, m.status, m.completed + 1, m.failed, running, m.results)
  BY <1>1 DEF Record, Fields
<1> QED
  BY <1>3, <1>4, <1>5, <1>6, Zenon DEF r

\* A change of the status and of the running combos changes nothing else.
LEMMA StatusFields ==
    ASSUME NEW m \in Record, NEW status \in Statuses, NEW running \in Int
    PROVE  Fields([m EXCEPT !.status = status, !.running = running],
                  m.total, m.combos, status, m.completed, m.failed, running, m.results)
  BY DEF Record, Fields

\* CloseBatch keeps the counters and the combos.
LEMMA CloseBatchKeeps ==
    ASSUME NEW m, StoreBase(m)
    PROVE  /\ StoreBase(CloseBatch(m))
           /\ StoreInv(m) => StoreInv(CloseBatch(m))
           /\ CloseBatch(m).total = m.total
           /\ CloseBatch(m).combos = m.combos
           /\ CloseBatch(m).results = m.results
<1>1. m \in Record
  BY DEF StoreInv, StoreBase
<1>2. CASE m.completed + m.failed >= m.total
  <2> DEFINE n == [m EXCEPT !.status = "completed", !.running = 0]
  <2>1. CloseBatch(m) = n
    BY <1>2 DEF CloseBatch
  <2>2. Fields(n, m.total, m.combos, "completed", m.completed, m.failed, 0, m.results)
    <3>1. "completed" \in Statuses /\ 0 \in Int
      BY DEF Statuses
    <3> QED
      BY <1>1, <3>1, StatusFields
  <2> HIDE DEF n
  <2> QED
    BY <1>1, <1>2, <2>1, <2>2 DEF Fields, StoreInv, StoreBase
<1>3. CASE ~(m.completed + m.failed >= m.total)
  BY <1>3 DEF CloseBatch
<1> QED
  BY <1>2, <1>3

\* A combo that has not ended is reported as running: one more runs, unless
\* the batch was cancelled before.
LEMMA RunningKeeps ==
    ASSUME NEW m, StoreInv(m), NEW i \in DOMAIN m.combos, m.combos[i] \notin Terminal
    PROVE  /\ StoreInv(Running(m, i))
           /\ Running(m, i).total = m.total
           /\ Update(Running(m, i).combos, m.combos, i, "running")
           /\ Running(m, i).results = m.results
<1> DEFINE c == [m.combos EXCEPT ![i] = "running"]
           running == IF m.combos[i] = "pending" THEN m.running + 1 ELSE m.running
           marked == [m EXCEPT !.combos[i] = "running", !.failed = m.failed]
           n == [marked EXCEPT !.running = running]
<1>1. /\ m \in Record /\ m.combos \in Seq(ComboStates) /\ m.combos[i] \in ComboStates
      /\ m.failed \in Nat /\ running \in Int
  BY DEF StoreInv, StoreBase, Record
<1>2. /\ "running" \in ComboStates /\ "running" \notin Terminal
      /\ "running" \in {"running", "completed", "failed"}
  BY DEF ComboStates, Terminal
<1>3. Update(c, m.combos, i, "running")
  BY <1>1, <1>2, UpdateByExcept
<1>4. Fields(marked, m.total, c, m.status, m.completed, m.failed, m.running, m.results)
  BY <1>1, <1>2, MarkedFields
<1>5. Running(m, i) = CloseBatch(n)
  BY <1>1, <1>2, <1>4 DEF Running, UpdateCombo, Fields
<1> HIDE DEF c, marked
<1>6. Fields(n, m.total, c, m.status, m.completed, m.failed, running, m.results)
  BY <1>1, <1>4 DEF Record, Fields
<1>7. /\ Count(c, Terminal) = Count(m.combos, Terminal)
      /\ Count(c, {"failed"}) = Count(m.combos, {"failed"})
      /\ Count(c, {"completed"}) = Count(m.combos, {"completed"})
      /\ Count(c, {"running"}) = IF m.combos[i] = "running" THEN Count(m.combos, {"running"})
                                                       ELSE Count(m.combos, {"running"}) + 1
  BY <1>1, <1>2, <1>3, CountsUpdate
<1> HIDE DEF n
<1>8. StoreInv(n)
  BY <1>1, <1>3, <1>6, <1>7 DEF StoreInv, StoreBase, Fields, Update, ComboStates, Terminal
<1>9. StoreBase(n)
  BY <1>8 DEF StoreInv
<1> QED
  BY <1>3, <1>5, <1>6, <1>8, <1>9, CloseBatchKeeps DEF Fields

\* A combo that has not ended fails: both counters count it, and the running
\* one does unless the batch was cancelled before.
LEMMA FailedKeeps ==
    ASSUME NEW m, StoreBase(m), NEW i \in DOMAIN m.combos, m.combos[i] \notin Terminal
    PROVE  /\ StoreBase(Failed(m, i))
           /\ StoreInv(m) => StoreInv(Failed(m, i))
           /\ Failed(m, i).total = m.total
           /\ Update(Failed(m, i).combos, m.combos, i, "failed")
           /\ Failed(m, i).results = m.results
<1> DEFINE c == [m.combos EXCEPT ![i] = "failed"]
           r == m.results
           running == IF m.combos[i] = "running" THEN m.running - 1 ELSE m.running
           marked == [m EXCEPT !.combos[i] = "failed", !.failed = m.failed + 1]
           n == CountTerminal(marked, m.combos[i], FALSE, 0, Quick)
<1>1. /\ m \in Record /\ m.combos \in Seq(ComboStates) /\ m.combos[i] \in ComboStates
      /\ m.results \in Seq(Result) /\ m.failed + 1 \in Nat /\ 0 \in Nat /\ Quick \in Nat
      /\ m.total \in Nat /\ m.completed \in Nat /\ m.failed \in Nat /\ m.running \in Int
  BY DEF StoreInv, StoreBase, Record, Quick
<1>2. /\ "failed" \in ComboStates /\ "failed" \in Terminal
      /\ "failed" \in {"running", "completed", "failed"}
  BY DEF ComboStates, Terminal
<1>3. Update(c, m.combos, i, "failed")
  BY <1>1, <1>2, UpdateByExcept
<1>4. Fields(marked, m.total, c, m.status, m.completed, m.failed + 1, m.running, m.results)
  BY <1>1, <1>2, MarkedFields
<1>5. Failed(m, i) = CloseBatch(n)
  BY <1>2 DEF Failed, UpdateCombo
<1> HIDE DEF c, marked
<1>6. Fields(n, m.total, c, m.status, m.completed + 1, m.failed + 1, running, r)
  <2>1. /\ marked \in Record
        /\ running = IF m.combos[i] = "running" THEN marked.running - 1 ELSE marked.running
    BY <1>4 DEF Fields
  <2> HIDE DEF running
  <2>2. Fields(n, marked.total, marked.combos, marked.status, marked.completed + 1,
               marked.failed, running, marked.results)
    BY <1>1, <2>1, CountTerminalFields
  <2> QED
    BY <1>4, <2>2 DEF Fields
<1>7. /\ Count(c, Terminal) = Count(m.combos, Terminal) + 1
      /\ Count(c, {"failed"}) = Count(m.combos, {"failed"}) + 1
      /\ Count(c, {"completed"}) = Count(m.combos, {"completed"})
      /\ Count(c, {"running"}) = IF m.combos[i] = "running" THEN Count(m.combos, {"running"}) - 1
                                                       ELSE Count(m.combos, {"running"})
  BY <1>1, <1>2, <1>3, CountsUpdate
<1>8. Len(r) = Len(m.results)
  OBVIOUS
<1> HIDE DEF n, r
<1>9. StoreBase(n)
  BY <1>3, <1>6, <1>7 DEF StoreBase, Fields, Update
<1>10. StoreInv(m) => StoreInv(n)
  BY <1>1, <1>3, <1>6, <1>7, <1>8, <1>9 DEF StoreInv, Fields, Update, ComboStates, Terminal
<1> QED
  BY <1>3, <1>5, <1>6, <1>9, <1>10, CloseBatchKeeps DEF Fields, r

\* A combo that has not ended completes: its result is the last one.
LEMMA CompletedKeeps ==
    ASSUME NEW m, StoreBase(m), NEW i \in DOMAIN m.combos, m.combos[i] \notin Terminal,
           NEW key \in Nat, NEW id \in Nat
    PROVE  /\ StoreBase(Completed(m, i, key, id))
           /\ StoreInv(m) => StoreInv(Completed(m, i, key, id))
           /\ Completed(m, i, key, id).total = m.total
           /\ Update(Completed(m, i, key, id).combos, m.combos, i, "completed")
           /\ Completed(m, i, key, id).results = Append(m.results, [key |-> key, id |-> id])
<1> DEFINE c == [m.combos EXCEPT ![i] = "completed"]
           r == Append(m.results, [key |-> key, id |-> id])
           running == IF m.combos[i] = "running" THEN m.running - 1 ELSE m.running
           marked == [m EXCEPT !.combos[i] = "completed", !.failed = m.failed]
           n == CountTerminal(marked, m.combos[i], TRUE, key, id)
<1>1. /\ m \in Record /\ m.combos \in Seq(ComboStates) /\ m.combos[i] \in ComboStates
      /\ m.results \in Seq(Result) /\ m.failed \in Nat /\ key \in Nat /\ id \in Nat
      /\ m.total \in Nat /\ m.completed \in Nat /\ m.failed \in Nat /\ m.running \in Int
  BY DEF StoreInv, StoreBase, Record
<1>2. /\ "completed" \in ComboStates /\ "completed" \in Terminal
      /\ "completed" \in {"running", "completed", "failed"}
  BY DEF ComboStates, Terminal
<1>3. Update(c, m.combos, i, "completed")
  BY <1>1, <1>2, UpdateByExcept
<1>4. Fields(marked, m.total, c, m.status, m.completed, m.failed, m.running, m.results)
  BY <1>1, <1>2, MarkedFields
<1>5. Completed(m, i, key, id) = CloseBatch(n)
  BY <1>2 DEF Completed, UpdateCombo
<1> HIDE DEF c, marked
<1>6. Fields(n, m.total, c, m.status, m.completed + 1, m.failed, running, r)
  <2>1. /\ marked \in Record
        /\ running = IF m.combos[i] = "running" THEN marked.running - 1 ELSE marked.running
    BY <1>4 DEF Fields
  <2> HIDE DEF running
  <2>2. Fields(n, marked.total, marked.combos, marked.status, marked.completed + 1,
               marked.failed, running, Append(marked.results, [key |-> key, id |-> id]))
    BY <1>1, <2>1, CountTerminalFields
  <2> QED
    BY <1>4, <2>2 DEF Fields
<1>7. /\ Count(c, Terminal) = Count(m.combos, Terminal) + 1
      /\ Count(c, {"failed"}) = Count(m.combos, {"failed"})
      /\ Count(c, {"completed"}) = Count(m.combos, {"completed"}) + 1
      /\ Count(c, {"running"}) = IF m.combos[i] = "running" THEN Count(m.combos, {"running"}) - 1
                                                       ELSE Count(m.combos, {"running"})
  BY <1>1, <1>2, <1>3, CountsUpdate
<1>8. Len(r) = Len(m.results) + 1
  <2>1. [key |-> key, id |-> id] \in Result
    BY DEF Result
  <2> QED
    BY <1>1, <2>1
<1> HIDE DEF n, r
<1>9. StoreBase(n)
  BY <1>3, <1>6, <1>7 DEF StoreBase, Fields, Update
<1>10. ASSUME StoreInv(m)
       PROVE  StoreInv(n)
  <2>1. /\ n.failed = Count(n.combos, {"failed"})
        /\ Len(n.results) = Count(n.combos, {"completed"})
    BY <1>3, <1>6, <1>7, <1>8, <1>10 DEF StoreInv, Fields, Update
  <2>2. n.status = "running" => n.running = Count(n.combos, {"running"})
    BY <1>6, <1>7, <1>10 DEF StoreInv, Fields
  <2>3. \A k \in DOMAIN n.combos : n.combos[k] = "cancelled" => n.status # "running"
    BY <1>3, <1>6, <1>10 DEF StoreInv, Fields, Update
  <2> QED
    BY <1>9, <2>1, <2>2, <2>3 DEF StoreInv
<1> QED
  BY <1>3, <1>5, <1>6, <1>9, <1>10, CloseBatchKeeps DEF Fields, r

\* r is results with some ids of the given key replaced by id: what the store
\* does when the result with the database id comes after the quick one.
Replaced(r, results, key, id) ==
    /\ r \in Seq(Result) /\ Len(r) = Len(results)
    /\ \A k \in DOMAIN results :
          /\ r[k].key = results[k].key
          /\ r[k].id = results[k].id \/ (r[k].id = id /\ results[k].key = key)

\* A combo that has ended before is reported completed: no counter changes,
\* only results with its key take the new id, and nothing else does if it had
\* completed.
LEMMA CompletedAgainKeeps ==
    ASSUME NEW m, StoreBase(m), NEW i \in DOMAIN m.combos, m.combos[i] \in Terminal,
           NEW key \in Nat, NEW id \in Nat
    PROVE  /\ StoreBase(Completed(m, i, key, id))
           /\ Update(Completed(m, i, key, id).combos, m.combos, i, "completed")
           /\ m.combos[i] = "completed" =>
                 /\ StoreInv(m) => StoreInv(Completed(m, i, key, id))
                 /\ Completed(m, i, key, id).combos = m.combos
           /\ Replaced(Completed(m, i, key, id).results, m.results, key, id)
<1> DEFINE at == {k \in DOMAIN m.results : m.results[k].key = key}
<1>1. /\ m \in Record /\ m.combos \in Seq(ComboStates) /\ m.results \in Seq(Result)
      /\ m.failed \in Nat /\ "completed" \in ComboStates
  BY DEF StoreBase, Record, ComboStates, Terminal
<1> DEFINE c == [m.combos EXCEPT ![i] = "completed"]
           marked == [m EXCEPT !.combos[i] = "completed", !.failed = m.failed]
<1>2. /\ Update(c, m.combos, i, "completed")
      /\ m.combos[i] = "completed" => c = m.combos
  BY <1>1, UpdateByExcept
<1>3. Fields(marked, m.total, c, m.status, m.completed, m.failed, m.running, m.results)
  BY <1>1, MarkedFields
<1>4. Completed(m, i, key, id) = ReplaceResult(marked, key, id)
  BY DEF Completed, UpdateCombo, Terminal
<1> HIDE DEF marked, c
<1>5. /\ StoreBase(marked)
      /\ m.combos[i] = "completed" /\ StoreInv(m) => StoreInv(marked)
  <2>1. Count(c, Terminal) = Count(m.combos, Terminal)
    BY <1>1, <1>2, EndedCount DEF Terminal
  <2>2. StoreBase(marked)
    BY <1>2, <1>3, <2>1 DEF StoreBase, Fields, Update
  <2> QED
    BY <1>2, <1>3, <2>2 DEF StoreInv, Fields
<1>6. CASE at = {}
  <2>1. ReplaceResult(marked, key, id) = marked
    BY <1>3, <1>6 DEF ReplaceResult, Fields
  <2> QED
    BY <1>1, <1>2, <1>3, <1>4, <1>5, <2>1 DEF Replaced, Fields
<1>7. ASSUME NEW x, x = Min(at), at # {}
      PROVE  /\ StoreBase(Completed(m, i, key, id))
             /\ Update(Completed(m, i, key, id).combos, m.combos, i, "completed")
             /\ m.combos[i] = "completed" =>
                   /\ StoreInv(m) => StoreInv(Completed(m, i, key, id))
                   /\ Completed(m, i, key, id).combos = m.combos
             /\ Replaced(Completed(m, i, key, id).results, m.results, key, id)
  <2> DEFINE r == [m.results EXCEPT ![x] = [m.results[x] EXCEPT !.id = id]]
  <2>1. at \in SUBSET Nat
    BY <1>1
  <2>2. x \in at
    <3> HIDE DEF at
    <3> QED
      BY <1>7, <2>1, MinOfNats
  <2>3. x \in DOMAIN m.results /\ m.results[x].key = key /\ m.results[x] \in Result
    BY <1>1, <2>2
  <2>4. ReplaceResult(marked, key, id) = [marked EXCEPT !.results = r]
    BY <1>3, <1>7 DEF ReplaceResult, Fields
  <2>5. [m.results[x] EXCEPT !.id = id] \in Result /\ [m.results[x] EXCEPT !.id = id].key = key
        /\ [m.results[x] EXCEPT !.id = id].id = id
    BY <2>3 DEF Result
  <2>6. /\ r \in Seq(Result) /\ Len(r) = Len(m.results)
        /\ \A k \in DOMAIN m.results :
              r[k] = IF k = x THEN [m.results[x] EXCEPT !.id = id] ELSE m.results[k]
    <3> DEFINE new == [m.results[x] EXCEPT !.id = id]
    <3> HIDE DEF new
    <3> QED
      BY <1>1, <2>3, <2>5 DEF new
  <2> HIDE DEF r
  <2>7. Replaced(r, m.results, key, id)
    BY <1>1, <2>3, <2>5, <2>6 DEF Replaced
  <2>8. Fields([marked EXCEPT !.results = r],
               m.total, c, m.status, m.completed, m.failed, m.running, r)
    BY <1>3, <2>6 DEF Fields, Record
  <2>9. /\ StoreBase([marked EXCEPT !.results = r])
        /\ StoreInv(marked) => StoreInv([marked EXCEPT !.results = r])
    BY <1>3, <1>5, <2>6, <2>8 DEF StoreInv, StoreBase, Fields
  <2> QED
    BY <1>2, <1>4, <1>5, <2>4, <2>7, <2>8, <2>9 DEF Fields
<1> QED
  BY <1>6, <1>7

\* A combo that has ended before is reported failed: the ended ones stay as
\* many, and the results are not touched.
LEMMA FailedAgainKeeps ==
    ASSUME NEW m, StoreBase(m), NEW i \in DOMAIN m.combos, m.combos[i] \in Terminal
    PROVE  /\ StoreBase(Failed(m, i))
           /\ Update(Failed(m, i).combos, m.combos, i, "failed")
           /\ Failed(m, i).results = m.results
<1> DEFINE c == [m.combos EXCEPT ![i] = "failed"]
           marked == [m EXCEPT !.combos[i] = "failed", !.failed = m.failed + 1]
<1>1. /\ m \in Record /\ m.combos \in Seq(ComboStates) /\ m.failed + 1 \in Nat
      /\ "failed" \in ComboStates
  BY DEF StoreBase, Record, ComboStates, Terminal
<1>2. Update(c, m.combos, i, "failed")
  BY <1>1, UpdateByExcept
<1>3. Fields(marked, m.total, c, m.status, m.completed, m.failed + 1, m.running, m.results)
  BY <1>1, MarkedFields
<1>4. Failed(m, i) = marked
  BY DEF Failed, UpdateCombo, Terminal
<1> HIDE DEF marked, c
<1>5. Count(c, Terminal) = Count(m.combos, Terminal)
  BY <1>1, <1>2, EndedCount DEF Terminal
<1> QED
  BY <1>2, <1>3, <1>4, <1>5 DEF StoreBase, Fields, Update

-----------------------------------------------------------------------------
(***************************************************************************)
(* The inductive invariant                                                 *)
(***************************************************************************)

Pcs == {"none", "optimize", "loop", "recover", "fail", "insert", "update", "each", "single", "done"}

RunType ==
    [pc : Pcs, kind : {"none", "backtest", "matrix", "single"}, work : Seq(Nat),
     synthetic : BOOLEAN, next : Nat, active : SUBSET Nat, collected : Seq(Nat), at : Nat,
     orphaned : BOOLEAN]

ClientType ==
    [pc : {"none", "idle", "summary", "stopped"}, seq : Nat, delta : SUBSET Nat, to : Nat,
     known : SUBSET Nat, errors : Nat]

\* The runner has not passed combo run.next yet.
Early == {"none", "optimize", "loop", "single"}

\* The goroutine is recovering from a panic, or has ended.
Late == {"recover", "fail", "done"}

\* The goroutine's position. Every combo it works on has an entry in the
\* record, one that it has not reached has not ended, the one the recovery
\* fails has not ended unless a worker left behind reported it meanwhile, and
\* a cursor into the collected results stays inside its chunk.
Position ==
    /\ Len(run.work) <= Len(mp.combos)
    /\ run.next >= 1
    /\ run.pc \in Early =>
          \A i \in DOMAIN mp.combos : i >= run.next => mp.combos[i] \notin Terminal
    /\ run.pc = "fail" =>
          run.next \in DOMAIN mp.combos /\ (~run.orphaned => mp.combos[run.next] \notin Terminal)
    /\ run.at >= 1 /\ run.at <= Len(run.collected) + 1
    /\ run.pc \in {"update", "each"} => run.at <= run.next /\ run.next <= Len(run.collected)

\* The workers run inside the loop, on combos that were started and have not
\* ended, or were left behind by a panic.
Workers ==
    /\ IsFiniteSet(run.active) /\ Cardinality(run.active) <= MaxWorkers
    /\ run.orphaned => run.pc \in Late
    /\ ~run.orphaned /\ run.pc # "loop" => run.active = {}
    /\ \A k \in run.active :
          /\ k \in DOMAIN run.work
          /\ ~run.orphaned => k < run.next /\ mp.combos[k] \notin Terminal

\* What was collected for the database completed, and the rows of a chunk are
\* in the database before they are reported.
Collected ==
    /\ \A j \in DOMAIN run.collected :
          /\ run.collected[j] \in DOMAIN run.work
          /\ ~run.orphaned => mp.combos[run.collected[j]] = "completed"
    /\ run.pc = "update" => \A j \in run.at .. run.next : run.collected[j] \in rows
    /\ run.pc = "none" => run.collected = <<>>

\* Between its two reads the client holds the results after its cursor; no
\* client runs before there is a batch.
Stream ==
    /\ CursorIsExact
    /\ client.pc = "summary" =>
          /\ client.seq <= client.to /\ client.to <= Len(mp.results)
          /\ client.delta = {mp.results[k].key : k \in client.seq + 1 .. client.to}
    /\ run.pc = "none" => client.pc = "none" /\ client.seq = 0 /\ client.known = {}

IInv ==
    /\ StoreBase(mp) /\ (~run.orphaned => StoreInv(mp))
    /\ run \in RunType /\ client \in ClientType
    /\ Position /\ Workers /\ Collected /\ ResultsMatchRows /\ Stream

\* A new record: nothing is counted.
LEMMA NewRecordInv ==
    ASSUME NEW n \in Nat
    PROVE  /\ StoreInv(NewRecord(n))
           /\ Len(NewRecord(n).combos) = n
           /\ \A i \in DOMAIN NewRecord(n).combos : NewRecord(n).combos[i] = "pending"
           /\ NewRecord(n).results = <<>>
<1> DEFINE c == [i \in 1 .. n |-> "pending"]
           m == NewRecord(n)
<1>1. /\ c \in Seq(ComboStates) /\ Len(c) = n /\ DOMAIN c = 1 .. n
      /\ \A i \in DOMAIN c : c[i] = "pending"
  BY DEF ComboStates
<1>2. ASSUME NEW S, "pending" \notin S
      PROVE  Count(c, S) = 0
  <2>1. {i \in DOMAIN c : c[i] \in S} = {}
    BY <1>1, <1>2
  <2> QED
    BY <2>1, FS_EmptySet DEF Count
<1>3. /\ Count(c, Terminal) = 0 /\ Count(c, {"failed"}) = 0
      /\ Count(c, {"completed"}) = 0 /\ Count(c, {"running"}) = 0
  <2> HIDE DEF c
  <2>1. "pending" \notin Terminal /\ "pending" \notin {"failed"}
        /\ "pending" \notin {"completed"} /\ "pending" \notin {"running"}
    BY DEF Terminal
  <2> QED
    BY <1>2, <2>1
<1>4. /\ m.total = n /\ m.combos = c /\ m.status = "running" /\ m.completed = 0
      /\ m.failed = 0 /\ m.running = 0 /\ m.results = <<>>
  BY DEF NewRecord
<1>5. <<>> \in Seq(Result) /\ Len(<<>>) = 0
  OBVIOUS
<1>6. m \in Record
  <2>1. m = [total |-> n, combos |-> c, status |-> "running", completed |-> 0, failed |-> 0,
             running |-> 0, results |-> <<>>]
    BY DEF NewRecord
  <2> HIDE DEF c
  <2> QED
    BY <1>1, <1>5, <2>1 DEF Record, Statuses
<1> HIDE DEF c, m
<1> QED
  BY <1>1, <1>3, <1>4, <1>5, <1>6 DEF StoreInv, StoreBase, m

\* An exact record counts the combos that ended.
LEMMA StoreBaseOf ==
    ASSUME NEW m, StoreInv(m)
    PROVE  StoreBase(m)
  BY DEF StoreInv

\* The program starts without a batch.
LEMMA InvInit == Init => IInv
<1> SUFFICES ASSUME Init PROVE IInv
  OBVIOUS
<1> DEFINE m == NewRecord(0)
<1>1. /\ StoreInv(m) /\ Len(m.combos) = 0 /\ m.results = <<>>
      /\ \A i \in DOMAIN m.combos : m.combos[i] = "pending"
  BY NewRecordInv
<1>2. m \in Record
  BY <1>1 DEF StoreInv, StoreBase
<1>3. mp = [m EXCEPT !.status = "none"]
  BY DEF Init, NoRecord
<1> HIDE DEF m
<1>4. /\ mp \in Record /\ mp.total = m.total /\ mp.combos = m.combos /\ mp.status = "none"
      /\ mp.completed = m.completed /\ mp.failed = m.failed /\ mp.running = m.running
      /\ mp.results = m.results
  BY <1>2, <1>3 DEF Record, Statuses
<1>5. StoreInv(mp)
  BY <1>1, <1>4 DEF StoreInv, StoreBase
<1>6. /\ run.pc = "none" /\ run.kind = "none" /\ run.work = <<>> /\ run.next = 1
      /\ run.active = {} /\ run.collected = <<>> /\ run.at = 1 /\ rows = {} /\ run.orphaned = FALSE
  BY DEF Init
<1>7. run \in RunType
  BY DEF Init, RunType, Pcs
<1>8. /\ client \in ClientType /\ client.pc = "none" /\ client.seq = 0 /\ client.known = {}
  BY DEF Init, ClientType
<1>9. Position /\ Workers /\ Collected
  <2>1. IsFiniteSet({}) /\ Cardinality({}) = 0
    BY FS_EmptySet
  <2> QED
    BY <1>1, <1>4, <1>6, <2>1, CombosAssumption DEF Position, Workers, Collected, Terminal
<1>10. ResultsMatchRows /\ Stream
  BY <1>1, <1>4, <1>6, <1>8 DEF ResultsMatchRows, Stream, CursorIsExact
<1> QED
  BY <1>5, StoreBaseOf, <1>7, <1>8, <1>9, <1>10 DEF IInv

-----------------------------------------------------------------------------
(***************************************************************************)
(* What a step of the goroutine keeps                                      *)
(***************************************************************************)

\* The goroutine's fields after the step.
RunIs(pc, next, active, collected, at) ==
    /\ run' \in RunType /\ run'.work = run.work /\ run'.orphaned = run.orphaned
    /\ run'.pc = pc /\ run'.next = next /\ run'.active = active
    /\ run'.collected = collected /\ run'.at = at

\* The results that were there keep their places and their keys.
Grows ==
    /\ Len(mp.results) <= Len(mp'.results)
    /\ \A k \in DOMAIN mp.results : mp'.results[k].key = mp.results[k].key

\* A client that does not move keeps its stream while the results grow.
LEMMA StreamKept ==
    ASSUME IInv, StoreBase(mp'), Grows, client' = client, run'.pc = "none" => run.pc = "none"
    PROVE  Stream'
<1>1. mp.results \in Seq(Result) /\ mp'.results \in Seq(Result) /\ client \in ClientType
  BY DEF IInv, StoreBase, Record
<1>2. ASSUME NEW a \in Nat, NEW b \in Nat, b <= Len(mp.results)
      PROVE  {mp'.results[k].key : k \in a + 1 .. b} = {mp.results[k].key : k \in a + 1 .. b}
  BY <1>1, <1>2, SMTT(30) DEF Grows
<1>3. client.seq \in Nat /\ client.to \in Nat /\ client.seq <= Len(mp.results)
  BY <1>1 DEF ClientType, IInv, Stream, CursorIsExact
<1>4. {mp'.results[k].key : k \in 1 .. client.seq} = {mp.results[k].key : k \in 1 .. client.seq}
  BY <1>1, <1>3, SMTT(30) DEF Grows
<1>5. CursorIsExact'
  <2>1. client.seq <= Len(mp'.results)
    BY <1>1, <1>3 DEF Grows
  <2>2. client.known = {mp'.results[k].key : k \in 1 .. client.seq}
    BY <1>4, Zenon DEF IInv, Stream, CursorIsExact
  <2> QED
    BY <2>1, <2>2, Zenon DEF CursorIsExact
<1>6. ASSUME client.pc = "summary"
      PROVE  /\ client.seq <= client.to /\ client.to <= Len(mp'.results)
             /\ client.delta = {mp'.results[k].key : k \in client.seq + 1 .. client.to}
  <2>1. /\ client.seq <= client.to /\ client.to <= Len(mp.results)
        /\ client.delta = {mp.results[k].key : k \in client.seq + 1 .. client.to}
    BY <1>6 DEF IInv, Stream
  <2>2. {mp'.results[k].key : k \in client.seq + 1 .. client.to}
           = {mp.results[k].key : k \in client.seq + 1 .. client.to}
    BY <1>2, <1>3, <2>1
  <2>3. client.to <= Len(mp'.results)
    BY <1>1, <1>3, <2>1 DEF Grows
  <2> QED
    BY <2>1, <2>2, <2>3, Zenon
<1> QED
  BY <1>5, <1>6 DEF IInv, Stream

\* The results keep their rows as long as neither is taken away.
LEMMA MatchKept ==
    ASSUME ResultsMatchRows, mp'.results = mp.results, run'.work = run.work, rows \subseteq rows'
    PROVE  ResultsMatchRows'
  BY DEF ResultsMatchRows

\* What was collected stays completed when a combo that has not ended is
\* updated.
LEMMA CollectedStays ==
    ASSUME IInv, ~run.orphaned, NEW i \in DOMAIN mp.combos, mp.combos[i] \notin Terminal, NEW st,
           NEW d, Update(d, mp.combos, i, st)
    PROVE  \A j \in DOMAIN run.collected :
             run.collected[j] \in DOMAIN run.work /\ d[run.collected[j]] = "completed"
<1>1. mp.combos \in Seq(ComboStates) /\ run.work \in Seq(Nat) /\ Len(run.work) <= Len(mp.combos)
  BY DEF IInv, StoreBase, Record, Position, RunType
<1>2. DOMAIN run.work \subseteq DOMAIN mp.combos
  BY <1>1
<1> QED
  BY <1>2 DEF IInv, Collected, Update, Terminal

\* Steps of the goroutine that leave the record alone.
LEMMA QuietSteps ==
    ASSUME IInv, LightOptimize \/ RecoverCheck \/ RecoverEnds \/ SkipCombo \/ WaitEnds
                 \/ InsertEnds \/ SinglePanics \/ SingleEnds
    PROVE  IInv'
<1> USE DEF Runner
<1>1. /\ run \in RunType /\ mp.combos \in Seq(ComboStates) /\ run.work \in Seq(Nat)
      /\ run.collected \in Seq(Nat) /\ run.next \in Nat /\ run.at \in Nat
  BY DEF IInv, StoreBase, Record, RunType
<1>2. mp' = mp /\ rows' = rows /\ client' = client
  BY DEF LightOptimize, RecoverCheck, RecoverEnds, SkipCombo, WaitEnds, InsertEnds,
         SinglePanics, SingleEnds
<1>3. PICK pc \in Pcs, next \in {run.next, run.next + 1} :
         /\ RunIs(pc, next, run.active, run.collected, run.at)
         /\ pc # "none" /\ pc \notin {"update", "each"}
         /\ pc \in Early => run.pc \in Early
         /\ run.orphaned => pc \in Late
         /\ ~run.orphaned /\ pc # "loop" => run.active = {}
         /\ pc = "fail" => next \in DOMAIN mp.combos /\ mp.combos[next] \notin Terminal
  <2>1. CASE LightOptimize
    BY <1>1, <2>1 DEF LightOptimize, RunIs, RunType, Pcs, Early, Late, IInv, Workers
  <2>2. CASE RecoverCheck
    <3>1. CASE mp.combos[run.next] \in {"pending", "running"}
      BY <1>1, <2>2, <3>1 DEF RecoverCheck, RunIs, RunType, Pcs, Early, Late, IInv, Workers, Terminal
    <3>2. CASE mp.combos[run.next] \notin {"pending", "running"}
      <4> DEFINE next == run.next + 1
      <4>0. run' = [run EXCEPT !.next = next] /\ next \in Nat /\ run.pc = "recover"
        BY <1>1, <2>2, <3>2 DEF RecoverCheck
      <4> HIDE DEF next
      <4>1. RunIs("recover", next, run.active, run.collected, run.at)
        BY <1>1, <4>0 DEF RunIs, RunType
      <4>2. /\ "recover" \in Pcs /\ "recover" \in Late /\ "recover" \notin Early
            /\ ~run.orphaned => run.active = {}
        BY <2>2 DEF RecoverCheck, Pcs, Early, Late, IInv, Workers
      <4> QED
        BY <4>1, <4>2 DEF next
    <3> QED
      BY <3>1, <3>2
  <2>3. CASE RecoverEnds \/ InsertEnds \/ SinglePanics \/ SingleEnds
    BY <1>1, <2>3 DEF RecoverEnds, InsertEnds, SinglePanics, SingleEnds, RunIs, RunType, Pcs,
                      Early, Late, IInv, Workers
  <2>4. CASE SkipCombo
    <3> DEFINE next == run.next + 1
    <3>0. run' = [run EXCEPT !.next = next] /\ next \in Nat /\ run.pc = "loop"
      BY <1>1, <2>4 DEF SkipCombo
    <3> HIDE DEF next
    <3>1. RunIs("loop", next, run.active, run.collected, run.at)
      BY <1>1, <3>0 DEF RunIs, RunType
    <3>2. "loop" \in Pcs /\ run.pc \in Early /\ ~run.orphaned
      BY <3>0 DEF Pcs, Early, Late, IInv, Workers
    <3> QED
      BY <3>1, <3>2 DEF next
  <2>5. CASE WaitEnds
    BY <1>1, <2>5 DEF WaitEnds, RunIs, RunType, Pcs, Early, Late, IInv, Workers
  <2> QED
    BY <2>1, <2>2, <2>3, <2>4, <2>5
<1>4. /\ run' \in RunType /\ client' \in ClientType
      /\ StoreBase(mp') /\ (~run'.orphaned => StoreInv(mp'))
  BY <1>2, <1>3 DEF RunIs, IInv
<1>5. Position'
  BY <1>1, <1>2, <1>3 DEF RunIs, IInv, Position
<1>6. Workers'
  BY <1>1, <1>2, <1>3 DEF RunIs, IInv, Workers
<1>7. Collected'
  BY <1>1, <1>2, <1>3 DEF RunIs, IInv, Collected
<1>8. ResultsMatchRows' /\ Stream'
  BY <1>2, <1>3, <1>4, MatchKept, StreamKept DEF RunIs, IInv, Grows, StoreBase, Record
<1> QED
  BY <1>4, <1>5, <1>6, <1>7, <1>8 DEF IInv

\* A panic of the goroutine: no combo ends, and the workers that run are left
\* behind.
LEMMA PanicStep ==
    ASSUME IInv, Panic
    PROVE  IInv'
<1> DEFINE orphaned == run.active # {}
<1>1. /\ run \in RunType /\ mp \in Record /\ mp.combos \in Seq(ComboStates)
      /\ run.work \in Seq(Nat) /\ run.collected \in Seq(Nat)
  BY DEF IInv, StoreBase, Record, RunType
<1>2. /\ mp' \in Record /\ mp'.total = mp.total /\ mp'.combos = mp.combos
      /\ mp'.status = "failed" /\ mp'.completed = mp.completed /\ mp'.failed = mp.failed
      /\ mp'.results = mp.results
  BY <1>1 DEF Panic, Record, Statuses
<1>3. /\ run' = [run EXCEPT !.pc = "recover", !.next = 1, !.orphaned = orphaned]
      /\ orphaned \in BOOLEAN /\ run.pc \notin Late /\ run.pc # "none"
      /\ orphaned = FALSE => run.active = {}
  BY DEF Panic, Late
<1>4. rows' = rows /\ client' = client
  BY DEF Panic
<1> HIDE DEF orphaned
<1>5. /\ run' \in RunType /\ run'.work = run.work /\ run'.orphaned = orphaned
      /\ run'.pc = "recover" /\ run'.next = 1 /\ run'.active = run.active
      /\ run'.collected = run.collected /\ run'.at = run.at
  BY <1>1, <1>3 DEF RunType, Pcs
<1>6. ~run.orphaned
  BY <1>3 DEF IInv, Workers
<1>7. StoreBase(mp') /\ StoreInv(mp') /\ client' \in ClientType
  BY <1>2, <1>4, <1>6 DEF IInv, StoreBase, StoreInv
<1>8. Position'
  BY <1>2, <1>5 DEF IInv, Position, Early
<1>9. Workers'
  <2>1. ~orphaned => run.active = {}
    BY <1>3
  <2>2. \A k \in run.active : k \in DOMAIN run.work
    BY DEF IInv, Workers
  <2> QED
    BY <1>5, <2>1, <2>2 DEF IInv, Workers, Late
<1>10. Collected'
  BY <1>2, <1>5, <1>6 DEF IInv, Collected
<1>11. ResultsMatchRows' /\ Stream'
  BY <1>2, <1>3, <1>4, <1>5, <1>7, MatchKept, StreamKept DEF IInv, Grows, StoreBase, Record
<1> QED
  BY <1>5, <1>7, <1>8, <1>9, <1>10, <1>11 DEF IInv

\* A cancellation closes the record and leaves every count exact.
LEMMA CancelStep ==
    ASSUME IInv, Cancel
    PROVE  IInv'
<1> DEFINE c == [i \in DOMAIN mp.combos |->
                    IF mp.combos[i] \in {"pending", "running"} THEN "cancelled"
                    ELSE mp.combos[i]]
<1>1. /\ run \in RunType /\ mp \in Record /\ mp.combos \in Seq(ComboStates)
      /\ run.work \in Seq(Nat) /\ run.collected \in Seq(Nat)
      /\ Len(run.work) <= Len(mp.combos)
  BY DEF IInv, StoreBase, Record, RunType, Position
<1>2. /\ c \in Seq(ComboStates) /\ Len(c) = Len(mp.combos) /\ DOMAIN c = DOMAIN mp.combos
      /\ \A i \in DOMAIN mp.combos : c[i] = IF mp.combos[i] \in {"pending", "running"}
                                            THEN "cancelled" ELSE mp.combos[i]
  <2>1. DOMAIN mp.combos = 1 .. Len(mp.combos) /\ Len(mp.combos) \in Nat
    BY <1>1
  <2>2. \A i \in DOMAIN mp.combos : mp.combos[i] \in ComboStates /\ "cancelled" \in ComboStates
    BY <1>1 DEF ComboStates
  <2> QED
    BY <2>1, <2>2
<1>3. mp' = [mp EXCEPT !.status = "cancelled", !.combos = c]
  BY <1>1 DEF Cancel
<1> HIDE DEF c
<1>4. /\ mp' \in Record /\ mp'.total = mp.total /\ mp'.combos = c
      /\ mp'.status = "cancelled" /\ mp'.completed = mp.completed /\ mp'.failed = mp.failed
      /\ mp'.results = mp.results
  BY <1>1, <1>2, <1>3 DEF Record, Statuses
<1>5. run' = run /\ rows' = rows /\ client' = client
  BY DEF Cancel
<1>6. /\ Count(c, Terminal) = Count(mp.combos, Terminal)
      /\ Count(c, {"failed"}) = Count(mp.combos, {"failed"})
      /\ Count(c, {"completed"}) = Count(mp.combos, {"completed"})
  <2>1. \A S \in {Terminal, {"failed"}, {"completed"}} :
          {i \in DOMAIN c : c[i] \in S} = {i \in DOMAIN mp.combos : mp.combos[i] \in S}
    BY <1>2 DEF Terminal
  <2> QED
    BY <2>1 DEF Count
<1>7. StoreBase(mp') /\ (~run.orphaned => StoreInv(mp'))
  BY <1>2, <1>4, <1>6 DEF IInv, StoreInv, StoreBase
<1>8. \A i \in DOMAIN mp.combos :
        /\ mp.combos[i] \notin Terminal => c[i] \notin Terminal
        /\ mp.combos[i] = "completed" => c[i] = "completed"
  BY <1>2 DEF Terminal
<1>9. Position'
  <2>1. ASSUME run.pc \in Early, NEW i \in DOMAIN c, i >= run.next
        PROVE  c[i] \notin Terminal
    <3>1. i \in DOMAIN mp.combos
      BY <1>2, <2>1, Zenon
    <3>2. mp.combos[i] \notin Terminal
      BY <2>1, <3>1, Zenon DEF IInv, Position
    <3> QED
      BY <1>8, <3>1, <3>2, Zenon
  <2>2. /\ Len(run.work) <= Len(c)
        /\ run.pc = "fail" =>
              run.next \in DOMAIN c /\ (~run.orphaned => c[run.next] \notin Terminal)
    BY <1>1, <1>2, <1>8 DEF IInv, Position
  <2> QED
    BY <1>4, <1>5, <2>1, <2>2 DEF IInv, Position
<1>10. DOMAIN run.work \subseteq DOMAIN mp.combos
  BY <1>1
<1>11. Workers' /\ Collected'
  <2>1. ~run.orphaned => \A k \in run.active : c[k] \notin Terminal
    BY <1>8, <1>10, Zenon DEF IInv, Workers
  <2>2. ~run.orphaned => \A j \in DOMAIN run.collected : c[run.collected[j]] = "completed"
    BY <1>8, <1>10, Zenon DEF IInv, Collected
  <2> QED
    BY <1>4, <1>5, <2>1, <2>2 DEF IInv, Workers, Collected
<1>12. ResultsMatchRows' /\ Stream'
  BY <1>4, <1>5, <1>7, MatchKept, StreamKept DEF IInv, Grows, StoreBase, Record
<1> QED
  BY <1>5, <1>7, <1>9, <1>11, <1>12 DEF IInv

\* A combo starts, the runner fails what a panic left, a single run fails or
\* completes a sizing, a worker ends: combo i becomes st and no other changes.
Ends(i, st) ==
    /\ i \in DOMAIN mp.combos /\ st \in {"running", "completed", "failed"}
    /\ StoreBase(mp') /\ (~run.orphaned => StoreInv(mp') /\ mp.combos[i] \notin Terminal)
    /\ Update(mp'.combos, mp.combos, i, st)
    /\ rows' = rows /\ client' = client
    /\ \/ mp'.results = mp.results
       \/ \E key \in Nat : \/ mp'.results = Append(mp.results, [key |-> key, id |-> Quick])
                           \/ Replaced(mp'.results, mp.results, key, Quick)

\* The results keep their rows and the client its stream.
LEMMA EndsKeeps ==
    ASSUME IInv, NEW i, NEW st, Ends(i, st), run'.work = run.work, run'.pc # "none"
    PROVE  ResultsMatchRows' /\ Stream'
<1>1. mp.results \in Seq(Result) /\ mp'.results \in Seq(Result)
  BY DEF IInv, StoreBase, Record, Ends
<1>2. CASE mp'.results = mp.results
  BY <1>1, <1>2, MatchKept, StreamKept DEF Ends, IInv, Grows
<1>3. ASSUME NEW key \in Nat, mp'.results = Append(mp.results, [key |-> key, id |-> Quick])
      PROVE  ResultsMatchRows' /\ Stream'
  <2> DEFINE new == [key |-> key, id |-> Quick]
  <2>1. new \in Result /\ new.id = Quick
    BY DEF Result, Quick
  <2> HIDE DEF new
  <2>2. mp'.results = Append(mp.results, new)
    BY <1>3 DEF new
  <2>3. /\ Len(mp'.results) = Len(mp.results) + 1
        /\ \A k \in DOMAIN mp.results : mp'.results[k] = mp.results[k]
        /\ \A k \in DOMAIN mp'.results : k \in DOMAIN mp.results \/ mp'.results[k] = new
    BY <1>1, <2>1, <2>2
  <2>4. Grows
    BY <1>1, <2>3 DEF Grows
  <2>5. Stream'
    BY <2>4, StreamKept DEF Ends
  <2>6. ResultsMatchRows'
    BY <2>1, <2>3 DEF Ends, IInv, ResultsMatchRows
  <2> QED
    BY <2>5, <2>6
<1>4. ASSUME NEW key \in Nat, Replaced(mp'.results, mp.results, key, Quick)
      PROVE  ResultsMatchRows' /\ Stream'
  <2>1. Grows /\ DOMAIN mp'.results = DOMAIN mp.results
    BY <1>1, <1>4 DEF Grows, Replaced
  <2>2. Stream'
    BY <2>1, StreamKept DEF Ends
  <2>3. ResultsMatchRows'
    BY <1>4, <2>1 DEF Ends, IInv, ResultsMatchRows, Replaced
  <2> QED
    BY <2>2, <2>3
<1> QED
  BY <1>2, <1>3, <1>4 DEF Ends

\* A failure is reported: of a combo that has not ended, unless a panic left
\* workers behind.
LEMMA FailureEnds ==
    ASSUME IInv, NEW i \in DOMAIN mp.combos, ~run.orphaned => mp.combos[i] \notin Terminal,
           mp' = Failed(mp, i), rows' = rows, client' = client
    PROVE  Ends(i, "failed")
<1>1. StoreBase(mp) /\ (~run.orphaned => StoreInv(mp))
  BY DEF IInv
<1>2. CASE mp.combos[i] \notin Terminal
  BY <1>1, <1>2, FailedKeeps DEF Ends
<1>3. CASE mp.combos[i] \in Terminal
  BY <1>1, <1>3, FailedAgainKeeps DEF Ends
<1> QED
  BY <1>2, <1>3

\* So is a completion with its quick result.
LEMMA CompletionEnds ==
    ASSUME IInv, NEW i \in DOMAIN mp.combos, ~run.orphaned => mp.combos[i] \notin Terminal,
           NEW key \in Nat, mp' = Completed(mp, i, key, Quick), rows' = rows, client' = client
    PROVE  Ends(i, "completed")
<1>1. StoreBase(mp) /\ (~run.orphaned => StoreInv(mp)) /\ Quick \in Nat
  BY DEF IInv, Quick
<1>2. CASE mp.combos[i] \notin Terminal
  BY <1>1, <1>2, CompletedKeeps DEF Ends
<1>3. CASE mp.combos[i] \in Terminal
  BY <1>1, <1>3, CompletedAgainKeeps DEF Ends
<1> QED
  BY <1>2, <1>3

\* The goroutine moves on accordingly: it has passed a combo that ended, no
\* worker is left on it, and only a completed one is collected.
LEMMA EndsStep ==
    ASSUME IInv, ~run.orphaned, NEW i, NEW st, Ends(i, st),
           NEW pc \in {"loop", "recover", "single"}, NEW next \in Nat, NEW active, NEW collected,
           RunIs(pc, next, active, collected, run.at),
           pc # "recover" => run.pc \in Early, next >= run.next, st \in Terminal => i < next,
           IsFiniteSet(active), Cardinality(active) <= MaxWorkers, pc # "loop" => active = {},
           \A k \in active : \/ k \in run.active /\ (st \in Terminal => k # i)
                             \/ k = i /\ st = "running" /\ i \in DOMAIN run.work /\ i < next,
           \/ collected = run.collected
           \/ collected = Append(run.collected, i) /\ st = "completed" /\ i \in DOMAIN run.work
    PROVE  IInv'
<1> DEFINE d == mp'.combos
<1>1. /\ mp.combos \in Seq(ComboStates) /\ run.work \in Seq(Nat) /\ run.collected \in Seq(Nat)
      /\ collected \in Seq(Nat) /\ run.next \in Nat /\ run.at \in Nat
      /\ Len(run.work) <= Len(mp.combos) /\ DOMAIN run.work \subseteq DOMAIN mp.combos
      /\ run.active \subseteq DOMAIN run.work /\ run.active \subseteq Nat
  BY DEF IInv, StoreBase, Record, RunType, RunIs, Position, Workers
<1>2. /\ d \in Seq(ComboStates) /\ Len(d) = Len(mp.combos) /\ DOMAIN d = DOMAIN mp.combos
      /\ \A k \in DOMAIN mp.combos : d[k] = IF k = i THEN st ELSE mp.combos[k]
      /\ i \in DOMAIN mp.combos /\ i \in Nat /\ mp.combos[i] \notin Terminal
      /\ st \in {"running", "completed", "failed"}
  BY <1>1 DEF Ends, Update
<1> HIDE DEF d
<1>3. StoreBase(mp') /\ StoreInv(mp') /\ run' \in RunType /\ client' \in ClientType
  BY DEF Ends, RunIs, IInv
<1>4. Len(collected) >= Len(run.collected)
  BY <1>1
<1>5. Position'
  <2>1. ASSUME NEW k \in DOMAIN d, k >= next, pc \in Early
        PROVE  d[k] \notin Terminal
    <3>1. k \in DOMAIN mp.combos /\ k >= run.next
      BY <1>1, <1>2, <2>1
    <3>2. mp.combos[k] \notin Terminal
      BY <2>1, <3>1 DEF IInv, Position, Early
    <3>3. k = i => st \notin Terminal
      BY <1>1, <1>2, <2>1, <3>1
    <3> QED
      BY <1>2, <3>1, <3>2, <3>3
  <2>2. /\ next >= 1 /\ run.at >= 1 /\ run.at <= Len(collected) + 1
    BY <1>1, <1>4 DEF IInv, Position
  <2> QED
    BY <1>1, <1>2, <2>1, <2>2 DEF Position, RunIs, d
<1>6. Workers'
  <2>1. ASSUME NEW k \in active
        PROVE  k \in DOMAIN run.work /\ k < next /\ d[k] \notin Terminal
    <3>1. CASE k \in run.active /\ (st \in Terminal => k # i)
      <4>1. k \in DOMAIN run.work /\ k < run.next /\ mp.combos[k] \notin Terminal
        BY <3>1 DEF IInv, Workers
      <4>2. d[k] \notin Terminal
        BY <1>1, <1>2, <3>1, <4>1
      <4> QED
        BY <1>1, <4>1, <4>2
    <3>2. CASE k = i /\ st = "running" /\ i \in DOMAIN run.work /\ i < next
      BY <1>1, <1>2, <3>2 DEF Terminal
    <3> QED
      BY <3>1, <3>2
  <2> QED
    BY <2>1 DEF Workers, RunIs, d
<1>7. Collected'
  <2>1. \A j \in DOMAIN run.collected :
          run.collected[j] \in DOMAIN run.work /\ d[run.collected[j]] = "completed"
    BY <1>2, CollectedStays DEF Ends, d
  <2>2. \A j \in DOMAIN collected :
          collected[j] \in DOMAIN run.work /\ d[collected[j]] = "completed"
    <3>1. CASE collected = run.collected
      BY <2>1, <3>1
    <3>2. CASE collected = Append(run.collected, i) /\ st = "completed" /\ i \in DOMAIN run.work
      <4>1. \A j \in DOMAIN collected :
              \/ j \in DOMAIN run.collected /\ collected[j] = run.collected[j]
              \/ collected[j] = i
        BY <1>1, <1>2, <3>2, SMTT(30)
      <4>2. d[i] = "completed"
        BY <1>2, <3>2
      <4> QED
        BY <2>1, <3>2, <4>1, <4>2
    <3> QED
      BY <3>1, <3>2
  <2> QED
    BY <2>2 DEF Collected, RunIs, d
<1>8. ResultsMatchRows' /\ Stream'
  BY EndsKeeps DEF RunIs
<1> QED
  BY <1>3, <1>5, <1>6, <1>7, <1>8 DEF IInv

\* A worker that a panic left behind ends, or the recovery fails a combo while
\* there are such workers.
LEMMA OrphanStep ==
    ASSUME IInv, run.orphaned, NEW i, NEW st \in Terminal, Ends(i, st),
           NEW pc \in Late, NEW next \in Nat, NEW active, NEW collected,
           RunIs(pc, next, active, collected, run.at),
           next >= 1, pc = "fail" => next \in DOMAIN mp.combos,
           active \subseteq run.active, IsFiniteSet(active), Cardinality(active) <= MaxWorkers,
           \/ collected = run.collected
           \/ collected = Append(run.collected, i) /\ i \in DOMAIN run.work
    PROVE  IInv'
<1> DEFINE d == mp'.combos
<1>1. /\ mp.combos \in Seq(ComboStates) /\ run.work \in Seq(Nat) /\ run.collected \in Seq(Nat)
      /\ collected \in Seq(Nat) /\ run.at \in Nat /\ Len(run.work) <= Len(mp.combos)
      /\ run.at >= 1 /\ run.at <= Len(run.collected) + 1
  BY DEF IInv, StoreBase, Record, RunType, RunIs, Position
<1>2. d \in Seq(ComboStates) /\ Len(d) = Len(mp.combos) /\ DOMAIN d = DOMAIN mp.combos
  BY DEF Ends, Update
<1> HIDE DEF d
<1>3. StoreBase(mp') /\ run' \in RunType /\ client' \in ClientType /\ run'.orphaned
  BY DEF Ends, RunIs, IInv
<1>4. \/ collected = run.collected
      \/ /\ Len(collected) = Len(run.collected) + 1
         /\ \A j \in DOMAIN collected :
              \/ j \in DOMAIN run.collected /\ collected[j] = run.collected[j]
              \/ collected[j] \in DOMAIN run.work
  <2>1. CASE collected = Append(run.collected, i) /\ i \in DOMAIN run.work
    <3>1. i \in Nat
      BY <1>1, <2>1
    <3> QED
      BY <1>1, <2>1, <3>1, SMTT(30)
  <2> QED
    BY <2>1
<1>5. run.at <= Len(collected) + 1
  BY <1>1, <1>4
<1>6. Position'
  BY <1>1, <1>2, <1>3, <1>5 DEF Position, RunIs, Late, Early, d
<1>7. Workers'
  BY <1>3 DEF IInv, Workers, RunIs
<1>8. Collected'
  <2>1. \A j \in DOMAIN collected : collected[j] \in DOMAIN run.work
    BY <1>4 DEF IInv, Collected
  <2> QED
    BY <1>3, <2>1 DEF Collected, RunIs, Late
<1>9. ResultsMatchRows' /\ Stream'
  BY EndsKeeps DEF RunIs, Late
<1> QED
  BY <1>3, <1>6, <1>7, <1>8, <1>9 DEF IInv

\* A combo starts: the semaphore leaves room for one more worker.
LEMMA StartStep ==
    ASSUME IInv, StartCombo
    PROVE  IInv'
<1> DEFINE i == run.next
           next == run.next + 1
           active == run.active \cup {run.next}
<1>1. /\ run \in RunType /\ mp.combos \in Seq(ComboStates) /\ run.work \in Seq(Nat)
      /\ run.next \in Nat /\ run.active \in SUBSET Nat /\ Len(run.work) <= Len(mp.combos)
  BY DEF IInv, StoreBase, Record, RunType, Position
<1>2. /\ run.pc = "loop" /\ run.next \in DOMAIN run.work /\ Cardinality(run.active) < MaxWorkers
      /\ mp' = Running(mp, run.next) /\ rows' = rows /\ client' = client
      /\ run' = [run EXCEPT !.next = next, !.active = active]
  BY DEF StartCombo, Runner
<1>3. /\ run.pc \in Early /\ ~run.orphaned
      /\ run.next \in DOMAIN mp.combos /\ mp.combos[run.next] \notin Terminal
  BY <1>1, <1>2 DEF IInv, Position, Workers, Early, Late
<1>4. Ends(i, "running")
  BY <1>2, <1>3, RunningKeeps, StoreBaseOf DEF Ends, IInv
<1>5. next \in Nat /\ active \in SUBSET Nat
  BY <1>1
<1>6. /\ IsFiniteSet(active) /\ Cardinality(active) = Cardinality(run.active) + 1
  <2>1. run.next \notin run.active
    BY <1>1, <1>3 DEF IInv, Workers
  <2> QED
    BY <2>1, FS_AddElement DEF IInv, Workers
<1>7. Cardinality(active) <= MaxWorkers
  <2>1. Cardinality(run.active) \in Nat
    BY FS_CardinalityType DEF IInv, Workers
  <2> QED
    BY <1>2, <1>6, <2>1, CombosAssumption
<1>8. \A k \in active : k \in run.active \/ k = run.next
  OBVIOUS
<1> HIDE DEF active, next
<1>9. RunIs("loop", next, active, run.collected, run.at)
  BY <1>1, <1>2, <1>5 DEF RunIs, RunType
<1>10. next >= run.next /\ run.next < next
  BY <1>1 DEF next
<1>11. "running" \notin Terminal
  BY DEF Terminal
<1> QED
  BY <1>2, <1>3, <1>4, <1>5, <1>6, <1>7, <1>8, <1>9, <1>10, <1>11, EndsStep

\* A worker ends: it gives its place back.
LEMMA WorkStep ==
    ASSUME IInv, NEW k \in run.active, Work(k)
    PROVE  IInv'
<1> DEFINE active == run.active \ {k}
<1>1. /\ run \in RunType /\ mp.combos \in Seq(ComboStates) /\ run.work \in Seq(Nat)
      /\ run.next \in Nat /\ run.active \in SUBSET Nat /\ run.collected \in Seq(Nat)
      /\ Len(run.work) <= Len(mp.combos) /\ run.pc \in Pcs /\ run.next >= 1
  BY DEF IInv, StoreBase, Record, RunType, Position
<1>2. /\ k \in DOMAIN run.work /\ k \in DOMAIN mp.combos /\ k \in Nat /\ run.work[k] \in Nat
      /\ ~run.orphaned => mp.combos[k] \notin Terminal /\ k < run.next /\ run.pc = "loop"
      /\ run.orphaned => run.pc \in Late
      /\ run.pc = "fail" => run.next \in DOMAIN mp.combos
  BY <1>1, SMTT(30) DEF IInv, Workers, Position
<1>3. /\ active \in SUBSET Nat /\ IsFiniteSet(active) /\ Cardinality(active) <= MaxWorkers
      /\ \A j \in active : j \in run.active /\ j # k
  <2>1. IsFiniteSet(run.active) /\ Cardinality(run.active) \in Nat
        /\ Cardinality(run.active) <= MaxWorkers
    BY FS_CardinalityType DEF IInv, Workers
  <2>2. IsFiniteSet(active) /\ Cardinality(active) = Cardinality(run.active) - 1
    BY <2>1, FS_RemoveElement
  <2> QED
    BY <1>1, <2>1, <2>2, CombosAssumption
<1>4. Append(run.collected, k) \in Seq(Nat)
  BY <1>1, <1>2
<1>5. PICK st \in Terminal, collected \in {run.collected, Append(run.collected, k)} :
        /\ Ends(k, st) /\ (collected # run.collected => st = "completed")
        /\ run' = [run EXCEPT !.active = active, !.collected = collected]
  <2>1. CASE WorkerFails(k)
    <3>1. /\ mp' = Failed(mp, k) /\ rows' = rows /\ client' = client
          /\ run' = [run EXCEPT !.active = active]
      BY <2>1 DEF WorkerFails, Worker
    <3>2. run' = [run EXCEPT !.active = active, !.collected = run.collected]
      BY <1>1, <3>1 DEF RunType
    <3>3. Ends(k, "failed")
      BY <1>2, <3>1, FailureEnds
    <3> QED
      BY <3>2, <3>3 DEF Terminal
  <2>2. CASE WorkerCompletes(k)
    <3>1. \E collected \in {run.collected, Append(run.collected, k)} :
            run' = [run EXCEPT !.active = active, !.collected = collected]
      BY <2>2 DEF WorkerCompletes, OnCompleted
    <3>2. mp' = Completed(mp, k, run.work[k], Quick) /\ rows' = rows /\ client' = client
      BY <2>2 DEF WorkerCompletes, OnCompleted, Worker
    <3>3. Ends(k, "completed")
      BY <1>2, <3>2, CompletionEnds
    <3> QED
      BY <3>1, <3>3 DEF Terminal
  <2> QED
    BY <2>1, <2>2 DEF Work
<1> DEFINE next == run.next
           pc == run.pc
<1>6. /\ collected \in Seq(Nat) /\ pc \in Pcs /\ next \in Nat /\ next >= run.next /\ next >= 1
      /\ collected = run.collected
         \/ (collected = Append(run.collected, k) /\ st = "completed" /\ k \in DOMAIN run.work)
  <2>1. pc \in Pcs /\ next \in Nat /\ next >= run.next /\ next >= 1
    BY <1>1
  <2>2. collected = run.collected \/ collected = Append(run.collected, k)
    BY <1>5
  <2> QED
    BY <1>1, <1>2, <1>4, <1>5, <2>1, <2>2, Zenon
<1> HIDE DEF active, next, pc
<1>7. RunIs(pc, next, active, collected, run.at)
  BY <1>1, <1>3, <1>5, <1>6 DEF RunIs, RunType, next, pc
<1>8. CASE ~run.orphaned
  <2>1. pc \in {"loop", "recover", "single"} /\ k < next /\ (pc # "recover" => run.pc \in Early)
        /\ pc = "loop"
    BY <1>2, <1>8 DEF pc, next, Early
  <2>2. \A j \in active : j \in run.active /\ (st \in Terminal => j # k)
    BY <1>3
  <2> QED
    BY <1>3, <1>5, <1>6, <1>7, <1>8, <2>1, <2>2, EndsStep
<1>9. CASE run.orphaned
  <2>1. pc \in Late /\ (pc = "fail" => next \in DOMAIN mp.combos) /\ active \subseteq run.active
    BY <1>2, <1>3, <1>9 DEF pc, next
  <2> QED
    BY <1>3, <1>5, <1>6, <1>7, <1>9, <2>1, OrphanStep
<1> QED
  BY <1>8, <1>9

\* The recovery fails a combo, or the single run ends a sizing, at run.next.
LEMMA NextEndsStep ==
    ASSUME IInv, RecoverFail \/ SingleCombo
    PROVE  IInv'
<1> DEFINE i == run.next
           next == run.next + 1
<1>1. /\ run \in RunType /\ mp.combos \in Seq(ComboStates) /\ run.work \in Seq(Nat)
      /\ run.next \in Nat /\ run.next >= 1 /\ Len(run.work) <= Len(mp.combos)
      /\ IsFiniteSet(run.active) /\ Cardinality(run.active) <= MaxWorkers
      /\ run.pc # "loop" /\ ~run.orphaned => run.active = {}
  BY DEF IInv, StoreBase, Record, RunType, Position, Workers
<1>2. PICK pc \in {"recover", "single"} :
        /\ run' = [run EXCEPT !.pc = pc, !.next = next]
        /\ pc = "single" => run.pc = "single"
  <2>1. CASE RecoverFail
    BY <2>1 DEF RecoverFail
  <2>2. CASE SingleCombo
    <3>1. run.pc = "single" /\ run' = [run EXCEPT !.next = next]
      BY <2>2 DEF SingleCombo, Runner
    <3>2. run' = [run EXCEPT !.pc = "single", !.next = next]
      BY <1>1, <3>1 DEF RunType
    <3> QED
      BY <3>1, <3>2
  <2> QED
    BY <2>1, <2>2
<1>3. /\ run.pc \in {"fail", "single"} /\ run.next \in DOMAIN mp.combos
      /\ ~run.orphaned => mp.combos[run.next] \notin Terminal
      /\ rows' = rows /\ client' = client
      /\ \/ mp' = Failed(mp, run.next)
         \/ run.next \in DOMAIN run.work /\ mp' = Completed(mp, run.next, run.work[run.next], Quick)
  <2>1. CASE RecoverFail
    BY <2>1 DEF RecoverFail, Runner, IInv, Position
  <2>2. CASE SingleCombo
    <3>1. run.pc = "single" /\ run.pc \in Early /\ run.next \in DOMAIN mp.combos
          /\ run.next \in DOMAIN run.work
      BY <1>1, <2>2 DEF SingleCombo, Runner, Early
    <3>2. mp.combos[run.next] \notin Terminal
      BY <1>1, <3>1 DEF IInv, Position
    <3> QED
      BY <2>2, <3>1, <3>2 DEF SingleCombo, Runner
  <2> QED
    BY <2>1, <2>2
<1>4. PICK st \in Terminal : Ends(i, st)
  <2>1. CASE mp' = Failed(mp, run.next)
    BY <1>3, <2>1, FailureEnds DEF Terminal
  <2>2. CASE run.next \in DOMAIN run.work /\ mp' = Completed(mp, run.next, run.work[run.next], Quick)
    <3>1. run.work[run.next] \in Nat
      BY <1>1, <2>2
    <3> QED
      BY <1>3, <2>2, <3>1, CompletionEnds DEF Terminal
  <2> QED
    BY <1>3, <2>1, <2>2
<1>5. next \in Nat /\ next >= run.next /\ i < next /\ next >= 1
  BY <1>1
<1> HIDE DEF next, i
<1>6. RunIs(pc, next, run.active, run.collected, run.at)
  BY <1>1, <1>2, <1>5 DEF RunIs, RunType, Pcs
<1>7. CASE ~run.orphaned
  <2>1. run.active = {} /\ pc \in {"loop", "recover", "single"}
        /\ (pc # "recover" => run.pc \in Early)
    BY <1>1, <1>2, <1>3, <1>7 DEF Early
  <2> QED
    BY <1>1, <1>4, <1>5, <1>6, <1>7, <2>1, EndsStep
<1>8. CASE run.orphaned
  <2>1. pc \in Late /\ pc # "fail"
    BY <1>2, <1>8 DEF IInv, Workers, Late
  <2> QED
    BY <1>1, <1>4, <1>5, <1>6, <1>8, <2>1, OrphanStep
<1> QED
  BY <1>7, <1>8

-----------------------------------------------------------------------------
(***************************************************************************)
(* Submission, the database and the client                                 *)
(***************************************************************************)

\* A handler creates the record and starts the goroutine: the record has an
\* entry for everything the runner will work on.
LEMMA CreateStep ==
    ASSUME IInv, NEW kind \in {"backtest", "matrix", "single"}, NEW total \in Nat,
           NEW work \in Seq(Nat), Len(work) <= total, NEW synthetic \in BOOLEAN,
           Create(kind, total, work, synthetic)
    PROVE  IInv'
<1> DEFINE pc == IF kind = "single" THEN "single" ELSE "optimize"
           m == NewRecord(total)
<1>1. /\ run \in RunType /\ run.pc = "none" /\ run.active = {} /\ run.collected = <<>>
      /\ run.next \in Nat /\ run.next >= 1 /\ run.at \in Nat /\ ~run.orphaned
      /\ run.at >= 1 /\ run.at <= Len(run.collected) + 1
      /\ client \in ClientType /\ client.seq = 0 /\ client.known = {}
      /\ IsFiniteSet({}) /\ Cardinality({}) = 0
  BY FS_EmptySet DEF IInv, Create, RunType, Workers, Late, Position, Stream, Collected
<1>2. /\ StoreInv(m) /\ Len(m.combos) = total /\ m.results = <<>>
      /\ \A i \in DOMAIN m.combos : m.combos[i] = "pending"
  BY NewRecordInv
<1>3. pc \in Pcs /\ pc \in Early /\ pc \notin {"none", "loop", "fail", "update", "each"}
  BY DEF Pcs, Early
<1>4. /\ mp' = m /\ rows' = rows /\ client' = [client EXCEPT !.pc = "idle"]
      /\ run' = [run EXCEPT !.pc = pc, !.kind = kind, !.work = work, !.synthetic = synthetic]
  BY DEF Create
<1> HIDE DEF m, pc
<1>5. /\ run' \in RunType /\ run'.pc = pc /\ run'.work = work /\ run'.next = run.next
      /\ run'.active = run.active /\ run'.collected = run.collected /\ run'.at = run.at
      /\ ~run'.orphaned
  BY <1>1, <1>3, <1>4 DEF RunType
<1>6. /\ client' \in ClientType /\ client'.pc = "idle" /\ client'.seq = 0 /\ client'.known = {}
  BY <1>1, <1>4 DEF ClientType
<1>7. Position' /\ Workers' /\ Collected'
  <2>1. \A i \in DOMAIN m.combos : m.combos[i] \notin Terminal
    BY <1>2 DEF Terminal
  <2>2. Position'
    BY <1>1, <1>2, <1>3, <1>4, <1>5, <2>1 DEF Position
  <2>3. Workers'
    BY <1>1, <1>5, CombosAssumption DEF Workers
  <2>4. Collected'
    BY <1>1, <1>3, <1>5 DEF Collected
  <2> QED
    BY <2>2, <2>3, <2>4
<1>8. ResultsMatchRows' /\ Stream'
  BY <1>2, <1>3, <1>4, <1>5, <1>6 DEF ResultsMatchRows, Stream, CursorIsExact
<1> QED
  BY <1>2, StoreBaseOf, <1>4, <1>5, <1>6, <1>7, <1>8 DEF IInv

\* Every handler submits work that fits its record.
LEMMA SubmissionStep ==
    ASSUME IInv, Submission
    PROVE  IInv'
<1>1. ASSUME NEW allowed \in AllowedSets, NEW work \in CartesianProduct(allowed)
      PROVE  work \in Seq(Nat) /\ Len(work) \in Nat /\ Len(work) <= Combos
  <2>1. allowed \subseteq 1 .. Combos /\ allowed \subseteq Nat
    BY SetsAssumption, CombosAssumption
  <2>2. IsFiniteSet(1 .. Combos) /\ Cardinality(1 .. Combos) = Combos
    BY CombosAssumption, FS_Interval
  <2>3. IsFiniteSet(allowed) /\ Cardinality(allowed) <= Combos /\ Cardinality(allowed) \in Nat
    BY <2>1, <2>2, FS_Subset, FS_CardinalityType
  <2>4. work \in [1 .. Cardinality(allowed) -> allowed]
    BY DEF CartesianProduct
  <2>5. work \in Seq(Nat) /\ Len(work) = Cardinality(allowed)
    <3>1. ASSUME NEW n \in Nat, NEW w \in [1 .. n -> Nat]
          PROVE  w \in Seq(Nat) /\ Len(w) = n
      OBVIOUS
    <3>2. work \in [1 .. Cardinality(allowed) -> Nat]
      BY <2>1, <2>4
    <3> QED
      BY <2>3, <3>1, <3>2
  <2> QED
    BY <2>3, <2>5
<1>2. ASSUME NEW allowed \in AllowedSets, NEW synthetic \in BOOLEAN,
             SubmitBacktest(allowed, synthetic)
      PROVE  IInv'
  <2>1. PICK work \in CartesianProduct(allowed) :
          Create("backtest", Len(work), work, synthetic)
    BY <1>2 DEF SubmitBacktest
  <2>2. work \in Seq(Nat) /\ Len(work) \in Nat /\ Len(work) <= Len(work)
    BY <1>1
  <2>3. "backtest" \in {"backtest", "matrix", "single"}
    OBVIOUS
  <2> QED
    BY <2>1, <2>2, <2>3, CreateStep, Zenon
<1>3. ASSUME NEW allowed \in AllowedSets, NEW synthetic \in BOOLEAN,
             SubmitMatrix(allowed, synthetic)
      PROVE  IInv'
  <2>1. PICK work \in CartesianProduct(allowed) : Create("matrix", Combos, work, synthetic)
    BY <1>3 DEF SubmitMatrix
  <2>2. work \in Seq(Nat) /\ Len(work) <= Combos /\ Combos \in Nat
    BY <1>1, CombosAssumption
  <2>3. "matrix" \in {"backtest", "matrix", "single"}
    OBVIOUS
  <2> QED
    BY <2>1, <2>2, <2>3, CreateStep, Zenon
<1>4. CASE SubmitLightOptimize
  <2> DEFINE work == [k \in 1 .. Sizings |-> 1]
  <2>1. Create("single", Sizings, work, FALSE)
    BY <1>4 DEF SubmitLightOptimize
  <2>2. work \in Seq(Nat) /\ Len(work) = Sizings
    BY CombosAssumption
  <2>3. Sizings \in Nat /\ Len(work) <= Sizings
    BY <2>2, CombosAssumption
  <2>4. "single" \in {"backtest", "matrix", "single"} /\ FALSE \in BOOLEAN
    BY Zenon
  <2> HIDE DEF work
  <2> QED
    BY <2>1, <2>2, <2>3, <2>4, CreateStep, Zenon
<1> QED
  BY <1>2, <1>3, <1>4 DEF Submission

\* The end of a chunk lies between its start and the last collected result.
LEMMA ChunkEndBounds ==
    ASSUME IInv, run.at <= Len(run.collected)
    PROVE  ChunkEnd \in Nat /\ run.at <= ChunkEnd /\ ChunkEnd <= Len(run.collected)
<1>1. /\ run.at \in Nat /\ run.at >= 1 /\ BatchSize \in Nat \ {0} /\ run.collected \in Seq(Nat)
  BY CombosAssumption DEF IInv, RunType, Position
<1>2. ASSUME NEW a \in Nat, NEW b \in Nat
      PROVE  Min({a, b}) \in {a, b} /\ Min({a, b}) <= b /\ Min({a, b}) <= a
  <2>1. \E x \in {a, b} : \A y \in {a, b} : x <= y
    OBVIOUS
  <2> QED
    BY <2>1 DEF Min
<1>3. run.at + BatchSize - 1 \in Nat /\ Len(run.collected) \in Nat
      /\ run.at <= run.at + BatchSize - 1
  BY <1>1
<1> QED
  BY <1>2, <1>3 DEF ChunkEnd

\* A chunk is inserted, or the fall-back starts on it.
LEMMA InsertStep ==
    ASSUME IInv, InsertBatch
    PROVE  IInv'
<1>1. /\ run \in RunType /\ run.collected \in Seq(Nat) /\ run.at \in Nat /\ run.active = {}
      /\ run.pc = "insert" /\ ~run.orphaned /\ run.at <= Len(run.collected)
      /\ mp' = mp /\ client' = client /\ rows \subseteq rows'
  BY DEF IInv, RunType, InsertBatch, Runner, Workers, Late
<1>2. ChunkEnd \in Nat /\ run.at <= ChunkEnd /\ ChunkEnd <= Len(run.collected)
  BY <1>1, ChunkEndBounds
<1>3. PICK pc \in {"update", "each"} : /\ run' = [run EXCEPT !.pc = pc, !.next = ChunkEnd]
                                       /\ pc = "update" => rows' = rows \cup Chunk
  BY DEF InsertBatch
<1>4. RunIs(pc, ChunkEnd, run.active, run.collected, run.at)
  <2> DEFINE next == ChunkEnd
  <2>1. next \in Nat /\ run' = [run EXCEPT !.pc = pc, !.next = next]
    BY <1>2, <1>3
  <2> HIDE DEF next
  <2>2. RunIs(pc, next, run.active, run.collected, run.at)
    BY <1>1, <1>3, <2>1 DEF RunIs, RunType, Pcs
  <2> QED
    BY <2>2 DEF next
<1>5. StoreBase(mp') /\ StoreInv(mp') /\ run' \in RunType /\ client' \in ClientType
  BY <1>1, <1>4 DEF IInv, RunIs
<1>6. Position'
  BY <1>1, <1>2, <1>3, <1>4, SMTT(30) DEF IInv, Position, RunIs, Early
<1>7. Workers'
  BY <1>1, <1>4 DEF IInv, Workers, RunIs
<1>8. Collected'
  <2>1. pc = "update" => \A j \in run.at .. ChunkEnd : run.collected[j] \in rows'
    BY <1>3 DEF Chunk
  <2> QED
    BY <1>1, <1>3, <1>4, <2>1 DEF IInv, Collected, RunIs
<1>9. ResultsMatchRows' /\ Stream'
  BY <1>1, <1>3, <1>4, <1>5, MatchKept, StreamKept DEF IInv, RunIs, Grows, StoreBase, Record
<1> QED
  BY <1>5, <1>6, <1>7, <1>8, <1>9 DEF IInv

\* One result of the chunk: reported with its row, or left without one.
LEMMA RowStep ==
    ASSUME IInv, UpdateRow \/ InsertOne
    PROVE  IInv'
<1> DEFINE k == run.collected[run.at]
           at == run.at + 1
           pc == IF run.at = run.next THEN "insert" ELSE run.pc
<1>1. /\ run \in RunType /\ run.work \in Seq(Nat) /\ run.collected \in Seq(Nat)
      /\ run.at \in Nat /\ run.next \in Nat /\ run.at >= 1
      /\ mp.combos \in Seq(ComboStates) /\ Len(run.work) <= Len(mp.combos)
      /\ mp.results \in Seq(Result)
  BY DEF IInv, RunType, Position, StoreBase, Record
<1>2. /\ run.pc \in {"update", "each"} /\ client' = client /\ rows \subseteq rows'
      /\ run' = [run EXCEPT !.at = at, !.pc = pc]
      /\ \/ mp' = mp
         \/ mp' = Completed(mp, k, run.work[k], k) /\ (k \in rows' \/ run.pc = "update")
  BY DEF UpdateRow, InsertOne, Runner, NextOfChunk, ReportRow
<1>3. run.at <= run.next /\ run.next <= Len(run.collected) /\ run.active = {} /\ ~run.orphaned
  BY <1>2 DEF IInv, Position, Workers, Late
<1>4. run.at \in DOMAIN run.collected
  BY <1>1, <1>3
<1>5. /\ k \in DOMAIN run.work /\ mp.combos[k] = "completed" /\ (run.pc = "update" => k \in rows)
  BY <1>1, <1>3, <1>4, SMTT(30) DEF IInv, Collected
<1>6. k \in Nat /\ run.work[k] \in Nat /\ k \in DOMAIN mp.combos
  <2>1. \A x \in DOMAIN run.work : x \in Nat /\ run.work[x] \in Nat /\ x \in DOMAIN mp.combos
    BY <1>1, SMTT(30)
  <2> HIDE DEF k
  <2> QED
    BY <1>5, <2>1
<1>7. at \in Nat /\ pc \in Pcs /\ pc \in {"insert", "update", "each"}
  BY <1>1, <1>2 DEF Pcs
<1> HIDE DEF k
<1>8. RunIs(pc, run.next, run.active, run.collected, at)
  <2> HIDE DEF pc, at
  <2> QED
    BY <1>1, <1>2, <1>7 DEF RunIs, RunType
<1>9. /\ StoreBase(mp') /\ StoreInv(mp') /\ mp'.combos = mp.combos
      /\ \/ mp'.results = mp.results
         \/ Replaced(mp'.results, mp.results, run.work[k], k) /\ k \in rows'
  <2>1. CASE mp' = mp
    BY <1>3, <2>1 DEF IInv
  <2>2. CASE mp' = Completed(mp, k, run.work[k], k) /\ (k \in rows' \/ run.pc = "update")
    <3>1. k \in rows'
      BY <1>2, <1>5, <2>2
    <3> QED
      BY <1>3, <1>5, <1>6, <2>2, <3>1, CompletedAgainKeeps DEF IInv, Terminal
  <2> QED
    BY <1>2, <2>1, <2>2
<1>10. run' \in RunType /\ client' \in ClientType
  BY <1>2, <1>8 DEF IInv, RunIs
<1>11. Position'
  BY <1>1, <1>3, <1>7, <1>8, <1>9, SMTT(30) DEF IInv, Position, RunIs, Early
<1>12. Workers' /\ Collected'
  <2>1. Workers'
    BY <1>3, <1>8, <1>9 DEF IInv, Workers, RunIs
  <2>2. pc = "update" => \A j \in at .. run.next : run.collected[j] \in rows'
    BY <1>1, <1>2 DEF IInv, Collected
  <2>3. Collected'
    BY <1>7, <1>8, <1>9, <2>2 DEF IInv, Collected, RunIs
  <2> QED
    BY <2>1, <2>3
<1>13. ResultsMatchRows' /\ Stream'
  <2>1. CASE mp'.results = mp.results
    <3>1. Grows
      BY <1>1, <2>1 DEF Grows
    <3> QED
      BY <1>2, <1>7, <1>8, <1>9, <2>1, <3>1, MatchKept, StreamKept DEF IInv, RunIs
  <2>2. CASE Replaced(mp'.results, mp.results, run.work[k], k) /\ k \in rows'
    <3>1. Grows
      BY <1>1, <2>2 DEF Grows, Replaced
    <3>2. Stream'
      BY <1>2, <1>7, <1>8, <1>9, <3>1, StreamKept DEF RunIs
    <3>3. DOMAIN mp'.results = DOMAIN mp.results
      BY <1>1, <2>2 DEF Replaced
    <3>4. ResultsMatchRows'
      BY <1>2, <1>8, <2>2, <3>3 DEF IInv, ResultsMatchRows, Replaced, RunIs
    <3> QED
      BY <3>2, <3>4
  <2> QED
    BY <1>9, <2>1, <2>2
<1> QED
  BY <1>9, <1>10, <1>11, <1>12, <1>13 DEF IInv

\* The client's two reads and a lost answer.
LEMMA PollStep ==
    ASSUME IInv, Poll
    PROVE  IInv'
<1>1. /\ mp' = mp /\ run' = run /\ rows' = rows
      /\ client \in ClientType /\ mp.results \in Seq(Result)
      /\ client.seq \in Nat /\ client.to \in Nat
      /\ client.seq <= Len(mp.results)
      /\ client.known = {mp.results[k].key : k \in 1 .. client.seq}
      /\ client.pc \in {"idle", "summary"} /\ run.pc # "none"
  BY DEF Poll, GetSince, GetSummary, PollFails, IInv, StoreBase, Record, ClientType, Stream,
         CursorIsExact
<1>2. StoreBase(mp') /\ (~run'.orphaned => StoreInv(mp')) /\ run' \in RunType /\ Position' /\ Workers' /\ Collected'
      /\ ResultsMatchRows'
  BY <1>1 DEF IInv, Position, Workers, Collected, ResultsMatchRows
<1>3. \A k \in DOMAIN mp.results : mp.results[k].key \in Nat
  <2>1. \A k \in DOMAIN mp.results : mp.results[k] \in Result
    BY <1>1
  <2>2. \A r \in Result : r.key \in Nat
    BY DEF Result
  <2> QED
    BY <2>1, <2>2
<1>4. CASE GetSince
  <2> DEFINE delta == {mp.results[k].key : k \in client.seq + 1 .. Len(mp.results)}
             to == Len(mp.results)
  <2>1. client' = [client EXCEPT !.pc = "summary", !.to = to, !.delta = delta]
    BY <1>4 DEF GetSince
  <2>2. delta \in SUBSET Nat /\ to \in Nat
    BY <1>1, <1>3
  <2> HIDE DEF delta, to
  <2>3. /\ client' \in ClientType /\ client'.pc = "summary" /\ client'.to = to
        /\ client'.delta = delta /\ client'.seq = client.seq /\ client'.known = client.known
    BY <1>1, <2>1, <2>2 DEF ClientType
  <2>4. Stream'
    <3>1. CursorIsExact'
      BY <1>1, <2>3, Zenon DEF CursorIsExact
    <3>2. client.seq <= to /\ to <= Len(mp.results)
          /\ delta = {mp.results[k].key : k \in client.seq + 1 .. to}
      BY <1>1 DEF delta, to
    <3> QED
      BY <1>1, <2>3, <3>1, <3>2, Zenon DEF Stream
  <2> QED
    BY <1>2, <2>3, <2>4 DEF IInv
<1>5. CASE GetSummary
  <2> DEFINE pc == IF mp.status \in {"completed", "failed", "cancelled"} THEN "stopped" ELSE "idle"
             known == client.known \cup client.delta
  <2>1. client' = [client EXCEPT !.pc = pc, !.known = known, !.seq = client.to, !.delta = {},
                                 !.to = 0, !.errors = 0]
    BY <1>5 DEF GetSummary, ApplyDelta
  <2>2. /\ client.seq <= client.to /\ client.to <= Len(mp.results)
        /\ client.delta = {mp.results[k].key : k \in client.seq + 1 .. client.to}
    BY <1>5 DEF GetSummary, IInv, Stream
  <2>3. pc \in {"stopped", "idle"} /\ known \in SUBSET Nat
    BY <1>1 DEF ClientType
  <2>4. known = {mp.results[k].key : k \in 1 .. client.to}
    <3>1. 1 .. client.to = (1 .. client.seq) \cup (client.seq + 1 .. client.to)
      BY <1>1, <2>2
    <3> QED
      BY <1>1, <2>2, <3>1
  <2> HIDE DEF pc, known
  <2>5. /\ client' \in ClientType /\ client'.pc = pc /\ client'.seq = client.to
        /\ client'.known = known
    BY <1>1, <2>1, <2>3 DEF ClientType
  <2>6. CursorIsExact'
    BY <1>1, <2>2, <2>4, <2>5, Zenon DEF CursorIsExact
  <2>7. Stream'
    BY <1>1, <2>3, <2>5, <2>6 DEF Stream
  <2> QED
    BY <1>2, <2>5, <2>7 DEF IInv
<1>6. CASE PollFails
  <2> DEFINE pc == IF client.errors + 1 >= MaxErrors THEN "stopped" ELSE "idle"
             errors == client.errors + 1
  <2>1. client' = [client EXCEPT !.pc = pc, !.errors = errors, !.delta = {}, !.to = 0]
    BY <1>6 DEF PollFails
  <2>2. pc \in {"stopped", "idle"} /\ errors \in Nat
    BY <1>1 DEF ClientType
  <2> HIDE DEF pc, errors
  <2>3. /\ client' \in ClientType /\ client'.pc = pc /\ client'.seq = client.seq
        /\ client'.known = client.known
    BY <1>1, <2>1, <2>2 DEF ClientType
  <2>4. CursorIsExact'
    BY <1>1, <2>3, Zenon DEF CursorIsExact
  <2>5. Stream'
    BY <1>1, <2>2, <2>3, <2>4 DEF Stream
  <2> QED
    BY <1>2, <2>3, <2>5 DEF IInv
<1> QED
  BY <1>4, <1>5, <1>6 DEF Poll

\* IInv is inductive.
LEMMA InvStep == IInv /\ [Next]_vars => IInv'
<1> SUFFICES ASSUME IInv, [Next]_vars
             PROVE  IInv'
  OBVIOUS
<1>1. CASE UNCHANGED vars
  BY <1>1 DEF vars, IInv, Position, Workers, Collected, Stream, CursorIsExact, ResultsMatchRows
<1>2. CASE Submission
  BY <1>2, SubmissionStep
<1>3. CASE Goroutine
  BY <1>3, QuietSteps, PanicStep, StartStep, NextEndsStep, InsertStep, RowStep DEF Goroutine
<1>4. CASE \E k \in run.active : Work(k)
  BY <1>4, WorkStep
<1>5. CASE Cancel
  BY <1>5, CancelStep
<1>6. CASE Poll
  BY <1>6, PollStep
<1> QED
  BY <1>1, <1>2, <1>3, <1>4, <1>5, <1>6 DEF Next

\* The invariant holds in every reachable state.
LEMMA InvAlways == Spec => []IInv
  BY InvInit, InvStep, PTL DEF Spec

-----------------------------------------------------------------------------
(***************************************************************************)
(* The properties                                                          *)
(***************************************************************************)

\* For any number of combos and workers the record is well formed, and no
\* more backtests run at a time than MatrixWorkers allows.
THEOREM MatrixTypeOK == Spec => []TypeOK
<1>1. IInv => TypeOK
  <2> SUFFICES ASSUME IInv PROVE TypeOK
    OBVIOUS
  <2>1. /\ mp.status \in {"none", "running", "completed", "failed", "cancelled"}
        /\ mp.combos \in Seq({"pending", "running", "cancelled"} \cup Terminal)
        /\ mp.total = Len(mp.combos) /\ mp.running \in Int
    BY DEF IInv, StoreBase, Record, Statuses, ComboStates
  <2>2. /\ run.active \subseteq DOMAIN run.work /\ Cardinality(run.active) <= MaxWorkers
    BY DEF IInv, Workers
  <2>3. run.at \in 1 .. Len(run.collected) + 1
    <3>1. run.at \in Nat /\ run.collected \in Seq(Nat)
      BY DEF IInv, RunType
    <3> QED
      BY <3>1 DEF IInv, Position
  <2>4. client.pc \in {"none", "idle", "summary", "stopped"}
    BY DEF IInv, ClientType
  <2> QED
    BY <2>1, <2>2, <2>3, <2>4 DEF TypeOK
<1> QED
  BY <1>1, InvAlways, PTL

\* UpdateCombo counts every combo once, in whatever order its reports, the
\* cancellation and the recovery of a panic come; after a panic that left
\* workers behind, the number of the combos that ended stays right.
THEOREM MatrixCountsAreExact == Spec => []CountsAreExact
<1>1. IInv => CountsAreExact
  BY DEF IInv, StoreInv, StoreBase, CountsAreExact, Count, InState
<1> QED
  BY <1>1, InvAlways, PTL

\* A database id reaches the result of its own combo and no other, and only
\* after its row was inserted.
THEOREM MatrixResultsMatchRows == Spec => []ResultsMatchRows
  BY InvAlways, PTL DEF IInv

\* The client's cursor never passes a result it has not taken, however its
\* two reads overlap the workers' reports.
THEOREM MatrixCursorIsExact == Spec => []CursorIsExact
<1>1. IInv => CursorIsExact
  BY DEF IInv, Stream
<1> QED
  BY <1>1, InvAlways, PTL

-----------------------------------------------------------------------------
(***************************************************************************)
(* The WebSocket hub                                                       *)
(***************************************************************************)

USE CapsAssumption

Messages == 1 .. MaxMessages

\* The broadcast channel holds the accepted messages the hub has not taken,
\* and the hub is copying the last one it took.
HubInv ==
    /\ Len(broadcast) <= accepted
    /\ \A i \in DOMAIN broadcast : broadcast[i] = Taken + i
    /\ todo # {} => message = Taken /\ message \in Messages

\* A client is known to the hub only between its registration and its
\* unregistration, and before its channel is open and empty.
ClientInv ==
    /\ \A c \in clients : reader[c] \in {"read", "unregister"}
    /\ \A c \in Clients : reader[c] = "none" => send[c] = <<>> /\ ~closed[c]

HubIInv == HubTypeOK /\ HubInv /\ ClientInv /\ MembersAreOpen /\ NoMessageSkipped

\* What the hub has taken and what waits add up to what was accepted.
LEMMA TakenIs ==
    ASSUME HubTypeOK, HubInv
    PROVE  Taken \in 0 .. MaxMessages /\ Taken + Len(broadcast) = accepted
BY DEF HubTypeOK, HubInv, Taken

\* The hub starts empty.
LEMMA HubInitIInv == HubInit => HubIInv
<1> SUFFICES ASSUME HubInit PROVE HubIInv
    OBVIOUS
<1>1. 0 \in 0 .. MaxMessages
    OBVIOUS
<1>2. HubTypeOK
    BY <1>1 DEF HubInit, HubTypeOK
<1>3. HubInv /\ ClientInv /\ MembersAreOpen /\ NoMessageSkipped
    BY DEF HubInit, HubInv, ClientInv, MembersAreOpen, NoMessageSkipped, Taken
<1> QED BY <1>2, <1>3 DEF HubIInv

\* Appending to a channel that continues at n continues it.
LEMMA AppendContiguous ==
    ASSUME NEW s \in Seq(Messages), NEW n \in Nat, NEW m \in Messages,
           \A i \in DOMAIN s : s[i] = n + i, m = n + Len(s) + 1
    PROVE  /\ Append(s, m) \in Seq(Messages) /\ Len(Append(s, m)) = Len(s) + 1
           /\ \A i \in DOMAIN Append(s, m) : Append(s, m)[i] = n + i
BY AppendProperties, LenProperties

\* A channel without its head continues one further.
LEMMA TailContiguous ==
    ASSUME NEW s \in Seq(Messages), NEW n \in Nat, s # <<>>, \A i \in DOMAIN s : s[i] = n + i
    PROVE  /\ Head(s) = n + 1 /\ Head(s) \in Messages
           /\ Tail(s) \in Seq(Messages) /\ Len(Tail(s)) = Len(s) - 1
           /\ \A i \in DOMAIN Tail(s) : Tail(s)[i] = n + 1 + i
<1>1. Len(s) \in Nat /\ Len(s) # 0 /\ Head(s) = s[1] /\ 1 \in DOMAIN s
    BY EmptySeq, LenProperties
<1>2. Head(s) \in Messages /\ Tail(s) \in Seq(Messages) /\ Len(Tail(s)) = Len(s) - 1
    BY HeadTailProperties
<1>3. \A i \in 1 .. Len(Tail(s)) : Tail(s)[i] = s[i + 1]
    BY HeadTailProperties
<1>4. DOMAIN Tail(s) = 1 .. Len(s) - 1 /\ DOMAIN s = 1 .. Len(s)
    BY <1>2, LenProperties
<1>5. \A i \in DOMAIN Tail(s) : Tail(s)[i] = n + 1 + i
  <2> SUFFICES ASSUME NEW i \in DOMAIN Tail(s) PROVE Tail(s)[i] = n + 1 + i
      OBVIOUS
  <2>1. i \in Nat /\ i + 1 \in DOMAIN s
      BY <1>1, <1>4
  <2> QED BY <1>2, <1>3, <1>4, <2>1
<1> QED BY <1>1, <1>2, <1>5

-----------------------------------------------------------------------------
(* One lemma per group of actions.                                         *)

\* An accepted message is the next one.
LEMMA BroadcastIInv ==
    ASSUME HubIInv, Broadcast
    PROVE  HubIInv'
<1> USE DEF HubIInv
<1>1. Taken \in 0 .. MaxMessages /\ Taken + Len(broadcast) = accepted
    BY TakenIs
<1>2. accepted \in Nat /\ accepted + 1 \in Messages /\ broadcast \in Seq(Messages) /\ Taken \in Nat
    BY <1>1 DEF Broadcast, HubTypeOK, Messages
<1>3. \A i \in DOMAIN broadcast : broadcast[i] = Taken + i
    BY DEF HubInv
<1>4. accepted + 1 = Taken + Len(broadcast) + 1
    BY <1>1
<1>5. /\ broadcast' \in Seq(Messages) /\ Len(broadcast') = Len(broadcast) + 1
      /\ \A i \in DOMAIN broadcast' : broadcast'[i] = Taken + i
    BY <1>2, <1>3, <1>4, AppendContiguous DEF Broadcast
<1>6. Taken' = Taken
    BY <1>1, <1>2, <1>5 DEF Broadcast, Taken, HubTypeOK
<1>7. HubTypeOK'
    BY <1>2, <1>5 DEF HubTypeOK, Broadcast, pumps, Messages
<1>8. HubInv'
    BY <1>1, <1>2, <1>5, <1>6 DEF HubInv, Broadcast, pumps
<1>9. (ClientInv /\ MembersAreOpen /\ NoMessageSkipped)'
    BY <1>6 DEF ClientInv, MembersAreOpen, NoMessageSkipped, Broadcast, pumps
<1> QED BY <1>7, <1>8, <1>9

\* A client joins where the hub is, and leaves with its channel closed once.
LEMMA MembershipIInv ==
    ASSUME HubIInv, NEW c \in Clients, Register(c) \/ Unregister(c)
    PROVE  HubIInv'
<1> USE DEF HubIInv
<1>1. Taken \in 0 .. MaxMessages
    BY TakenIs
<1>2. Taken' = Taken /\ todo = {} /\ todo' = {}
    BY DEF Taken, Register, Unregister, Selects
<1>3. HubTypeOK'
  <2>1. CASE Register(c)
      BY <1>1, <2>1 DEF HubTypeOK, Register
  <2>2. CASE Unregister(c)
      BY <2>2 DEF HubTypeOK, Unregister
  <2> QED BY <2>1, <2>2
<1>4. HubInv'
    BY <1>2 DEF HubInv, Register, Unregister
<1>5. CASE Register(c)
  <2>1. c \notin clients /\ send[c] = <<>> /\ ~closed[c]
      BY <1>5 DEF ClientInv, Register
  <2>2. (ClientInv /\ MembersAreOpen)'
      BY <1>2, <1>5, <2>1 DEF Register, ClientInv, MembersAreOpen, HubTypeOK
  <2>3. ASSUME NEW d \in Clients
        PROVE  /\ \A i \in DOMAIN send'[d] : send'[d][i] = last'[d] + i
               /\ d \in clients' => last'[d] + Len(send'[d]) + 0 = Taken
    <3>1. CASE d = c
      <4>1. last'[d] = Taken /\ send'[d] = <<>> /\ Len(send'[d]) = 0
          BY <1>5, <2>1, <3>1 DEF Register, HubTypeOK
      <4> QED BY <1>1, <4>1
    <3>2. CASE d # c
      <4>1. last'[d] = last[d] /\ send'[d] = send[d] /\ (d \in clients' => d \in clients)
          BY <1>5, <3>2 DEF Register, HubTypeOK
      <4> QED BY <1>2, <4>1 DEF NoMessageSkipped
    <3> QED BY <3>1, <3>2
  <2>4. NoMessageSkipped'
      BY <1>2, <2>3 DEF NoMessageSkipped
  <2> QED BY <1>3, <1>4, <2>2, <2>4
<1>6. CASE Unregister(c)
  <2>1. (ClientInv /\ MembersAreOpen)'
      BY <1>2, <1>6 DEF Unregister, ClientInv, MembersAreOpen, HubTypeOK
  <2>2. NoMessageSkipped'
      BY <1>2, <1>6 DEF Unregister, NoMessageSkipped, HubTypeOK
  <2> QED BY <1>3, <1>4, <2>1, <2>2
<1> QED BY <1>5, <1>6

\* Every member is due the message the hub takes.
LEMMA TakeIInv ==
    ASSUME HubIInv, TakeMessage
    PROVE  HubIInv'
<1> USE DEF HubIInv
<1>1. Taken \in 0 .. MaxMessages /\ Taken + Len(broadcast) = accepted /\ Taken \in Nat
    BY TakenIs
<1>2. broadcast \in Seq(Messages) /\ broadcast # <<>> /\ \A i \in DOMAIN broadcast : broadcast[i] = Taken + i
    BY DEF TakeMessage, HubTypeOK, HubInv, Messages
<1>3. /\ message' = Taken + 1 /\ message' \in Messages
      /\ broadcast' \in Seq(Messages) /\ Len(broadcast') = Len(broadcast) - 1
      /\ \A i \in DOMAIN broadcast' : broadcast'[i] = Taken + 1 + i
    BY <1>1, <1>2, TailContiguous DEF TakeMessage
<1>4. Len(broadcast) \in Nat /\ Len(broadcast') \in Nat
    BY <1>2, <1>3, LenProperties
<1>5. Taken' = Taken + 1
    BY <1>1, <1>3, <1>4 DEF TakeMessage, Taken, HubTypeOK
<1>6. HubTypeOK'
    BY <1>3, <1>4 DEF HubTypeOK, TakeMessage, pumps, Messages
<1>7. HubInv'
    BY <1>1, <1>3, <1>4, <1>5 DEF HubInv, TakeMessage, pumps
<1>8. (ClientInv /\ MembersAreOpen)'
    BY DEF ClientInv, MembersAreOpen, TakeMessage, pumps
<1>9. ASSUME NEW d \in Clients
      PROVE  /\ \A i \in DOMAIN send'[d] : send'[d][i] = last'[d] + i
             /\ d \in clients' => last'[d] + Len(send'[d]) + (IF d \in todo' THEN 1 ELSE 0) = Taken'
  <2>1. send'[d] = send[d] /\ last'[d] = last[d] /\ (d \in clients' <=> d \in clients)
        /\ (d \in clients' => d \in todo') /\ d \notin todo
      BY DEF TakeMessage, pumps, Selects
  <2>2. last[d] \in Nat /\ Len(send[d]) \in Nat
      BY LenProperties DEF HubTypeOK
  <2> QED BY <1>1, <1>5, <2>1, <2>2 DEF NoMessageSkipped
<1> QED BY <1>6, <1>7, <1>8, <1>9 DEF NoMessageSkipped

\* The hub copies the message or cuts the client off.
LEMMA CopyIInv ==
    ASSUME HubIInv, NEW c \in Clients, CopyMessage(c) \/ CutClient(c)
    PROVE  HubIInv'
<1> USE DEF HubIInv
<1>1. Taken \in 0 .. MaxMessages /\ Taken \in Nat /\ Taken' = Taken
    BY TakenIs DEF CopyMessage, CutClient, Taken
<1>2. c \in todo /\ c \in clients /\ message = Taken /\ message \in Messages
    BY DEF CopyMessage, CutClient, MembersAreOpen, HubInv
<1>3. /\ send[c] \in Seq(Messages) /\ last[c] \in Nat /\ Len(send[c]) \in Nat
      /\ \A i \in DOMAIN send[c] : send[c][i] = last[c] + i
      /\ last[c] + Len(send[c]) + 1 = Taken
    BY <1>2, LenProperties DEF HubTypeOK, NoMessageSkipped, Messages
<1>4. HubInv'
    BY <1>1 DEF HubInv, CopyMessage, CutClient
<1>5. CASE CopyMessage(c)
  <2>1. /\ send'[c] \in Seq(Messages) /\ Len(send'[c]) = Len(send[c]) + 1
        /\ \A i \in DOMAIN send'[c] : send'[c][i] = last[c] + i
    <3>1. message = last[c] + Len(send[c]) + 1
        BY <1>2, <1>3
    <3>2. send'[c] = Append(send[c], message)
        BY <1>5 DEF CopyMessage, HubTypeOK
    <3>3. /\ Append(send[c], message) \in Seq(Messages)
          /\ Len(Append(send[c], message)) = Len(send[c]) + 1
          /\ \A i \in DOMAIN Append(send[c], message) :
                Append(send[c], message)[i] = last[c] + i
        BY <1>2, <1>3, <3>1, AppendContiguous
    <3> QED BY <3>2, <3>3
  <2>2. \A d \in Clients : d # c => send'[d] = send[d] /\ (d \in todo' <=> d \in todo)
      BY <1>5 DEF CopyMessage, HubTypeOK
  <2>3. send' \in [Clients -> Seq(Messages)]
    <3>1. send' \in [Clients -> Seq(Messages)] <=> \A d \in Clients : send'[d] \in Seq(Messages)
        BY <1>5 DEF CopyMessage, HubTypeOK, Messages
    <3> QED BY <2>1, <2>2, <3>1 DEF HubTypeOK, Messages
  <2>4. HubTypeOK'
    <3>1. \A d \in Clients : Len(send'[d]) <= SendCap
        BY <1>3, <1>5, <2>1, <2>2 DEF CopyMessage, HubTypeOK
    <3> QED BY <1>5, <2>3, <3>1 DEF HubTypeOK, CopyMessage, pumps, Messages
  <2>5. (ClientInv /\ MembersAreOpen)'
      BY <1>2, <1>5, <2>2 DEF ClientInv, MembersAreOpen, CopyMessage, pumps
  <2>6. ASSUME NEW d \in Clients
        PROVE  /\ \A i \in DOMAIN send'[d] : send'[d][i] = last'[d] + i
               /\ d \in clients' => last'[d] + Len(send'[d]) + (IF d \in todo' THEN 1 ELSE 0) = Taken'
    <3>1. last'[d] = last[d] /\ clients' = clients /\ c \notin todo'
        BY <1>5 DEF CopyMessage, pumps
    <3>2. CASE d = c
        BY <1>1, <1>3, <2>1, <3>1, <3>2
    <3>3. CASE d # c
        BY <1>1, <2>2, <3>1, <3>3 DEF NoMessageSkipped
    <3> QED BY <3>2, <3>3
  <2> QED BY <1>4, <2>4, <2>5, <2>6 DEF NoMessageSkipped
<1>6. CASE CutClient(c)
  <2>1. HubTypeOK'
      BY <1>6 DEF HubTypeOK, CutClient, pumps
  <2>2. (ClientInv /\ MembersAreOpen)'
      BY <1>2, <1>6 DEF ClientInv, MembersAreOpen, CutClient, pumps, HubTypeOK
  <2>3. NoMessageSkipped'
      BY <1>1, <1>6 DEF NoMessageSkipped, CutClient, pumps
  <2> QED BY <1>4, <2>1, <2>2, <2>3
<1> QED BY <1>5, <1>6

\* The client's goroutines touch nothing the hub relies on.
LEMMA PumpsIInv ==
    ASSUME HubIInv, NEW c \in Clients, Pumps(c)
    PROVE  HubIInv'
<1> USE DEF HubIInv
<1>1. Taken' = Taken /\ HubInv'
    BY DEF Pumps, PeerFails, ReadFails, ReaderCloses, WriterTakes, WriteSucceeds, WriterCloses,
           hub, Taken, HubInv
<1>2. CASE PeerFails(c) \/ WriteSucceeds(c) \/ WriterCloses(c)
  <2>1. HubTypeOK'
    <3>1. CASE PeerFails(c) BY <3>1 DEF PeerFails, hub, HubTypeOK
    <3>2. CASE WriteSucceeds(c) BY <3>2 DEF WriteSucceeds, hub, HubTypeOK
    <3>3. CASE WriterCloses(c) BY <3>3 DEF WriterCloses, hub, HubTypeOK
    <3> QED BY <1>2, <3>1, <3>2, <3>3
  <2>2. UNCHANGED <<hub, send, closed, reader, last>>
      BY <1>2 DEF PeerFails, WriteSucceeds, WriterCloses
  <2>3. (ClientInv /\ MembersAreOpen)'
      BY <2>2 DEF ClientInv, MembersAreOpen, hub
  <2>4. NoMessageSkipped'
      BY <1>1, <2>2 DEF NoMessageSkipped, hub
  <2> QED BY <1>1, <2>1, <2>3, <2>4
<1>3. CASE ReadFails(c) \/ ReaderCloses(c)
  <2>1. HubTypeOK'
      BY <1>3 DEF ReadFails, ReaderCloses, hub, HubTypeOK
  <2>2. (ClientInv /\ MembersAreOpen)'
    <3>1. c \in clients => reader'[c] = "unregister"
        BY <1>3 DEF ReadFails, ReaderCloses, HubTypeOK, ClientInv
    <3>2. reader'[c] # "none" /\ \A d \in Clients : d # c => reader'[d] = reader[d]
        BY <1>3 DEF ReadFails, ReaderCloses, HubTypeOK
    <3>3. UNCHANGED <<clients, todo, send, closed>> /\ clients \subseteq Clients
        BY <1>3 DEF ReadFails, ReaderCloses, hub, HubTypeOK
    <3>4. MembersAreOpen'
        BY <3>3 DEF MembersAreOpen
    <3>5. ClientInv'
        BY <3>1, <3>2, <3>3 DEF ClientInv
    <3> QED BY <3>4, <3>5
  <2>3. NoMessageSkipped'
      BY <1>1, <1>3 DEF ReadFails, ReaderCloses, hub, NoMessageSkipped
  <2> QED BY <1>1, <2>1, <2>2, <2>3
<1>4. CASE WriterTakes(c)
  <2>1. /\ send[c] \in Seq(Messages) /\ send[c] # <<>> /\ last[c] \in Nat
        /\ \A i \in DOMAIN send[c] : send[c][i] = last[c] + i
      BY <1>4 DEF WriterTakes, HubTypeOK, NoMessageSkipped, Messages
  <2>2. /\ last'[c] = last[c] + 1 /\ last'[c] \in Messages
        /\ send'[c] \in Seq(Messages) /\ Len(send'[c]) = Len(send[c]) - 1
        /\ \A i \in DOMAIN send'[c] : send'[c][i] = last'[c] + i
    <3>1. send'[c] = Tail(send[c]) /\ last'[c] = Head(send[c])
        BY <1>4 DEF WriterTakes, HubTypeOK
    <3>2. /\ Head(send[c]) = last[c] + 1 /\ Head(send[c]) \in Messages
          /\ Tail(send[c]) \in Seq(Messages) /\ Len(Tail(send[c])) = Len(send[c]) - 1
          /\ \A i \in DOMAIN Tail(send[c]) : Tail(send[c])[i] = last[c] + 1 + i
        BY <2>1, TailContiguous
    <3> QED BY <3>1, <3>2
  <2>3. \A d \in Clients : d # c => send'[d] = send[d] /\ last'[d] = last[d]
      BY <1>4 DEF WriterTakes, HubTypeOK
  <2>4. Len(send[c]) \in Nat
      BY <2>1, LenProperties
  <2>5. send' \in [Clients -> Seq(Messages)]
    <3>1. send' \in [Clients -> Seq(Messages)] <=> \A d \in Clients : send'[d] \in Seq(Messages)
        BY <1>4 DEF WriterTakes, HubTypeOK, Messages
    <3> QED BY <2>2, <2>3, <3>1 DEF HubTypeOK, Messages
  <2>6. last' \in [Clients -> 0 .. MaxMessages]
    <3>1. last'[c] \in 0 .. MaxMessages
        BY <2>2 DEF Messages
    <3> QED BY <1>4, <3>1 DEF WriterTakes, HubTypeOK
  <2>7. HubTypeOK'
    <3>1. \A d \in Clients : Len(send'[d]) <= SendCap
      <4>1. Len(send'[c]) <= SendCap
        <5>1. Len(send[c]) <= SendCap
            BY DEF HubTypeOK
        <5> QED BY <2>2, <2>4, <5>1
      <4>2. \A d \in Clients : d # c => Len(send'[d]) <= SendCap
          BY <2>3 DEF HubTypeOK
      <4> QED BY <4>1, <4>2
    <3> QED BY <1>4, <2>5, <2>6, <3>1 DEF WriterTakes, HubTypeOK, hub, Messages
  <2>8. (ClientInv /\ MembersAreOpen)'
      BY <1>4, <2>1, <2>3 DEF WriterTakes, ClientInv, MembersAreOpen, hub
  <2>9. ASSUME NEW d \in Clients
        PROVE  /\ \A i \in DOMAIN send'[d] : send'[d][i] = last'[d] + i
               /\ d \in clients' => last'[d] + Len(send'[d]) + (IF d \in todo' THEN 1 ELSE 0) = Taken'
    <3>1. clients' = clients /\ todo' = todo
        BY <1>4 DEF WriterTakes, hub
    <3>2. CASE d = c
      <4>1. c \in clients => last[c] + Len(send[c]) + (IF c \in todo THEN 1 ELSE 0) = Taken
          BY DEF NoMessageSkipped
      <4>2. c \in clients => last'[c] + Len(send'[c]) + (IF c \in todo THEN 1 ELSE 0) = Taken
        <5>1. last'[c] + Len(send'[c]) = last[c] + Len(send[c])
            BY <2>1, <2>2, <2>4
        <5> QED BY <4>1, <5>1
      <4> QED BY <1>1, <2>2, <3>1, <3>2, <4>2
    <3>3. CASE d # c
        BY <1>1, <2>3, <3>1, <3>3 DEF NoMessageSkipped
    <3> QED BY <3>2, <3>3
  <2> QED BY <1>1, <2>7, <2>8, <2>9 DEF NoMessageSkipped
<1> QED BY <1>2, <1>3, <1>4 DEF Pumps

\* The hub's invariant holds in every reachable state.
LEMMA HubInductive == HubSpec => []HubIInv
<1>1. HubIInv /\ UNCHANGED hubVars => HubIInv'
    BY DEF HubIInv, HubTypeOK, HubInv, ClientInv, MembersAreOpen, NoMessageSkipped, Taken, hubVars, hub, pumps
<1>2. HubIInv /\ [HubNext]_hubVars => HubIInv'
    BY <1>1, BroadcastIInv, MembershipIInv, TakeIInv, CopyIInv, PumpsIInv DEF HubNext, Hub
<1> QED BY HubInitIInv, <1>2, PTL DEF HubSpec

\* The channels stay within their capacities.
THEOREM HubChannelsBounded == HubSpec => []HubTypeOK
<1>1. HubIInv => HubTypeOK
    BY DEF HubIInv
<1> QED BY HubInductive, <1>1, PTL

\* The hub never sends to a closed channel and never closes one twice, for
\* any number of clients that come, fail and are cut off in any order.
THEOREM HubNeverPanics == HubSpec => []MembersAreOpen
<1>1. HubIInv => MembersAreOpen
    BY DEF HubIInv
<1> QED BY HubInductive, <1>1, PTL

\* A registered client misses no message: its stream is a contiguous part of
\* what the broadcast channel accepted.
THEOREM StreamsAreContiguous == HubSpec => []NoMessageSkipped
<1>1. HubIInv => NoMessageSkipped
    BY DEF HubIInv
<1> QED BY HubInductive, <1>1, PTL
=============================================================================
