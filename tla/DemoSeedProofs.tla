--------------------------- MODULE DemoSeedProofs ---------------------------
(***************************************************************************)
(* Theorems about DemoSeed, for any number of runs at once, any addresses, *)
(* drawn twice or not, and every failure.                                  *)
(***************************************************************************)
EXTENDS DemoSeed, SequenceTheorems, FiniteSetTheorems, TLAPS

AllKeys == UNION {Keys(r, phase) : r \in Runs, phase \in DOMAIN Loop}

Row == [table : DOMAIN Loop, key : AllKeys, by : Runs]

Run == [pc : Pcs, item : Nat \ {0}, looked : BOOLEAN, users : SUBSET Row,
        via : Runs \cup {None}, ends : {"complete", "failed"}]

\* There is a row with a key.
Has(R, phase, key) == \E row \in R : row.table = phase /\ row.key = key

\* The key of the j-th row of a phase.
KeyAt(r, phase, j) == Key(r, phase, Loop[phase][j])

Typed ==
    /\ run \in [Runs -> Run]
    /\ rows \in SUBSET Row
    /\ tx \in [Runs -> SUBSET Row]
    /\ forward \in Runs \cup {None}

\* A phase starts at its first item and ends after its last, and a run that has not
\* started, or has ended by itself, holds no port-forward.
PlaceOK(r, x, f) ==
    /\ x.pc \in DOMAIN Loop => x.item <= Len(Loop[x.pc]) + 1
    /\ x.pc = "select" => x.item = 1
    /\ f = r => x.pc \notin {"idle", "failed", "complete"}

\* An open transaction has rows of the items its loop went past, no others.
WrittenOK(r, x, t) ==
    \A row \in t :
        /\ x.pc \in DOMAIN Loop /\ row.table = x.pc
        /\ \E j \in 1 .. x.item - 1 : j <= Len(Loop[x.pc]) /\ row.key = KeyAt(r, x.pc, j)

\* The rows of those items are there, the run's own or committed before.
PassedOK(r, x, R) ==
    x.pc \in DOMAIN Loop =>
        \A j \in 1 .. x.item - 1 : j <= Len(Loop[x.pc]) => Has(R, x.pc, KeyAt(r, x.pc, j))

\* A table or a user in an open transaction is not committed yet.
FreshOK(t, R) ==
    \A row \in t : row.table \in {"tables", "users"} => ~Has(R, row.table, row.key)

\* Two open transactions have no row in common.
Isolated ==
    \A r, s \in Runs : r # s => \A row \in tx[r] : ~Has(tx[s], row.table, row.key)

\* PhasesAreAtomic, of a set of rows.
WholeIn(R, r, phase) == \A i \in 1 .. Len(Loop[phase]) : Has(R, phase, KeyAt(r, phase, i))
AbsentIn(R, r, phase) == \A i \in 1 .. Len(Loop[phase]) : ~Has(R, phase, KeyAt(r, phase, i))
AtomicIn(R) == \A r \in Runs, phase \in DOMAIN Loop : WholeIn(R, r, phase) \/ AbsentIn(R, r, phase)

IInv ==
    /\ Typed
    /\ \A r \in Runs :
          /\ PlaceOK(r, run[r], forward) /\ WrittenOK(r, run[r], tx[r])
          /\ PassedOK(r, run[r], rows \cup tx[r]) /\ FreshOK(tx[r], rows)
    /\ Isolated
    /\ AtomicIn(rows)

----------------------------------------------------------------------------
(* The loops.                                                              *)

LEMMA Phases == DOMAIN Loop = {"tables", "users", "payments", "incidents", "knowledge"}
BY DEF Loop

LEMMA SeqOf ==
    ASSUME NEW S, NEW n \in Nat, NEW f \in [1 .. n -> S]
    PROVE  f \in Seq(S) /\ Len(f) = n
  <1>1. f \in Seq(S)
    BY SeqDef
  <1>2. Len(f) \in Nat /\ DOMAIN f = 1 .. Len(f)
    BY <1>1, LenProperties
  <1>3. 1 .. Len(f) = 1 .. n
    BY <1>2
  <1> QED BY <1>1, <1>2, <1>3

LEMMA LoopItems ==
    ASSUME NEW phase \in DOMAIN Loop
    PROVE  /\ Len(Loop[phase]) \in Nat
           /\ DOMAIN Loop[phase] = 1 .. Len(Loop[phase])
           /\ phase = "tables" => Len(Loop[phase]) = 6
           /\ phase = "incidents" =>
                 /\ Len(Loop[phase]) = 2
                 /\ \A i, j \in 1 .. Len(Loop[phase]) :
                       Loop[phase][i] = Loop[phase][j] => i = j
  <1>1. CASE phase = "tables"
    <2> DEFINE s == <<"users", "idx_users_tier", "payments", "idx_payments_user",
                      "user_incidents", "knowledge_articles">>
    <2>1. Len(s) = 6 /\ DOMAIN s = 1 .. 6
      OBVIOUS
    <2>2. Loop[phase] = s
      BY <1>1 DEF Loop
    <2> HIDE DEF s
    <2>3. Len(Loop[phase]) = 6 /\ DOMAIN Loop[phase] = 1 .. 6
      BY <2>1, <2>2, Zenon
    <2> QED BY <1>1, <2>3
  <1>2. CASE phase = "users"
    <2>1. Loop[phase] = Drawn
      BY <1>2 DEF Loop
    <2>2. Len(Drawn) \in Nat /\ DOMAIN Drawn = 1 .. Len(Drawn)
      BY DemoConstants, LenProperties
    <2> QED BY <1>2, <2>1, <2>2
  <1>3. CASE phase = "payments"
    <2> DEFINE s == [i \in 1 .. Total |-> i]
    <2>1. Total \in Nat /\ s \in [1 .. Total -> Nat]
      BY DemoConstants
    <2>2. Len(s) = Total /\ DOMAIN s = 1 .. Total
      BY <2>1, SeqOf
    <2>3. Loop[phase] = s
      BY <1>3 DEF Loop
    <2> HIDE DEF s
    <2> QED BY <1>3, <2>1, <2>2, <2>3
  <1>4. CASE phase = "incidents"
    <2> DEFINE s == <<"INC1001", "INC1002">>
    <2>1. Len(s) = 2 /\ DOMAIN s = 1 .. 2
      OBVIOUS
    <2>2. s[1] = "INC1001" /\ s[2] = "INC1002"
      OBVIOUS
    <2>3. Loop[phase] = s
      BY <1>4 DEF Loop
    <2> HIDE DEF s
    <2>4. ASSUME NEW i \in 1 .. 2, NEW j \in 1 .. 2, s[i] = s[j] PROVE i = j
      <3>1. i \in {1, 2} /\ j \in {1, 2}
        OBVIOUS
      <3> QED BY <2>2, <2>4, <3>1
    <2>5. /\ Len(Loop[phase]) = 2 /\ DOMAIN Loop[phase] = 1 .. 2
          /\ \A i, j \in 1 .. 2 : Loop[phase][i] = Loop[phase][j] => i = j
      BY <2>1, <2>3, <2>4, Zenon
    <2> QED BY <1>4, <2>5
  <1>5. CASE phase = "knowledge"
    <2> DEFINE s == <<1, 2, 3, 4>>
    <2>1. Len(s) = 4 /\ DOMAIN s = 1 .. 4
      OBVIOUS
    <2>2. Loop[phase] = s
      BY <1>5 DEF Loop
    <2> HIDE DEF s
    <2>3. Len(Loop[phase]) = 4 /\ DOMAIN Loop[phase] = 1 .. 4
      BY <2>1, <2>2, Zenon
    <2> QED BY <1>5, <2>3
  <1> QED BY <1>1, <1>2, <1>3, <1>4, <1>5, Phases

LEMMA KeysOf ==
    ASSUME NEW r \in Runs, NEW phase \in DOMAIN Loop
    PROVE  /\ Keys(r, phase) = {KeyAt(r, phase, j) : j \in 1 .. Len(Loop[phase])}
           /\ Keys(r, phase) \subseteq AllKeys
  <1>1. Keys(r, phase) \subseteq AllKeys
    BY DEF AllKeys
  <1>2. Range(Loop[phase]) = {Loop[phase][j] : j \in 1 .. Len(Loop[phase])}
    BY LoopItems DEF Range
  <1>3. \A k : k \in Keys(r, phase) <=> \E j \in 1 .. Len(Loop[phase]) : k = KeyAt(r, phase, j)
    BY <1>2, Zenon DEF Keys, KeyAt
  <1> QED BY <1>1, <1>3
\* A payment or an article of a run is no other run's; of the rest, all have the same keys.
LEMMA KeyAtOf ==
    ASSUME NEW r \in Runs, NEW s \in Runs, NEW phase \in DOMAIN Loop, r # s,
           NEW i \in 1 .. Len(Loop[phase]), NEW j \in 1 .. Len(Loop[phase])
    PROVE  /\ phase \in {"payments", "knowledge"} => KeyAt(r, phase, i) # KeyAt(s, phase, j)
           /\ phase \notin {"payments", "knowledge"} => KeyAt(r, phase, i) = KeyAt(s, phase, i)
BY DEF KeyAt, Key

LEMMA NewRowKey ==
    ASSUME Typed, NEW r \in Runs, InLoop(r)
    PROVE  /\ run[r].item \in 1 .. Len(Loop[run[r].pc]) /\ run[r].pc \in DOMAIN Loop
           /\ NewRow(r) \in Row
           /\ NewRow(r).table = run[r].pc
           /\ NewRow(r).key = KeyAt(r, run[r].pc, run[r].item)
           /\ \A row : SameKey(row, NewRow(r)) <=>
                 row.table = run[r].pc /\ row.key = KeyAt(r, run[r].pc, run[r].item)
           /\ Exists(r) <=> Has(rows \cup tx[r], run[r].pc, KeyAt(r, run[r].pc, run[r].item))
  <1>1. run[r] \in Run /\ run[r].pc \in DOMAIN Loop /\ run[r].item <= Len(Loop[run[r].pc])
    BY DEF Typed, InLoop
  <1>2. run[r].item \in 1 .. Len(Loop[run[r].pc])
    BY <1>1, LoopItems DEF Run
  <1>3. /\ NewRow(r).table = run[r].pc
        /\ NewRow(r).key = KeyAt(r, run[r].pc, run[r].item)
        /\ NewRow(r) \in Row
    BY <1>1, <1>2, KeysOf DEF NewRow, KeyAt, Item, Row
  <1> QED BY <1>1, <1>2, <1>3 DEF SameKey, Exists, Has

\* A nonempty set of numbers up to n has a largest.
LEMMA Largest ==
    ASSUME NEW n \in Nat, NEW M \in SUBSET (0 .. n), M # {}
    PROVE  \E m \in M : \A k \in M : k <= m
  <1> DEFINE up(m) == m .. n
             T == {up(m) : m \in M}
  <1>1. IsFiniteSet(0 .. n)
    BY FS_Interval
  <1>2. IsWellFoundedOn(StrictSubsetOrdering(0 .. n), SUBSET (0 .. n))
    BY <1>1, FS_StrictSubsetOrderingWellFounded, FS_FiniteSubsetsOfFinite
  <1>3. \A m \in M : m \in 0 .. n /\ up(m) \in SUBSET (0 .. n)
    OBVIOUS
  <1>4. T \subseteq SUBSET (0 .. n) /\ T # {}
    BY <1>3
  <1>5. PICK x \in T : \A y \in T : ~(<<y, x>> \in StrictSubsetOrdering(0 .. n))
    BY <1>2, <1>4, WFMin
  <1>6. PICK m \in M : x = up(m)
    BY <1>5
  <1>7. ASSUME NEW k \in M, m < k PROVE FALSE
    <2>1. up(k) \subseteq up(m) /\ up(k) # up(m)
      BY <1>3, <1>7
    <2>2. <<up(k), up(m)>> \in StrictSubsetOrdering(0 .. n)
      BY <1>3, <2>1 DEF StrictSubsetOrdering
    <2> QED BY <1>5, <1>6, <2>2
  <1> QED BY <1>3, <1>7

----------------------------------------------------------------------------
(* The invariant is inductive.                                             *)

LEMMA StartedRun ==
    ASSUME NEW via \in Runs \cup {None}
    PROVE  /\ Started(via) \in Run
           /\ Started(via).pc = "connect" /\ Started(via).item = 1
BY DEF Started, Run, Pcs

LEMMA InitIInv == Init => IInv
  <1> SUFFICES ASSUME Init PROVE IInv
    OBVIOUS
  <1> DEFINE x == [Started(None) EXCEPT !.pc = "idle"]
  <1>0. x \in Run /\ x.pc = "idle"
    BY StartedRun DEF Run, Pcs
  <1>1. /\ x \in Run /\ x.pc = "idle"
        /\ \A r \in Runs : run[r] = x /\ tx[r] = {}
        /\ rows = {} /\ forward = None
    BY <1>0 DEF Init
  <1>2. Typed
    BY <1>1 DEF Init, Typed
  <1> HIDE DEF x
  <1>3. \A r \in Runs : forward # r
    BY <1>1, DemoConstants
  <1>4. "idle" \notin DOMAIN Loop
    BY Phases
  <1>5. \A r \in Runs :
           /\ PlaceOK(r, run[r], forward) /\ WrittenOK(r, run[r], tx[r])
           /\ PassedOK(r, run[r], rows \cup tx[r]) /\ FreshOK(tx[r], rows)
    BY <1>1, <1>3, <1>4 DEF PlaceOK, WrittenOK, PassedOK, FreshOK
  <1>6. Isolated /\ AtomicIn(rows)
    BY <1>1 DEF Isolated, AtomicIn, AbsentIn, Has
  <1> QED BY <1>2, <1>5, <1>6 DEF IInv

\* The parts of the invariant that are about one run, of the others when r steps.
LEMMA OthersOK ==
    ASSUME IInv, NEW r \in Runs, NEW x \in Run, run' = [run EXCEPT ![r] = x],
           NEW t \in SUBSET Row, tx' = [tx EXCEPT ![r] = t],
           forward' \in Runs \cup {None},
           \A s \in Runs \ {r} : forward' = s => forward = s,
           PlaceOK(r, x, forward'), WrittenOK(r, x, t), PassedOK(r, x, rows \cup t),
           FreshOK(t, rows), UNCHANGED rows
    PROVE  /\ Typed' /\ AtomicIn(rows)'
           /\ \A s \in Runs :
                 /\ PlaceOK(s, run[s], forward)' /\ WrittenOK(s, run[s], tx[s])'
                 /\ PassedOK(s, run[s], rows \cup tx[s])' /\ FreshOK(tx[s], rows)'
  <1>1. Typed /\ AtomicIn(rows)
    BY DEF IInv
  <1>2. /\ run' \in [Runs -> Run] /\ tx' \in [Runs -> SUBSET Row]
        /\ run'[r] = x /\ tx'[r] = t
        /\ \A s \in Runs \ {r} : run'[s] = run[s] /\ tx'[s] = tx[s]
    BY <1>1 DEF Typed
  <1>3. Typed' /\ AtomicIn(rows)'
    <2>1. Typed'
      BY <1>1, <1>2 DEF Typed
    <2>2. AtomicIn(rows')
      BY <1>1
    <2>3. AtomicIn(rows)'
      BY <2>2 DEF AtomicIn, WholeIn, AbsentIn
    <2> QED BY <2>1, <2>3
  <1>4. ASSUME NEW s \in Runs
        PROVE  /\ PlaceOK(s, run[s], forward)' /\ WrittenOK(s, run[s], tx[s])'
               /\ PassedOK(s, run[s], rows \cup tx[s])' /\ FreshOK(tx[s], rows)'
    <2>1. CASE s = r
      BY <1>2, <2>1 DEF PlaceOK, WrittenOK, PassedOK, FreshOK, Has, KeyAt, Key
    <2>2. CASE s # r
      <3>1. /\ PlaceOK(s, run[s], forward) /\ WrittenOK(s, run[s], tx[s])
            /\ PassedOK(s, run[s], rows \cup tx[s]) /\ FreshOK(tx[s], rows)
        BY DEF IInv
      <3>2. run'[s] = run[s] /\ tx'[s] = tx[s] /\ (forward' = s => forward = s)
        BY <1>2, <2>2
      <3> QED BY <3>1, <3>2 DEF PlaceOK, WrittenOK, PassedOK, FreshOK, Has, KeyAt, Key
    <2> QED BY <2>1, <2>2
  <1> QED BY <1>3, <1>4

\* A run goes to another place, without an open transaction.
LEMMA MoveIInv ==
    ASSUME IInv, NEW r \in Runs, NEW x \in Run, run' = [run EXCEPT ![r] = x],
           tx' = [tx EXCEPT ![r] = {}], UNCHANGED rows,
           x.pc \in DOMAIN Loop \cup {"select"} => x.item = 1,
           forward' \in Runs \cup {None},
           \A s \in Runs \ {r} : forward' = s => forward = s,
           forward' = r => x.pc \notin {"idle", "failed", "complete"}
    PROVE  IInv'
  <1>1. PlaceOK(r, x, forward')
    BY LoopItems DEF PlaceOK
  <1>2. WrittenOK(r, x, {}) /\ PassedOK(r, x, rows \cup {}) /\ FreshOK({}, rows)
    BY DEF WrittenOK, PassedOK, FreshOK
  <1>3. Isolated'
    <2>1. Isolated /\ tx \in [Runs -> SUBSET Row]
      BY DEF IInv, Typed
    <2>2. \A s \in Runs : tx'[s] = IF s = r THEN {} ELSE tx[s]
      BY <2>1
    <2> QED BY <2>1, <2>2 DEF Isolated, Has
  <1> QED BY <1>1, <1>2, <1>3, OthersOK DEF IInv

\* A run goes on to its next item: its row is there, or it has written one.
LEMMA ItemIInv ==
    ASSUME IInv, NEW r \in Runs, InLoop(r), NextItem(r), NEW t,
           tx' = [tx EXCEPT ![r] = t], UNCHANGED <<rows, forward>>,
           \/ t = tx[r] /\ Exists(r)
           \/ /\ t = tx[r] \cup {NewRow(r)} /\ Holders(r) = {}
              /\ run[r].pc \in {"tables", "users"} => ~Exists(r)
    PROVE  IInv'
  <1> DEFINE x == [run[r] EXCEPT !.item = run[r].item + 1, !.looked = FALSE]
             pc == run[r].pc
             key == KeyAt(r, pc, run[r].item)
  <1>1. /\ Typed /\ Isolated /\ run[r] \in Run /\ tx[r] \in SUBSET Row
        /\ PlaceOK(r, run[r], forward) /\ WrittenOK(r, run[r], tx[r])
        /\ PassedOK(r, run[r], rows \cup tx[r]) /\ FreshOK(tx[r], rows)
        /\ tx \in [Runs -> SUBSET Row] /\ forward \in Runs \cup {None}
    BY DEF IInv, Typed
  <1>2. /\ run[r].item \in 1 .. Len(Loop[pc]) /\ pc \in DOMAIN Loop
        /\ NewRow(r) \in Row /\ NewRow(r).table = pc /\ NewRow(r).key = key
        /\ \A row : SameKey(row, NewRow(r)) <=> row.table = pc /\ row.key = key
        /\ Exists(r) <=> Has(rows \cup tx[r], pc, key)
    BY <1>1, NewRowKey
  <1>3. Len(Loop[pc]) \in Nat /\ run[r].item + 1 \in Nat \ {0}
    BY <1>2, LoopItems
  <1>4. x \in Run /\ x.pc = pc /\ x.item = run[r].item + 1
    BY <1>1, <1>3 DEF Run
  <1>5. run' = [run EXCEPT ![r] = x]
    BY DEF NextItem
  <1> HIDE DEF x
  <1>6. t \in SUBSET Row
    BY <1>1, <1>2
  <1>7. PlaceOK(r, x, forward')
    <2>1. pc # "select" /\ pc \notin {"idle", "failed", "complete"}
      BY <1>2, Phases
    <2>2. x.item <= Len(Loop[pc]) + 1
      BY <1>2, <1>3, <1>4
    <2> QED BY <1>4, <2>1, <2>2 DEF PlaceOK
  <1>8. WrittenOK(r, x, t)
    <2>1. ASSUME NEW row \in tx[r]
          PROVE  /\ row.table = pc
                 /\ \E j \in 1 .. run[r].item : j <= Len(Loop[pc]) /\ row.key = KeyAt(r, pc, j)
      BY <1>1, <1>2 DEF WrittenOK
    <2>2. ASSUME NEW row \in t
          PROVE  /\ row.table = pc
                 /\ \E j \in 1 .. run[r].item : j <= Len(Loop[pc]) /\ row.key = KeyAt(r, pc, j)
      <3>1. CASE row \in tx[r]
        BY <2>1, <3>1
      <3>2. CASE row = NewRow(r)
        BY <1>2, <1>3, <3>2
      <3> QED BY <3>1, <3>2
    <2>3. x.item - 1 = run[r].item
      BY <1>2, <1>4
    <2> QED BY <1>2, <1>4, <2>2, <2>3 DEF WrittenOK
  <1>9. PassedOK(r, x, rows \cup t)
    <2>1. ASSUME NEW j \in 1 .. run[r].item - 1
          PROVE  Has(rows \cup tx[r], pc, KeyAt(r, pc, j))
      <3>1. j <= Len(Loop[pc])
        BY <1>2, <1>3
      <3> QED BY <1>1, <1>2, <3>1 DEF PassedOK
    <2>2. Has(rows \cup t, pc, key)
      BY <1>2 DEF Has
    <2>3. \A j \in 1 .. run[r].item - 1 : Has(rows \cup t, pc, KeyAt(r, pc, j))
      BY <2>1 DEF Has
    <2>4. \A j \in 1 .. x.item - 1 : j \in 1 .. run[r].item - 1 \/ j = run[r].item
      BY <1>2, <1>4
    <2> QED BY <1>4, <2>2, <2>3, <2>4 DEF PassedOK
  <1>10. FreshOK(t, rows)
    <2> SUFFICES ASSUME NEW row \in t, row.table \in {"tables", "users"}
                 PROVE  ~Has(rows, row.table, row.key)
      BY DEF FreshOK
    <2>1. CASE row \in tx[r]
      BY <1>1, <2>1 DEF FreshOK
    <2>2. CASE row = NewRow(r) /\ ~Exists(r)
      BY <1>2, <2>2 DEF Has
    <2>3. row = NewRow(r) => row.table = pc
      BY <1>2
    <2> QED BY <2>1, <2>2, <2>3
  <1>11. Isolated'
    <2>1. \A s \in Runs : tx'[s] = IF s = r THEN t ELSE tx[s]
      BY <1>1
    <2>2. ASSUME NEW s \in Runs \ {r}, Holders(r) = {} PROVE ~Has(tx[s], pc, key)
      BY <1>2, <2>2 DEF Holders, Has
    <2>3. ASSUME NEW s \in Runs \ {r}, NEW row \in t PROVE ~Has(tx[s], row.table, row.key)
      <3>1. CASE row \in tx[r]
        BY <1>1, <3>1 DEF Isolated
      <3>2. CASE row = NewRow(r) /\ Holders(r) = {}
        BY <1>2, <2>2, <3>2
      <3> QED BY <3>1, <3>2
    <2>4. ASSUME NEW s \in Runs \ {r}, NEW row \in tx[s] PROVE ~Has(t, row.table, row.key)
      BY <2>3, <2>4 DEF Has
    <2> QED BY <1>1, <2>1, <2>3, <2>4 DEF Isolated
  <1>12. forward' \in Runs \cup {None} /\ \A s \in Runs \ {r} : forward' = s => forward = s
    BY <1>1
  <1>13. /\ Typed' /\ AtomicIn(rows)'
         /\ \A s \in Runs :
               /\ PlaceOK(s, run[s], forward)' /\ WrittenOK(s, run[s], tx[s])'
               /\ PassedOK(s, run[s], rows \cup tx[s])' /\ FreshOK(tx[s], rows)'
    BY <1>4, <1>5, <1>6, <1>7, <1>8, <1>9, <1>10, <1>12, OthersOK
  <1> QED BY <1>11, <1>13 DEF IInv

\* A phase that commits has a row for each of its items.
LEMMA CommitIInv ==
    ASSUME IInv, NEW r \in Runs, Commit(r)
    PROVE  IInv'
  <1> DEFINE phase == run[r].pc
             ends == IF phase = "knowledge" THEN "complete" ELSE run[r].ends
             x == [run[r] EXCEPT !.pc = NextPhase[phase], !.item = 1, !.ends = ends]
  <1>1. /\ Typed /\ Isolated /\ AtomicIn(rows) /\ run[r] \in Run /\ tx[r] \in SUBSET Row
        /\ PlaceOK(r, run[r], forward) /\ WrittenOK(r, run[r], tx[r])
        /\ PassedOK(r, run[r], rows \cup tx[r])
        /\ run \in [Runs -> Run] /\ tx \in [Runs -> SUBSET Row] /\ rows \in SUBSET Row
    BY DEF IInv, Typed
  <1>2. phase \in DOMAIN Loop /\ Len(Loop[phase]) \in Nat
    BY LoopItems DEF Commit
  <1>3. run[r].item = Len(Loop[phase]) + 1
    <2>1. run[r].item \in Nat \ {0} /\ ~(run[r].item <= Len(Loop[phase]))
      BY <1>1, <1>2 DEF Commit, InLoop, Run
    <2>2. run[r].item <= Len(Loop[phase]) + 1
      BY <1>1, <1>2 DEF PlaceOK
    <2> QED BY <1>2, <2>1, <2>2
  <1>4. NextPhase[phase] \in {"users", "select", "payments", "incidents", "knowledge", "stop"}
    BY <1>2, Phases DEF NextPhase
  <1>5. NextPhase[phase] \in Pcs /\ NextPhase[phase] \notin {"idle", "failed", "complete"}
    BY <1>4, Phases DEF Pcs
  <1>6. ends \in {"complete", "failed"}
    BY <1>1 DEF Run
  <1>7. run' = [run EXCEPT ![r] = x]
    BY DEF Commit
  <1> HIDE DEF ends
  <1>8. x \in Run /\ x.pc = NextPhase[phase] /\ x.item = 1
    <2> DEFINE to == NextPhase[phase]
    <2>1. 1 \in Nat \ {0} /\ to \in Pcs
      BY <1>5
    <2>2. x = [run[r] EXCEPT !.pc = to, !.item = 1, !.ends = ends]
      OBVIOUS
    <2> HIDE DEF to, x
    <2>3. x \in Run
      BY <1>1, <1>6, <2>1, <2>2 DEF Run
    <2>4. x.pc = to /\ x.item = 1
      BY <1>1, <2>2 DEF Run
    <2> QED BY <2>3, <2>4 DEF to
  <1> HIDE DEF x
  <1>9. /\ run' \in [Runs -> Run] /\ run'[r] = x
        /\ tx' \in [Runs -> SUBSET Row] /\ tx'[r] = {}
        /\ \A s \in Runs \ {r} : run'[s] = run[s] /\ tx'[s] = tx[s]
        /\ rows' = {row \in rows : ~\E new \in tx[r] : SameKey(row, new)} \cup tx[r]
        /\ UNCHANGED forward
    <2>1. /\ run' \in [Runs -> Run] /\ run'[r] = x
          /\ \A s \in Runs \ {r} : run'[s] = run[s]
      BY <1>1, <1>7, <1>8
    <2>2. /\ tx' = [tx EXCEPT ![r] = {}]
          /\ rows' = {row \in rows : ~\E new \in tx[r] : SameKey(row, new)} \cup tx[r]
          /\ UNCHANGED forward
      BY DEF Commit
    <2>3. /\ tx' \in [Runs -> SUBSET Row] /\ tx'[r] = {}
          /\ \A s \in Runs \ {r} : tx'[s] = tx[s]
      BY <1>1, <2>2
    <2> QED BY <2>1, <2>2, <2>3
  <1>10. \A p, k : Has(rows', p, k) <=> Has(rows, p, k) \/ Has(tx[r], p, k)
    BY <1>9 DEF Has, SameKey
  <1>11. \A p, k : Has(tx[r], p, k) =>
            p = phase /\ \E j \in 1 .. Len(Loop[phase]) : k = KeyAt(r, phase, j)
    BY <1>1, <1>2, <1>3 DEF WrittenOK, Has
  <1>12. WholeIn(rows', r, phase)
    <2>1. ASSUME NEW j \in 1 .. Len(Loop[phase])
          PROVE  Has(rows \cup tx[r], phase, KeyAt(r, phase, j))
      <3>1. j \in 1 .. run[r].item - 1 /\ j <= Len(Loop[phase])
        BY <1>2, <1>3
      <3> QED BY <1>1, <1>2, <3>1 DEF PassedOK
    <2>2. \A k : Has(rows \cup tx[r], phase, k) => Has(rows', phase, k)
      BY <1>10 DEF Has
    <2> QED BY <2>1, <2>2 DEF WholeIn
  <1>13. AtomicIn(rows')
    <2> SUFFICES ASSUME NEW s \in Runs, NEW p \in DOMAIN Loop
                 PROVE  WholeIn(rows', s, p) \/ AbsentIn(rows', s, p)
      BY DEF AtomicIn
    <2>1. WholeIn(rows, s, p) \/ AbsentIn(rows, s, p)
      BY <1>1 DEF AtomicIn
    <2>2. WholeIn(rows, s, p) => WholeIn(rows', s, p)
      BY <1>10 DEF WholeIn
    <2>3. CASE p # phase
      BY <1>10, <1>11, <2>1, <2>2, <2>3 DEF AbsentIn
    <2>4. CASE p = phase /\ s = r
      BY <1>12, <2>4
    <2>5. CASE p = phase /\ s # r /\ phase \in {"payments", "knowledge"}
      <3>1. \A i \in 1 .. Len(Loop[phase]) : ~Has(tx[r], phase, KeyAt(s, phase, i))
        BY <1>2, <1>11, <2>5, KeyAtOf
      <3> QED BY <1>10, <2>1, <2>2, <2>5, <3>1 DEF AbsentIn
    <2>6. CASE p = phase /\ s # r /\ phase \notin {"payments", "knowledge"}
      <3>1. \A i \in 1 .. Len(Loop[phase]) : KeyAt(s, phase, i) = KeyAt(r, phase, i)
        BY <1>2, <2>6, KeyAtOf
      <3> QED BY <1>12, <2>6, <3>1 DEF WholeIn
    <2> QED BY <2>3, <2>4, <2>5, <2>6
  <1>14. Isolated'
    BY <1>1, <1>9 DEF Isolated, Has
  <1>15. ASSUME NEW s \in Runs
         PROVE  /\ PlaceOK(s, run'[s], forward') /\ WrittenOK(s, run'[s], tx'[s])
                /\ PassedOK(s, run'[s], rows' \cup tx'[s]) /\ FreshOK(tx'[s], rows')
    <2>1. CASE s = r
      <3>1. run'[s] = x /\ tx'[s] = {}
        BY <1>9, <2>1
      <3>2. WrittenOK(s, x, {}) /\ FreshOK({}, rows') /\ PassedOK(s, x, rows' \cup {})
        BY <1>8 DEF WrittenOK, FreshOK, PassedOK
      <3>3. PlaceOK(s, x, forward')
        BY <1>5, <1>8, LoopItems DEF PlaceOK
      <3> QED BY <3>1, <3>2, <3>3
    <2>2. CASE s # r
      <3>1. /\ PlaceOK(s, run[s], forward) /\ WrittenOK(s, run[s], tx[s])
            /\ PassedOK(s, run[s], rows \cup tx[s]) /\ FreshOK(tx[s], rows)
        BY DEF IInv
      <3>2. \A p, k : Has(rows \cup tx[s], p, k) => Has(rows' \cup tx[s], p, k)
        <4>1. \A p, k : Has(rows, p, k) => Has(rows', p, k)
          BY <1>10
        <4> QED BY <4>1 DEF Has
      <3>3. PassedOK(s, run[s], rows' \cup tx[s])
        BY <3>1, <3>2 DEF PassedOK
      <3>4. FreshOK(tx[s], rows')
        BY <1>1, <1>10, <2>2, <3>1 DEF FreshOK, Isolated
      <3> QED BY <1>9, <2>2, <3>1, <3>3, <3>4
    <2> QED BY <2>1, <2>2
  <1>16. rows' \in SUBSET Row
    BY <1>1, <1>9
  <1>17. Typed'
    BY <1>1, <1>9, <1>16 DEF Typed
  <1>18. AtomicIn(rows)'
    BY <1>13 DEF AtomicIn, WholeIn, AbsentIn
  <1>19. \A s \in Runs :
            /\ PlaceOK(s, run[s], forward)' /\ WrittenOK(s, run[s], tx[s])'
            /\ PassedOK(s, run[s], rows \cup tx[s])' /\ FreshOK(tx[s], rows)'
    BY <1>15 DEF PlaceOK, WrittenOK, PassedOK, FreshOK
  <1> QED BY <1>14, <1>17, <1>18, <1>19 DEF IInv

\* Outside the loops there is no open transaction.
LEMMA NoTransaction ==
    ASSUME IInv, NEW r \in Runs, run[r].pc \notin DOMAIN Loop
    PROVE  tx[r] = {} /\ tx = [tx EXCEPT ![r] = {}]
  <1>1. WrittenOK(r, run[r], tx[r]) /\ tx \in [Runs -> SUBSET Row]
    BY DEF IInv, Typed
  <1>2. tx[r] = {}
    BY <1>1 DEF WrittenOK
  <1> QED BY <1>1, <1>2

LEMMA GoIInv ==
    ASSUME IInv, NEW r \in Runs, NEW to \in Pcs, Go(r, run[r].pc, to),
           tx' = [tx EXCEPT ![r] = {}], UNCHANGED rows,
           forward' \in Runs \cup {None},
           \A s \in Runs \ {r} : forward' = s => forward = s,
           forward' = r => to \notin {"idle", "failed", "complete"}
    PROVE  IInv'
  <1> DEFINE x == [run[r] EXCEPT !.pc = to, !.item = 1, !.looked = FALSE]
  <1>1. run[r] \in Run
    BY DEF IInv, Typed
  <1>2. x \in Run /\ x.pc = to /\ x.item = 1
    <2>1. 1 \in Nat \ {0} /\ FALSE \in BOOLEAN
      OBVIOUS
    <2>2. x \in Run
      BY <1>1, <2>1 DEF Run
    <2>3. x.pc = to /\ x.item = 1
      BY <1>1 DEF Run
    <2> QED BY <2>2, <2>3
  <1>3. run' = [run EXCEPT ![r] = x]
    BY DEF Go
  <1> HIDE DEF x
  <1> QED BY <1>2, <1>3, MoveIInv

LEMMA NextIInv == IInv /\ [Next]_vars => IInv'
  <1> SUFFICES ASSUME IInv, [Next]_vars PROVE IInv'
    OBVIOUS
  <1>1. /\ Typed /\ run \in [Runs -> Run] /\ forward \in Runs \cup {None}
        /\ \A r \in Runs : PlaceOK(r, run[r], forward)
    BY DEF IInv, Typed
  <1>2. /\ {"connect", "tables", "stop", "failed", "interrupted", "complete"} \subseteq Pcs
        /\ \A pc \in {"idle", "connect", "select", "stop"} : pc \notin DOMAIN Loop
        /\ "tables" \in DOMAIN Loop /\ "payments" \in DOMAIN Loop /\ "payments" \in Pcs
    BY Phases DEF Pcs, Ended
  <1>3. ASSUME NEW r \in Runs
        PROVE  /\ Stopped(r) \in Runs \cup {None} /\ Stopped(r) # r
               /\ \A s \in Runs \ {r} : Stopped(r) = s => forward = s
    BY <1>1, DemoConstants DEF Stopped
  <1>4. ASSUME NEW r \in Runs, StartPortForward(r) PROVE IInv'
    <2>1. forward' \in Runs \cup {None} /\ \A s \in Runs \ {r} : forward' = s => forward = s
      BY <1>1, <1>4 DEF StartPortForward
    <2>2. /\ Started(forward') \in Run
          /\ Started(forward').pc = "connect" /\ Started(forward').item = 1
      BY <2>1, StartedRun
    <2>3. tx' = [tx EXCEPT ![r] = {}]
      BY <1>2, <1>4, NoTransaction DEF StartPortForward
    <2>4. run' = [run EXCEPT ![r] = Started(forward')] /\ UNCHANGED rows
      BY <1>4 DEF StartPortForward
    <2> QED BY <2>1, <2>2, <2>3, <2>4, MoveIInv
  <1>5. ASSUME NEW r \in Runs, PortForwardFails(r) PROVE IInv'
    <2>1. /\ run[r].pc = "idle" /\ Go(r, run[r].pc, "failed")
          /\ UNCHANGED <<rows, tx, forward>>
      BY <1>5 DEF PortForwardFails, Go
    <2>2. tx' = [tx EXCEPT ![r] = {}] /\ forward # r
      BY <1>1, <1>2, <2>1, NoTransaction DEF PlaceOK
    <2> QED BY <1>1, <1>2, <2>1, <2>2, GoIInv
  <1>6. ASSUME NEW r \in Runs, Connect(r) PROVE IInv'
    <2>1. /\ run[r].pc = "connect" /\ Go(r, run[r].pc, "tables")
          /\ UNCHANGED <<rows, tx, forward>>
      BY <1>6 DEF Connect, Go
    <2>2. tx' = [tx EXCEPT ![r] = {}]
      BY <1>2, <2>1, NoTransaction
    <2> QED BY <1>1, <1>2, <2>1, <2>2, GoIInv
  <1>7. ASSUME NEW r \in Runs, ConnectFails(r) PROVE IInv'
    <2>1. /\ run[r].pc = "connect" /\ Go(r, run[r].pc, "failed")
          /\ UNCHANGED <<rows, tx>> /\ forward' = Stopped(r)
      BY <1>7 DEF ConnectFails, Go
    <2>2. tx' = [tx EXCEPT ![r] = {}]
      BY <1>2, <2>1, NoTransaction
    <2> QED BY <1>2, <1>3, <2>1, <2>2, GoIInv
  <1>8. ASSUME NEW r \in Runs, Interrupt(r) PROVE IInv'
    <2>1. /\ Go(r, run[r].pc, "interrupted") /\ tx' = [tx EXCEPT ![r] = {}]
          /\ UNCHANGED <<rows, forward>>
      BY <1>8 DEF Interrupt
    <2> QED BY <1>1, <1>2, <2>1, GoIInv
  <1>9. ASSUME NEW r \in Runs, LookForTable(r) PROVE IInv'
    <2>1. InLoop(r) /\ UNCHANGED <<rows, tx, forward>>
      BY <1>9 DEF LookForTable
    <2>2. CASE Exists(r) /\ NextItem(r)
      <3>1. tx' = [tx EXCEPT ![r] = tx[r]]
        BY <1>1, <2>1 DEF Typed
      <3> QED BY <2>1, <2>2, <3>1, ItemIInv
    <2>3. CASE run' = [run EXCEPT ![r].looked = TRUE]
      <3>1. /\ run' \in [Runs -> Run]
            /\ \A s \in Runs : run'[s].pc = run[s].pc /\ run'[s].item = run[s].item
        BY <1>1, <2>3 DEF Run
      <3>2. Typed' /\ Isolated' /\ AtomicIn(rows)'
        BY <2>1, <3>1 DEF IInv, Typed, Isolated, AtomicIn, WholeIn, AbsentIn
      <3>3. \A s \in Runs :
              /\ PlaceOK(s, run[s], forward)' /\ WrittenOK(s, run[s], tx[s])'
              /\ PassedOK(s, run[s], rows \cup tx[s])' /\ FreshOK(tx[s], rows)'
        <4> SUFFICES ASSUME NEW s \in Runs
                     PROVE  /\ PlaceOK(s, run'[s], forward') /\ WrittenOK(s, run'[s], tx'[s])
                            /\ PassedOK(s, run'[s], rows' \cup tx'[s])
                            /\ FreshOK(tx'[s], rows')
          BY DEF PlaceOK, WrittenOK, PassedOK, FreshOK
        <4>1. /\ PlaceOK(s, run[s], forward) /\ WrittenOK(s, run[s], tx[s])
              /\ PassedOK(s, run[s], rows \cup tx[s]) /\ FreshOK(tx[s], rows)
          BY DEF IInv
        <4>2. run'[s].pc = run[s].pc /\ run'[s].item = run[s].item
          BY <3>1
        <4> QED BY <2>1, <4>1, <4>2 DEF PlaceOK, WrittenOK, PassedOK
      <3> QED BY <3>2, <3>3 DEF IInv
    <2> QED BY <1>9, <2>2, <2>3 DEF LookForTable
  <1>10. ASSUME NEW r \in Runs, WriteRow(r) PROVE IInv'
    <2>1. /\ InLoop(r) /\ Holders(r) = {} /\ NextItem(r) /\ UNCHANGED <<rows, forward>>
          /\ run[r].pc = "tables" => ~Exists(r)
      BY <1>10 DEF WriteRow, CanWrite
    <2>2. CASE Exists(r) /\ run[r].pc # "incidents"
      <3>1. tx' = [tx EXCEPT ![r] = tx[r]]
        BY <1>10, <2>2 DEF WriteRow
      <3> QED BY <2>1, <2>2, <3>1, ItemIInv
    <2>3. CASE ~(Exists(r) /\ run[r].pc # "incidents")
      <3>1. tx' = [tx EXCEPT ![r] = tx[r] \cup {NewRow(r)}]
        BY <1>10, <2>3 DEF WriteRow
      <3>2. run[r].pc \in {"tables", "users"} => ~Exists(r)
        BY <2>3
      <3> QED BY <2>1, <3>1, <3>2, ItemIInv
    <2> QED BY <2>2, <2>3
  <1>11. ASSUME NEW r \in Runs, SelectUsers(r) PROVE IInv'
    <2> DEFINE x == [run[r] EXCEPT !.pc = "payments", !.users = UsersThere(r)]
    <2>1. /\ run[r].pc = "select" /\ UNCHANGED <<rows, tx, forward>>
          /\ run' = [run EXCEPT ![r] = x]
      BY <1>11 DEF SelectUsers
    <2>2. run[r] \in Run /\ UsersThere(r) \in SUBSET Row /\ run[r].item = 1
      BY <1>1, <2>1 DEF UsersThere, Typed, PlaceOK
    <2>3. x \in Run /\ x.pc = "payments" /\ x.item = 1
      BY <1>2, <2>2 DEF Run
    <2> HIDE DEF x
    <2>4. tx' = [tx EXCEPT ![r] = {}]
      BY <1>2, <2>1, NoTransaction
    <2> QED BY <1>1, <2>1, <2>3, <2>4, MoveIInv
  <1>12. ASSUME NEW r \in Runs, RollBack(r) PROVE IInv'
    <2>1. /\ Go(r, run[r].pc, "stop") /\ tx' = [tx EXCEPT ![r] = {}]
          /\ UNCHANGED <<rows, forward>>
      BY <1>12 DEF RollBack
    <2> QED BY <1>1, <1>2, <2>1, GoIInv
  <1>13. ASSUME NEW r \in Runs, Stop(r) PROVE IInv'
    <2>1. /\ run[r].pc = "stop" /\ Go(r, run[r].pc, run[r].ends)
          /\ UNCHANGED <<rows, tx>> /\ forward' = Stopped(r)
      BY <1>13 DEF Stop, Go
    <2>2. tx' = [tx EXCEPT ![r] = {}]
      BY <1>2, <2>1, NoTransaction
    <2>3. run[r].ends \in Pcs
      BY <1>1, <1>2 DEF Run
    <2> QED BY <1>3, <2>1, <2>2, <2>3, GoIInv
  <1>14. CASE UNCHANGED vars
    BY <1>14 DEF vars, IInv, Typed, PlaceOK, WrittenOK, PassedOK, FreshOK, Isolated, AtomicIn,
       WholeIn, AbsentIn
  <1> QED BY <1>4, <1>5, <1>6, <1>7, <1>8, <1>9, <1>10, <1>11, <1>12, <1>13, <1>14, CommitIInv
          DEF Next, Script, Raises, MayRaise

\* The inductive invariant holds in every reachable state.
THEOREM Invariance == Spec => []IInv
  <1> QED BY InitIInv, NextIInv, PTL DEF Spec

----------------------------------------------------------------------------

\* Every variable keeps its type, whatever fails (bootstrap_demo_users.py).
THEOREM TypeCorrect == Spec => []TypeOK
  <1>1. ASSUME IInv PROVE TypeOK
    <2>1. ASSUME NEW r \in Runs
          PROVE  /\ run[r].pc \in Pcs /\ run[r].looked \in BOOLEAN
                 /\ run[r].pc \in DOMAIN Loop => run[r].item \in 1 .. Len(Loop[run[r].pc]) + 1
                 /\ run[r].via \in Runs \cup {None} /\ run[r].ends \in {"complete", "failed"}
      <3>1. run[r] \in Run /\ PlaceOK(r, run[r], forward)
        BY <1>1 DEF IInv, Typed
      <3>2. run[r].item \in Nat \ {0}
        BY <3>1 DEF Run
      <3>3. run[r].pc \in DOMAIN Loop => run[r].item \in 1 .. Len(Loop[run[r].pc]) + 1
        BY <3>1, <3>2, LoopItems DEF PlaceOK
      <3> QED BY <3>1, <3>3 DEF Run
    <2>2. ASSUME NEW row \in rows \cup UNION {tx[r] : r \in Runs}
          PROVE  row.table \in DOMAIN Loop /\ row.by \in Runs
      <3>1. row \in Row
        BY <1>1 DEF IInv, Typed
      <3> QED BY <3>1 DEF Row
    <2> QED BY <1>1, <2>1, <2>2 DEF TypeOK, IInv, Typed
  <1> QED BY <1>1, Invariance, PTL

\* The run that holds a row another waits for is further in the same loop.
LEMMA HolderIsAhead ==
    ASSUME IInv, NEW r \in Runs, NEW s \in Holders(r), InLoop(r)
    PROVE  /\ s \in Runs /\ run[s].pc = run[r].pc /\ run[r].item < run[s].item
           /\ run[r].pc \notin {"payments", "knowledge"}
  <1> DEFINE phase == run[r].pc
             i == run[r].item
             key == KeyAt(r, phase, i)
  <1>1. /\ Typed /\ Isolated /\ s \in Runs /\ s # r
        /\ \E row \in tx[s] : SameKey(row, NewRow(r))
    BY DEF IInv, Holders
  <1>2. /\ WrittenOK(s, run[s], tx[s]) /\ FreshOK(tx[s], rows)
        /\ PassedOK(r, run[r], rows \cup tx[r]) /\ run[s] \in Run
    BY <1>1 DEF IInv, Typed
  <1>3. /\ i \in 1 .. Len(Loop[phase]) /\ phase \in DOMAIN Loop
        /\ \A row : SameKey(row, NewRow(r)) <=> row.table = phase /\ row.key = key
    BY <1>1, NewRowKey
  <1>4. PICK row \in tx[s] : row.table = phase /\ row.key = key
    BY <1>1, <1>3
  <1>5. /\ run[s].pc = phase
        /\ \E j \in 1 .. run[s].item - 1 : j <= Len(Loop[phase]) /\ key = KeyAt(s, phase, j)
    BY <1>2, <1>4 DEF WrittenOK
  <1>6. PICK j \in 1 .. run[s].item - 1 : j <= Len(Loop[phase]) /\ key = KeyAt(s, phase, j)
    BY <1>5
  <1>7. run[s].item \in Nat /\ Len(Loop[phase]) \in Nat /\ j \in 1 .. Len(Loop[phase])
    BY <1>2, <1>3, <1>6, LoopItems DEF Run
  <1>8. phase \notin {"payments", "knowledge"} /\ KeyAt(r, phase, j) = key
    BY <1>1, <1>3, <1>6, <1>7, KeyAtOf
  <1>9. ASSUME j < i PROVE FALSE
    <2>1. CASE phase = "incidents"
      <3>1. Loop[phase][j] = Loop[phase][i]
        BY <1>8, <2>1 DEF KeyAt, Key
      <3> QED BY <1>3, <1>7, <1>9, <2>1, <3>1, LoopItems
    <2>2. CASE phase \in {"tables", "users"}
      <3>1. j \in 1 .. run[r].item - 1
        BY <1>3, <1>7, <1>9
      <3>2. Has(rows \cup tx[r], phase, KeyAt(r, phase, j))
        BY <1>2, <1>3, <1>6, <3>1 DEF PassedOK
      <3>3. ~Has(rows, phase, key)
        BY <1>2, <1>4, <2>2 DEF FreshOK
      <3>4. ~Has(tx[r], phase, key)
        BY <1>1, <1>4 DEF Isolated
      <3> QED BY <1>8, <3>2, <3>3, <3>4 DEF Has
    <2> QED BY <1>3, <1>8, <2>1, <2>2, Phases
  <1>10. i <= j
    BY <1>3, <1>7, <1>9
  <1> QED BY <1>1, <1>3, <1>5, <1>6, <1>7, <1>8, <1>10

\* Where a run is in the order in which runs wait for each other: the indexes of a table
\* come after the first statement that writes it and before the next.
Rank(x) ==
    IF x.pc = "users" THEN (IF x.item = 1 THEN 2 ELSE 7 + x.item)
    ELSE IF x.pc = "payments" THEN (IF x.item = 1 THEN 4 ELSE 8)
    ELSE x.item

\* The run that another waits for is further in that order.
LEMMA BlockerIsAhead ==
    ASSUME IInv, NEW r \in Runs, NEW s \in Holders(r) \cup Lockers(r), InLoop(r)
    PROVE  s \in Runs /\ run[s].pc \in DOMAIN Loop /\ Rank(run[r]) < Rank(run[s])
  <1>1. /\ Typed /\ run[r].item \in 1 .. Len(Loop[run[r].pc]) /\ run[r].pc \in DOMAIN Loop
        /\ run[r].pc = "tables" => run[r].item \in 1 .. 6
    BY NewRowKey, LoopItems DEF IInv
  <1>2. s \in Runs /\ s # r /\ run[s] \in Run /\ run[r] \in Run /\ PlaceOK(s, run[s], forward)
    BY <1>1 DEF Holders, Lockers, IInv, Typed
  <1>3. run[r].item \in Nat \ {0} /\ run[s].item \in Nat \ {0}
    BY <1>2 DEF Run
  <1>4. CASE s \in Holders(r)
    <2>1. /\ run[s].pc = run[r].pc /\ run[r].item < run[s].item
          /\ run[r].pc # "payments"
      BY <1>4, HolderIsAhead
    <2> QED BY <1>1, <1>2, <1>3, <2>1 DEF Rank
  <1>5. CASE s \in Lockers(r)
    <2>1. CASE /\ run[r].pc = "tables" /\ run[r].item \in DOMAIN Indexed
               /\ HasWritten(s, Indexed[run[r].item])
      <3>1. /\ run[r].item \in {2, 4} /\ run[s].pc = Indexed[run[r].item] /\ run[s].item > 1
        BY <2>1 DEF Indexed, HasWritten
      <3>2. Rank(run[r]) = run[r].item
        BY <2>1 DEF Rank
      <3>3. \/ run[r].item = 2 /\ run[s].pc = "users"
            \/ run[r].item = 4 /\ run[s].pc = "payments"
        BY <3>1 DEF Indexed
      <3>4. Rank(run[s]) = IF run[s].pc = "users" THEN 7 + run[s].item ELSE 8
        BY <3>1, <3>3, <1>3 DEF Rank
      <3>5. run[s].pc \in DOMAIN Loop
        BY <3>3, Phases
      <3> QED BY <1>2, <1>3, <3>1, <3>2, <3>3, <3>4, <3>5
    <2>2. CASE run[r].item = 1 /\ HasIndexed(s, run[r].pc)
      <3>1. /\ run[s].pc = "tables"
            /\ \E i \in {2, 4} : i < run[s].item /\ Indexed[i] = run[r].pc
        BY <2>2 DEF HasIndexed, Indexed
      <3>2. \/ run[r].pc = "users" /\ 2 < run[s].item
            \/ run[r].pc = "payments" /\ 4 < run[s].item
        BY <3>1 DEF Indexed
      <3>3. Rank(run[s]) = run[s].item
        BY <3>1 DEF Rank
      <3>4. Rank(run[r]) = IF run[r].pc = "users" THEN 2 ELSE 4
        BY <2>2, <3>2 DEF Rank
      <3>5. run[s].pc \in DOMAIN Loop
        BY <3>1, Phases
      <3> QED BY <1>2, <1>3, <3>2, <3>3, <3>4, <3>5
    <2> QED BY <1>5, <2>1, <2>2 DEF Lockers
  <1> QED BY <1>4, <1>5

\* No runs, however many at once, wait for each other in a circle: in any set of runs the
\* last in the order waits for none of them (ensure_tables, which indexes before it writes,
\* and seed_users and seed_incidents, which insert in one order).
THEOREM DeadlockFree == Spec => []RunsNeverDeadlock
  <1>1. ASSUME IInv PROVE RunsNeverDeadlock
    <2> SUFFICES ASSUME NEW S \in SUBSET Runs, S # {},
                        \A r \in S : InLoop(r) /\ (Holders(r) \cup Lockers(r)) \cap S # {}
                 PROVE  FALSE
      BY DEF RunsNeverDeadlock
    <2> DEFINE M == {Rank(run[r]) : r \in S}
    <2>1. Typed
      BY <1>1 DEF IInv
    <2>2. Len(Drawn) \in Nat
      BY DemoConstants, LenProperties
    <2>3. ASSUME NEW r \in S PROVE Rank(run[r]) \in 0 .. Len(Drawn) + 10
      <3>1. /\ run[r].item \in 1 .. Len(Loop[run[r].pc])
            /\ run[r].pc \in DOMAIN Loop
        BY <2>1, NewRowKey
      <3>2. /\ run[r].pc = "users" => Len(Loop[run[r].pc]) = Len(Drawn)
            /\ run[r].pc \in {"tables", "incidents", "knowledge"} =>
                  Len(Loop[run[r].pc]) \in 0 .. 6
        BY <3>1, LoopItems DEF Loop
      <3>3. CASE run[r].pc = "users"
        BY <2>2, <3>1, <3>2, <3>3 DEF Rank
      <3>4. CASE run[r].pc = "payments"
        BY <2>2, <3>4 DEF Rank
      <3>5. CASE run[r].pc \in {"tables", "incidents", "knowledge"}
        <4>1. run[r].item \in 0 .. 6
          <5>1. Len(Loop[run[r].pc]) \in 0 .. 6
            BY <3>2, <3>5
          <5>2. \A n \in 0 .. 6 : \A i \in 1 .. n : i \in 0 .. 6
            OBVIOUS
          <5> QED BY <3>1, <5>1, <5>2
        <4>2. Rank(run[r]) = run[r].item
          BY <3>5 DEF Rank
        <4> QED BY <2>2, <4>1, <4>2
      <3> QED BY <3>1, <3>3, <3>4, <3>5, Phases
    <2>4. M \in SUBSET (0 .. Len(Drawn) + 10) /\ M # {}
      BY <2>3
    <2>5. Len(Drawn) + 10 \in Nat
      BY <2>2
    <2>6. PICK m \in M : \A k \in M : k <= m
      BY <2>4, <2>5, Largest
    <2>7. PICK r \in S : m = Rank(run[r])
      OBVIOUS
    <2>8. PICK s \in (Holders(r) \cup Lockers(r)) \cap S : TRUE
      OBVIOUS
    <2>9. m < Rank(run[s])
      BY <1>1, <2>7, <2>8, BlockerIsAhead
    <2>10. Rank(run[s]) \in M
      BY <2>8
    <2>11. m \in Nat /\ Rank(run[s]) \in Nat /\ Rank(run[s]) <= m
      BY <2>4, <2>6, <2>10
    <2> HIDE DEF M
    <2> QED BY <2>9, <2>11
  <1> QED BY <1>1, Invariance, PTL

\* However runs fail and overlap, the rows of a phase are committed all or none (one
\* transaction for each phase of bootstrap_demo_users.py).
THEOREM AtomicPhases == Spec => []PhasesAreAtomic
  <1>1. ASSUME IInv PROVE PhasesAreAtomic
    <2> SUFFICES ASSUME NEW r \in Runs, NEW phase \in DOMAIN Loop
                 PROVE  \/ Keys(r, phase) \subseteq CommittedKeys(phase)
                        \/ Keys(r, phase) \cap CommittedKeys(phase) = {}
      BY DEF PhasesAreAtomic
    <2>1. WholeIn(rows, r, phase) \/ AbsentIn(rows, r, phase)
      BY <1>1 DEF IInv, AtomicIn
    <2>2. \A k : k \in CommittedKeys(phase) <=> Has(rows, phase, k)
      BY DEF CommittedKeys, Has
    <2>3. \A k : k \in Keys(r, phase) <=> \E j \in 1 .. Len(Loop[phase]) : k = KeyAt(r, phase, j)
      BY KeysOf
    <2>4. CASE WholeIn(rows, r, phase)
      <3>1. \A k \in Keys(r, phase) : k \in CommittedKeys(phase)
        BY <2>2, <2>3, <2>4 DEF WholeIn
      <3> QED BY <3>1
    <2>5. CASE AbsentIn(rows, r, phase)
      <3>1. \A k \in Keys(r, phase) : k \notin CommittedKeys(phase)
        BY <2>2, <2>3, <2>5 DEF AbsentIn
      <3> QED BY <3>1
    <2> QED BY <2>1, <2>4, <2>5
  <1> QED BY <1>1, Invariance, PTL

\* A run that has ended has no open transaction, and its port-forward is stopped unless it
\* was killed, or interrupted outside its try (stop_port_forward in
\* bootstrap_demo_users.py).
THEOREM CleanEnd == Spec => []EndedRunCleansUp
  <1>1. ASSUME IInv PROVE EndedRunCleansUp
    <2> SUFFICES ASSUME NEW r \in Runs, run[r].pc \in Ended
                 PROVE  tx[r] = {} /\ (forward = r => run[r].pc = "interrupted")
      BY DEF EndedRunCleansUp
    <2>1. run[r].pc \notin DOMAIN Loop
      BY Phases DEF Ended
    <2>2. PlaceOK(r, run[r], forward)
      BY <1>1 DEF IInv
    <2> QED BY <1>1, <2>1, <2>2, NoTransaction DEF PlaceOK, Ended
  <1> QED BY <1>1, Invariance, PTL
=============================================================================
