--------------------------- MODULE TurnContextProofs ---------------------------
(***************************************************************************)
(* Proofs about TurnContext, for any number of loops, turns, calls of a    *)
(* reply, failures and restarts.  MemInv says what memory and table know   *)
(* of each other, PairInv that the calls in a loop's memory are answered,  *)
(* and TablePaired that those of the table are, which a load relies on.    *)
(* MergeInv says what the table is when the loops of a session collide.    *)
(***************************************************************************)
EXTENDS TurnContext, SequenceTheorems, FiniteSetTheorems, TLAPS

RowInv == \A i \in Rows : table[i].turn = i /\ table[i].role \in Roles

\* While nothing is lost, a loop counts what it has in memory.
CountInv == ~lost => \A m \in Managers : current[m] = Len(turns[m])

MemInv == NumbersIncrease /\ RowInv /\ CountInv /\ MemoryIsTable

\* The turn u answers the one call of turn t.
Asks(t, u) == u.role = "tool" /\ t.calls = {u.id}

\* In memory an answer follows its call at once; only a loop about to run a
\* tool ends in a call, the one that is pending.
PairedAt(m) ==
    /\ \A i \in 1..Len(turns[m]) :
          turns[m][i].role = "tool" => i > 1 /\ turns[m][i - 1].calls = {turns[m][i].id}
    /\ \A i \in 1..Len(turns[m]) : turns[m][i].calls # {} =>
          IF i < Len(turns[m]) THEN Asks(turns[m][i], turns[m][i + 1]) ELSE pc[m] = "tools"
    /\ pc[m] = "tools" => /\ Len(pending[m]) = 1 /\ Len(turns[m]) > 0
                          /\ turns[m][Len(turns[m])].calls = {Head(pending[m])}

PairInv == ~odd /\ ~torn => \A m \in Managers : PairedAt(m)

\* So it is in the table, whose last row is a call only while the loop that
\* made it runs the tool, and no other loop has caught up with that one.
TablePaired ==
    /\ \A i \in Rows : table[i].role = "tool" => i > 1 /\ table[i - 1].calls = {table[i].id}
    /\ \A i \in Rows : table[i].calls # {} =>
          IF i + 1 \in Rows THEN Asks(table[i], table[i + 1])
          ELSE \E m \in Managers : pc[m] = "tools" /\ Len(turns[m]) = i
    /\ \A m, n \in Managers : pc[m] = "tools" /\ m # n => Len(turns[n]) < Len(turns[m])

TableInv == ~odd /\ ~torn /\ ~lost => TablePaired

IInv == TypeOK /\ MemInv /\ PairInv /\ TableInv

------------------------------------------------------------------------------
(* The answer to the SELECT.                                                 *)

\* The rows are finitely many, and the k-th is found.
LEMMA RowsAreInOrder ==
    ASSUME MaxTurns \in Nat
    PROVE  /\ IsFiniteSet(Rows) /\ Cardinality(Rows) \in Nat
           /\ \A k \in 1..Cardinality(Rows) :
                 RowAt(k) \in Rows /\ Cardinality(Rows \cap 1..RowAt(k)) = k
           /\ \A k, l \in 1..Cardinality(Rows) : k < l => RowAt(k) < RowAt(l)
<1> DEFINE N == Cardinality(Rows)
           Upto(i) == Rows \cap 1..i
           f == [i \in Rows |-> Cardinality(Upto(i))]
<1>1. Rows \subseteq 1..MaxTurns /\ IsFiniteSet(1..MaxTurns)
  BY FS_Interval DEF Rows
<1>2. IsFiniteSet(Rows) /\ N \in Nat
  BY <1>1, FS_Subset, FS_CardinalityType
<1>3. \A i \in Rows : i \in Nat /\ i >= 1
  BY <1>1
<1>4. ASSUME NEW i \in Rows
      PROVE  IsFiniteSet(Upto(i)) /\ Cardinality(Upto(i)) \in 1..N
  <2>1. IsFiniteSet(Upto(i)) /\ Cardinality(Upto(i)) <= N
    BY <1>2, FS_Subset
  <2>2. Cardinality(Upto(i)) \in Nat
    BY <2>1, FS_CardinalityType
  <2>3. Upto(i) # {}
    BY <1>3
  <2>4. Cardinality(Upto(i)) # 0
    BY <2>1, <2>3, FS_EmptySet
  <2> QED BY <2>1, <2>2, <2>4
<1>5. ASSUME NEW i \in Rows, NEW j \in Rows, i < j
      PROVE  Cardinality(Upto(i)) < Cardinality(Upto(j))
  <2>1. Upto(i) \in SUBSET Upto(j)
    BY <1>3, <1>5
  <2>2. j \in Upto(j) /\ j \notin Upto(i)
    BY <1>3, <1>5
  <2>3. IsFiniteSet(Upto(j)) /\ Cardinality(Upto(i)) \in Nat /\ Cardinality(Upto(j)) \in Nat
    BY <1>4
  <2>4. Cardinality(Upto(i)) <= Cardinality(Upto(j)) /\ Cardinality(Upto(i)) # Cardinality(Upto(j))
    BY <2>1, <2>2, <2>3, FS_Subset
  <2> QED BY <2>3, <2>4
<1>6. f \in Injection(Rows, 1..N)
  <2>1. f \in [Rows -> 1..N]
    BY <1>4
  <2>2. ASSUME NEW i \in Rows, NEW j \in Rows, f[i] = f[j]
        PROVE  i = j
    <3>1. Cardinality(Upto(i)) = Cardinality(Upto(j))
      BY <2>2
    <3> HIDE DEF N
    <3>2. Cardinality(Upto(i)) \in 1..N /\ Cardinality(Upto(j)) \in 1..N /\ N \in Nat
      BY <1>2, <1>4
    <3>3. ~(i < j) /\ ~(j < i)
      <4> HIDE DEF Upto
      <4> QED BY <1>5, <3>1, <3>2
    <3> QED BY <1>3, <3>3
  <2> QED BY <2>1, <2>2 DEF Injection, IsInjective
<1>7. f \in Surjection(Rows, 1..N)
  <2>1. IsFiniteSet(1..N) /\ Cardinality(1..N) = N
    BY <1>2, FS_Interval
  <2> HIDE DEF f, N
  <2>2. Cardinality(Rows) = N
    BY DEF N
  <2> QED BY <1>6, <2>1, <2>2, FS_Injection
<1>8. ASSUME NEW k \in 1..N
      PROVE  RowAt(k) \in Rows /\ Cardinality(Upto(RowAt(k))) = k
  <2>1. \E i \in Rows : f[i] = k
    BY <1>7 DEF Surjection
  <2>2. \E i \in Rows : Cardinality(Upto(i)) = k
    BY <2>1
  <2> QED BY <2>2 DEF RowAt
<1>9. ASSUME NEW k \in 1..N, NEW l \in 1..N, k < l
      PROVE  RowAt(k) < RowAt(l)
  <2> HIDE DEF Upto
  <2>1. /\ RowAt(k) \in Rows /\ Cardinality(Upto(RowAt(k))) = k
        /\ RowAt(l) \in Rows /\ Cardinality(Upto(RowAt(l))) = l
    BY <1>8
  <2>2. RowAt(k) \in Nat /\ RowAt(l) \in Nat /\ RowAt(k) # RowAt(l) /\ k \in Nat /\ l \in Nat
    BY <1>3, <1>9, <2>1
  <2>3. ~(RowAt(l) < RowAt(k))
    BY <1>5, <1>9, <2>1
  <2> QED BY <2>2, <2>3
<1> QED BY <1>2, <1>8, <1>9

\* What a load brings into memory: numbers that increase up to the last.
LEMMA HistoryIsInOrder ==
    ASSUME TypeOK, RowInv, TurnContextAssumption
    PROVE  /\ History \in Seq(TurnType) /\ Len(History) = Cardinality(Rows)
           /\ Cardinality(Rows) \in Nat /\ (Cardinality(Rows) = 0 <=> Rows = {})
           /\ \A k \in 1..Len(History) : /\ RowAt(k) \in Rows /\ History[k] = table[RowAt(k)]
                                         /\ History[k].role \in Roles
                                         /\ History[k].turn = RowAt(k)
           /\ \A k, l \in 1..Len(History) : k < l => History[k].turn < History[l].turn
<1>1. IsFiniteSet(Rows) /\ Cardinality(Rows) \in Nat
  BY RowsAreInOrder
<1>2. \A k \in 1..Cardinality(Rows) : RowAt(k) \in Rows
  BY RowsAreInOrder
<1>3. \A k, l \in 1..Cardinality(Rows) : k < l => RowAt(k) < RowAt(l)
  BY RowsAreInOrder
<1>4. table \in [1..MaxTurns -> TurnType] /\ Rows \subseteq 1..MaxTurns
  BY DEF TypeOK, Rows
<1>5. History \in [1..Cardinality(Rows) -> TurnType]
  BY <1>2, <1>4 DEF History
<1>6. History \in Seq(TurnType) /\ Len(History) = Cardinality(Rows)
  BY <1>1, <1>5
<1>7. \A k \in 1..Len(History) : History[k] = table[RowAt(k)]
  BY <1>6 DEF History
<1> QED BY <1>1, <1>2, <1>3, <1>6, <1>7, FS_EmptySet DEF RowInv

\* Without a gap, the k-th row has the number k.
LEMMA HistoryIsTable ==
    ASSUME TypeOK, RowInv, TurnContextAssumption, \A i \in Rows : 1..i \subseteq Rows
    PROVE  /\ Rows = 1..Len(History)
           /\ \A k \in 1..Len(History) : History[k] = table[k]
<1>1. MaxTurns \in Nat /\ Rows \subseteq 1..MaxTurns
  BY DEF Rows
<1>2. IsFiniteSet(Rows) /\ Cardinality(Rows) \in Nat /\ Len(History) = Cardinality(Rows)
  BY RowsAreInOrder, HistoryIsInOrder
<1>3. ASSUME NEW k \in 1..Len(History)
      PROVE  RowAt(k) = k
  <2>1. RowAt(k) \in Rows /\ Cardinality(Rows \cap 1..RowAt(k)) = k
    BY <1>2, RowsAreInOrder
  <2>2. RowAt(k) \in Nat /\ RowAt(k) >= 1
    <3>1. \A i \in Rows : i \in Nat /\ i >= 1
      BY <1>1
    <3> QED BY <2>1, <3>1
  <2>3. Cardinality(1..RowAt(k)) = RowAt(k)
    BY <2>2, FS_Interval
  <2> QED BY <2>1, <2>3
<1>4. \A k \in 1..Len(History) : k \in Rows /\ History[k] = table[k]
  BY <1>3, HistoryIsInOrder
<1>5. 1..Len(History) \in SUBSET Rows
  BY <1>4
<1>6. Cardinality(1..Len(History)) = Cardinality(Rows)
  BY <1>2, FS_Interval
<1>7. Rows = 1..Len(History)
  BY <1>2, <1>5, <1>6, FS_Subset
<1> QED BY <1>4, <1>7

------------------------------------------------------------------------------
(* A turn that is added.                                                     *)

\* What the three methods AddUserTurn, AddAssistantTurn and AddToolResultTurn
\* have in common: the next number, in memory and then in an INSERT.
Adds(m, t) == /\ t \in TurnType' /\ t.role \in Roles /\ t.turn = current[m] + 1
              /\ made' \in Nat /\ made <= made'
              /\ Remember(m, t) /\ Insert(t)

\* Turns stay turns while calls are made.
LEMMA TypesGrow ==
    ASSUME made \in Nat, made' \in Nat, made <= made'
    PROVE  Calls \subseteq Calls' /\ TurnType \subseteq TurnType'
BY DEF Calls, TurnType

\* What memory holds after a turn was remembered.
LEMMA RememberAppends ==
    ASSUME TypeOK, NEW m \in Managers, NEW t, Remember(m, t)
    PROVE  /\ Len(turns[m]) \in Nat /\ Len(turns'[m]) = Len(turns[m]) + 1
           /\ turns'[m][Len(turns[m]) + 1] = t
           /\ \A k \in 1..Len(turns[m]) : turns'[m][k] = turns[m][k]
           /\ \A n \in Managers \ {m} : turns'[n] = turns[n] /\ current'[n] = current[n]
           /\ current'[m] = t.turn /\ current[m] \in Nat /\ current[m] < MaxTurns
           /\ DOMAIN turns'[m] = 1..Len(turns[m]) + 1
           /\ \A k \in DOMAIN turns'[m] : k \in 1..Len(turns[m]) \/ k = Len(turns[m]) + 1
           /\ \A n \in Managers : DOMAIN turns[n] = 1..Len(turns[n])
<1>1. turns[m] \in Seq(TurnType) /\ turns \in [Managers -> Seq(TurnType)]
  BY DEF TypeOK
<1>2. turns' = [turns EXCEPT ![m] = Append(turns[m], t)]
  BY DEF Remember
<1>3. turns[m] \in Seq(TurnType \cup {t})
  BY <1>1
<1>4. turns'[m] = Append(turns[m], t)
  BY <1>1, <1>2
<1>5. /\ Len(turns'[m]) = Len(turns[m]) + 1 /\ turns'[m] \in Seq(TurnType \cup {t})
      /\ turns'[m][Len(turns[m]) + 1] = t
      /\ \A k \in 1..Len(turns[m]) : turns'[m][k] = turns[m][k]
  BY <1>3, <1>4
<1>6. \A n \in Managers \ {m} : turns'[n] = turns[n]
  BY <1>2
<1>7. current' = [current EXCEPT ![m] = t.turn] /\ current \in [Managers -> 0..MaxTurns]
      /\ current[m] < MaxTurns
  BY DEF TypeOK, Remember
<1> QED BY <1>5, <1>6, <1>7

\* Memory, table and counters keep their types.
LEMMA AddKeepsTypes ==
    ASSUME TypeOK, TurnContextAssumption, NEW m \in Managers, NEW t, Adds(m, t)
    PROVE  /\ turns' \in [Managers -> Seq(TurnType')]
           /\ \A n \in Managers : \A k \in DOMAIN turns'[n] : turns'[n][k].role \in Roles
           /\ current' \in [Managers -> 0..MaxTurns]
           /\ table' \in [1..MaxTurns -> TurnType']
           /\ failures' \in 0..MaxFailures /\ lost' \in BOOLEAN
<1>1. TurnType \subseteq TurnType' /\ t \in TurnType'
  BY TypesGrow DEF Adds, TypeOK
<1>2. \A n \in Managers : turns[n] \in Seq(TurnType')
  BY <1>1 DEF TypeOK
<1>3. turns' = [turns EXCEPT ![m] = Append(turns[m], t)] /\ Append(turns[m], t) \in Seq(TurnType')
  BY <1>2 DEF Adds, Remember
<1>4. turns' \in [Managers -> Seq(TurnType')]
  BY <1>2, <1>3 DEF TypeOK
<1>5. \A n \in Managers : \A k \in DOMAIN turns'[n] : turns'[n][k].role \in Roles
  <2>1. \A k \in DOMAIN turns'[m] : turns'[m][k].role \in Roles
    <3>1. /\ \A k \in DOMAIN turns'[m] : k \in DOMAIN turns[m] \/ k = Len(turns[m]) + 1
          /\ \A k \in DOMAIN turns[m] : turns'[m][k] = turns[m][k]
          /\ turns'[m][Len(turns[m]) + 1] = t
      <4>1. DOMAIN turns[m] = 1..Len(turns[m]) /\ Remember(m, t)
        BY DEF Adds
      <4> QED BY <4>1, RememberAppends
    <3> QED BY <3>1 DEF Adds, TypeOK
  <2>2. \A n \in Managers \ {m} : turns'[n] = turns[n]
    BY RememberAppends DEF Adds
  <2> QED BY <2>1, <2>2 DEF TypeOK
<1>6. current' \in [Managers -> 0..MaxTurns]
  BY DEF Adds, Remember, TypeOK
<1>7. table' \in [1..MaxTurns -> TurnType']
  <2>1. table \in [1..MaxTurns -> TurnType']
    BY <1>1 DEF TypeOK
  <2>2. table' = table \/ table' = [table EXCEPT ![t.turn] = t]
    BY DEF Adds, Insert
  <2> QED BY <1>1, <2>1, <2>2
<1>8. failures' \in 0..MaxFailures
  BY DEF Adds, Insert, TypeOK
<1>9. lost' \in BOOLEAN
  BY DEF Adds, Insert, TypeOK
<1> QED BY <1>4, <1>5, <1>6, <1>7, <1>8, <1>9

\* While nothing is lost, what a loop has in memory is in the table.
LEMMA MemoryIsStored ==
    ASSUME TypeOK, TurnContextAssumption, MemInv, ~lost, NEW n \in Managers
    PROVE  /\ Len(turns[n]) \in 0..MaxTurns
           /\ \A k \in 1..Len(turns[n]) : k \in Rows /\ turns[n][k] = table[k]
<1>1. turns[n] \in Seq(TurnType) /\ current[n] \in 0..MaxTurns /\ current[n] = Len(turns[n])
  BY DEF TypeOK, MemInv, CountInv
<1>2. ASSUME NEW k \in 1..Len(turns[n])
      PROVE  k \in Rows /\ turns[n][k] = table[k]
  <2>1. turns[n][k] = table[k] /\ turns[n][k].role \in Roles
    BY DEF MemInv, MemoryIsTable, TypeOK
  <2>2. table[k] # NoTurn
    BY <2>1 DEF NoTurn, Turn, Roles
  <2>3. k \in 1..MaxTurns
    BY <1>1
  <2> QED BY <2>1, <2>2, <2>3 DEF Rows
<1> QED BY <1>1, <1>2

\* An INSERT that succeeds while nothing was lost is that of a loop that has
\* the whole table in memory, and it adds the next row.
LEMMA AddFillsTable ==
    ASSUME TypeOK, TurnContextAssumption, MemInv, NEW m \in Managers, NEW t, Adds(m, t), ~lost'
    PROVE  /\ ~lost /\ t.turn = Len(turns[m]) + 1 /\ t.turn \in 1..MaxTurns
           /\ Rows = 1..Len(turns[m]) /\ Rows' = 1..Len(turns[m]) + 1
           /\ table' = [table EXCEPT ![t.turn] = t]
           /\ \A n \in Managers : Len(turns[n]) <= Len(turns[m])
<1>1. ~lost /\ table[t.turn] = NoTurn /\ table' = [table EXCEPT ![t.turn] = t]
  BY DEF Adds, Insert
<1>2. Len(turns[m]) \in Nat /\ current[m] = Len(turns[m]) /\ current[m] < MaxTurns
  BY <1>1, RememberAppends DEF Adds, MemInv, CountInv
<1>3. t.turn = Len(turns[m]) + 1 /\ t.turn \in 1..MaxTurns /\ MaxTurns \in Nat
  BY <1>2 DEF Adds
<1>4. ASSUME NEW i \in Rows
      PROVE  i \in 1..Len(turns[m])
  <2>1. i \in 1..MaxTurns /\ 1..i \subseteq Rows
    BY <1>1 DEF Rows, MemInv, MemoryIsTable
  <2>2. t.turn \notin Rows
    BY <1>1 DEF Rows
  <2>3. ~(t.turn <= i)
    BY <1>3, <2>1, <2>2
  <2> QED BY <1>3, <2>1, <2>3
<1>5. Rows = 1..Len(turns[m])
  BY <1>1, <1>4, MemoryIsStored
<1>6. Rows' = Rows \cup {t.turn}
  <2>1. t # NoTurn
    BY DEF Adds, NoTurn, Turn, Roles
  <2>2. table \in [1..MaxTurns -> TurnType]
    BY DEF TypeOK
  <2> QED BY <1>1, <1>3, <2>1, <2>2 DEF Rows
<1>7. Rows' = 1..Len(turns[m]) + 1
  BY <1>3, <1>5, <1>6
<1>8. ASSUME NEW n \in Managers
      PROVE  Len(turns[n]) <= Len(turns[m])
  <2>1. Len(turns[n]) \in Nat /\ \A k \in 1..Len(turns[n]) : k \in Rows
    BY <1>1, MemoryIsStored
  <2> QED BY <1>5, <2>1
<1> QED BY <1>1, <1>3, <1>5, <1>7, <1>8

\* The number of a turn that is remembered is above those of the others.
LEMMA RememberInOrder ==
    ASSUME TypeOK, TurnContextAssumption, NumbersIncrease,
           NEW m \in Managers, NEW t, Remember(m, t), t.turn = current[m] + 1
    PROVE  NumbersIncrease'
<1>1. ASSUME NEW n \in Managers \ {m}
      PROVE  /\ \A i, j \in DOMAIN turns'[n] : i < j => turns'[n][i].turn < turns'[n][j].turn
             /\ \A i \in DOMAIN turns'[n] : turns'[n][i].turn <= current'[n]
  BY RememberAppends DEF NumbersIncrease
<1>2. /\ Len(turns[m]) \in Nat /\ current[m] \in Nat /\ current'[m] = current[m] + 1
      /\ DOMAIN turns[m] = 1..Len(turns[m]) /\ DOMAIN turns'[m] = 1..Len(turns[m]) + 1
      /\ turns'[m][Len(turns[m]) + 1].turn = current[m] + 1
      /\ \A k \in 1..Len(turns[m]) : turns'[m][k] = turns[m][k]
  BY RememberAppends
<1>3. \A k \in 1..Len(turns[m]) : turns[m][k].turn \in Nat /\ turns[m][k].turn <= current[m]
  <2>1. turns[m] \in Seq(TurnType)
    BY DEF TypeOK
  <2>2. \A k \in 1..Len(turns[m]) : turns[m][k] \in TurnType
    BY <2>1
  <2>3. \A u \in TurnType : u.turn \in Nat
    BY DEF TurnType
  <2> QED BY <2>2, <2>3 DEF NumbersIncrease
<1>4. \A i, j \in 1..Len(turns[m]) : i < j => turns[m][i].turn < turns[m][j].turn
  BY DEF NumbersIncrease
<1>5. \A i \in DOMAIN turns'[m] : i \in 1..Len(turns[m]) \/ i = Len(turns[m]) + 1
  BY <1>2
<1>6. \A i \in DOMAIN turns'[m] : turns'[m][i].turn <= current'[m]
  <2>1. ASSUME NEW i \in 1..Len(turns[m]) PROVE turns'[m][i].turn <= current'[m]
    <3>1. turns[m][i].turn \in Nat /\ turns[m][i].turn <= current[m]
      BY <1>3
    <3> QED BY <1>2, <3>1
  <2> QED BY SMTT(30), <1>2, <1>5, <2>1
<1>7. ASSUME NEW i \in DOMAIN turns'[m], NEW j \in DOMAIN turns'[m], i < j
      PROVE  turns'[m][i].turn < turns'[m][j].turn
  <2>1. i \in 1..Len(turns[m])
    BY <1>2, <1>7
  <2>2. CASE j \in 1..Len(turns[m])
    BY <1>2, <1>4, <1>7, <2>1, <2>2
  <2>3. CASE j = Len(turns[m]) + 1
    <3>1. turns'[m][i].turn = turns[m][i].turn /\ turns'[m][j].turn = current[m] + 1
      BY <1>2, <2>1, <2>3
    <3>2. turns[m][i].turn \in Nat /\ turns[m][i].turn <= current[m]
      BY <1>3, <2>1
    <3> QED BY <1>2, <3>1, <3>2
  <2> QED BY <1>5, <2>2, <2>3
<1> QED BY <1>1, <1>6, <1>7 DEF NumbersIncrease

\* What memory and table know of each other is kept.
LEMMA AddKeepsMemory ==
    ASSUME TypeOK, TurnContextAssumption, MemInv, NEW m \in Managers, NEW t, Adds(m, t)
    PROVE  MemInv'
<1>1. NumbersIncrease'
  BY RememberInOrder DEF Adds, MemInv
<1>2. RowInv'
  <2>1. table \in [1..MaxTurns -> TurnType] /\ t.role \in Roles
    BY DEF TypeOK, Adds
  <2>2. table' = table \/ table' = [table EXCEPT ![t.turn] = t]
    BY DEF Adds, Insert
  <2>3. CASE table' = table
    BY <2>3 DEF RowInv, Rows, MemInv
  <2>4. CASE table' = [table EXCEPT ![t.turn] = t]
    BY <2>1, <2>4 DEF RowInv, Rows, MemInv
  <2> QED BY <2>2, <2>3, <2>4
<1>3. CountInv'
  <2>1. SUFFICES ASSUME ~lost', NEW n \in Managers PROVE current'[n] = Len(turns'[n])
    BY DEF CountInv
  <2>2. ~lost
    BY <2>1, AddFillsTable
  <2> QED BY <2>2, RememberAppends DEF CountInv, MemInv, Adds
<1>4. MemoryIsTable'
  <2>1. SUFFICES ASSUME ~lost' PROVE
             /\ \A i \in Rows' : 1..i \subseteq Rows'
             /\ \A n \in Managers : \A k \in DOMAIN turns'[n] : turns'[n][k] = table'[k]
             /\ Rows' \subseteq DOMAIN turns'[m]
    BY DEF MemoryIsTable
  <2>2. /\ ~lost /\ t.turn = Len(turns[m]) + 1 /\ t.turn \in 1..MaxTurns
        /\ Rows' = 1..Len(turns[m]) + 1
        /\ table' = [table EXCEPT ![t.turn] = t]
        /\ \A n \in Managers : Len(turns[n]) <= Len(turns[m])
    BY <2>1, AddFillsTable
  <2>3. /\ Len(turns[m]) \in Nat /\ DOMAIN turns'[m] = 1..Len(turns[m]) + 1
        /\ turns'[m][Len(turns[m]) + 1] = t
        /\ \A k \in 1..Len(turns[m]) : turns'[m][k] = turns[m][k]
        /\ \A n \in Managers \ {m} : turns'[n] = turns[n]
        /\ \A n \in Managers : DOMAIN turns[n] = 1..Len(turns[n])
    BY RememberAppends DEF Adds
  <2>4. table \in [1..MaxTurns -> TurnType]
    BY DEF TypeOK
  <2>5. \A n \in Managers : \A k \in 1..Len(turns[n]) : turns[n][k] = table'[k]
    BY <2>2, MemoryIsStored
  <2>6. \A k \in DOMAIN turns'[m] : turns'[m][k] = table'[k]
    <3>1. table'[t.turn] = t
      BY <2>2, <2>4
    <3> QED BY <2>2, <2>3, <2>5, <3>1
  <2>7. \A n \in Managers : \A k \in DOMAIN turns'[n] : turns'[n][k] = table'[k]
    <3>1. ASSUME NEW n \in Managers \ {m}
          PROVE  \A k \in DOMAIN turns'[n] : turns'[n][k] = table'[k]
      BY <2>3, <2>5
    <3> QED BY <2>6, <3>1
  <2> QED BY <2>2, <2>3, <2>7
<1> QED BY <1>1, <1>2, <1>3, <1>4 DEF MemInv

------------------------------------------------------------------------------
(* The steps.                                                                *)

CallsOf(n) == [k \in 1..n |-> made + k]
AfterReply(n) == IF n > 0 THEN "tools" ELSE IF kind = "worker" THEN "done" ELSE "idle"

\* The calls of a reply.
LEMMA ReplyHasCalls ==
    ASSUME TypeOK, NEW n \in Nat, made' = made + n
    PROVE  /\ CallsOf(n) \in Seq(Calls') /\ Len(CallsOf(n)) = n
           /\ (CallsOf(n) = <<>> <=> n = 0) /\ Kept(CallsOf(n)) \subseteq Calls'
           /\ n = 0 => Kept(CallsOf(n)) = {}
           /\ n = 1 => Kept(CallsOf(n)) = {Head(CallsOf(n))}
           /\ made' \in Nat /\ made <= made'
<1>1. made \in Nat
  BY DEF TypeOK
<1>2. \A k \in 1..n : made + k \in 0..made + n
  BY <1>1
<1>3. CallsOf(n) \in [1..n -> Calls']
  BY <1>2 DEF CallsOf, Calls
<1>4. CallsOf(n) \in Seq(Calls') /\ Len(CallsOf(n)) = n
  BY <1>3
<1>5. CallsOf(n) = <<>> <=> n = 0
  BY <1>4
<1>6. n > 0 => CallsOf(n)[1] \in Calls'
  BY <1>3
<1>7. Kept(CallsOf(n)) \subseteq Calls' /\ (n = 0 => Kept(CallsOf(n)) = {})
  BY <1>5, <1>6 DEF Kept
<1>8. n = 1 => Kept(CallsOf(n)) = {Head(CallsOf(n))}
  BY <1>4 DEF Kept
<1> QED BY <1>1, <1>4, <1>7, <1>8

\* Which turn a step adds.
LEMMA HearUserAdds ==
    ASSUME TypeOK, TurnContextAssumption, NEW m \in Managers, HearUser(m)
    PROVE  Adds(m, Turn(current[m] + 1, "user", {}, NoCall))
<1>1. /\ Remember(m, Turn(current[m] + 1, "user", {}, NoCall))
      /\ Insert(Turn(current[m] + 1, "user", {}, NoCall))
      /\ made' = made /\ made \in Nat
  BY DEF HearUser, AddUserTurn, TypeOK
<1>2. current[m] + 1 \in 0..MaxTurns
  BY <1>1 DEF Remember, TypeOK
<1> QED BY <1>1, <1>2 DEF Adds, Turn, TurnType, Calls, Roles, NoCall

LEMMA AssistantAdds ==
    ASSUME TypeOK, TurnContextAssumption, NEW m \in Managers, NEW n \in Nat, made' = made + n,
           AddAssistantTurn(m, CallsOf(n))
    PROVE  Adds(m, Turn(current[m] + 1, "assistant", Kept(CallsOf(n)), NoCall))
<1>1. /\ Remember(m, Turn(current[m] + 1, "assistant", Kept(CallsOf(n)), NoCall))
      /\ Insert(Turn(current[m] + 1, "assistant", Kept(CallsOf(n)), NoCall))
  BY DEF AddAssistantTurn
<1>2. current[m] + 1 \in 0..MaxTurns
  BY <1>1 DEF Remember, TypeOK
<1>3. Kept(CallsOf(n)) \subseteq Calls' /\ made' \in Nat /\ made <= made' /\ NoCall \in Calls'
  BY ReplyHasCalls DEF NoCall, Calls
<1>4. Turn(current[m] + 1, "assistant", Kept(CallsOf(n)), NoCall) \in TurnType'
  BY <1>2, <1>3 DEF Turn, TurnType, Roles
<1> QED BY <1>1, <1>3, <1>4 DEF Adds, Turn, Roles

LEMMA RunToolAdds ==
    ASSUME TypeOK, TurnContextAssumption, NEW m \in Managers, RunTool(m)
    PROVE  /\ Adds(m, Turn(current[m] + 1, "tool", {}, Head(pending[m])))
           /\ pending[m] \in Seq(Calls) /\ Len(pending[m]) > 0
<1>1. /\ Remember(m, Turn(current[m] + 1, "tool", {}, Head(pending[m])))
      /\ Insert(Turn(current[m] + 1, "tool", {}, Head(pending[m])))
      /\ made' = made /\ made \in Nat
  BY DEF RunTool, AddToolResultTurn, TypeOK
<1>2. current[m] + 1 \in 0..MaxTurns
  BY <1>1 DEF Remember, TypeOK
<1>3. pending[m] \in Seq(Calls) /\ pending[m] # <<>>
  BY DEF RunTool, TypeOK
<1>4. Head(pending[m]) \in Calls' /\ Len(pending[m]) > 0
  BY <1>1, <1>3 DEF Calls
<1>5. Turn(current[m] + 1, "tool", {}, Head(pending[m])) \in TurnType'
  BY <1>2, <1>4 DEF Turn, TurnType, Roles
<1> QED BY <1>1, <1>3, <1>5 DEF Adds, Turn, Roles

\* Every step keeps the types.
LEMMA TypeNext ==
    ASSUME IInv, TurnContextAssumption, [Next]_vars
    PROVE  TypeOK'
<1> USE DEF IInv
<1>1. ASSUME NEW m \in Managers, Start(m) PROVE TypeOK'
  <2>1. History \in Seq(TurnType) /\ Len(History) = Cardinality(Rows)
        /\ Cardinality(Rows) \in Nat /\ (Cardinality(Rows) = 0 <=> Rows = {})
        /\ \A k \in 1..Len(History) : RowAt(k) \in Rows /\ History[k].role \in Roles
                                      /\ History[k].turn = RowAt(k)
    BY HistoryIsInOrder DEF MemInv
  <2>2. DOMAIN History = 1..Len(History)
    OBVIOUS
  <2>3. Rows = {} \/ History[Len(History)].turn \in 0..MaxTurns
    <3>1. Rows # {} => RowAt(Len(History)) \in 1..MaxTurns
      BY <2>1 DEF Rows
    <3> QED BY <2>1, <3>1
  <2>4. made' = made /\ TurnType' = TurnType /\ Calls' = Calls
    BY <1>1 DEF Start, TurnType, Calls
  <2>5. /\ turns' \in [Managers -> Seq(TurnType)]
        /\ \A n \in Managers : \A k \in DOMAIN turns'[n] : turns'[n][k].role \in Roles
    BY ZenonT(30), <1>1, <2>1, <2>2 DEF Start, LoadHistory, TypeOK
  <2>6. current' \in [Managers -> 0..MaxTurns]
    <3> DEFINE last == IF Rows = {} THEN 0 ELSE History[Len(History)].turn
    <3>1. current \in [Managers -> 0..MaxTurns] /\ last \in 0..MaxTurns
      BY <2>3 DEF TypeOK
    <3>2. current' = [current EXCEPT ![m] = last] \/ current' = current
      BY <1>1 DEF Start, LoadHistory
    <3> HIDE DEF last
    <3> QED BY <3>1, <3>2
  <2>7. pc' \in [Managers -> Locs] /\ \A n \in Managers : pc[n] = "tools" <=> pc'[n] = "tools"
    BY <1>1 DEF Start, Goto, TypeOK, Locs
  <2>8. failures' \in 0..MaxFailures /\ lost' \in BOOLEAN
    <3>1. failures' \in 0..MaxFailures
      BY <1>1 DEF Start, TypeOK
    <3>2. lost' \in BOOLEAN
      BY <1>1 DEF Start, TypeOK
    <3> QED BY <3>1, <3>2
  <2> QED BY <1>1, <2>4, <2>5, <2>6, <2>7, <2>8 DEF Start, TypeOK
<1>2. ASSUME NEW m \in Managers, HearUser(m) PROVE TypeOK'
  <2>1. /\ turns' \in [Managers -> Seq(TurnType')]
        /\ \A n \in Managers : \A k \in DOMAIN turns'[n] : turns'[n][k].role \in Roles
        /\ current' \in [Managers -> 0..MaxTurns]
        /\ table' \in [1..MaxTurns -> TurnType']
        /\ failures' \in 0..MaxFailures /\ lost' \in BOOLEAN
    BY <1>2, HearUserAdds, AddKeepsTypes
  <2>2. pc' \in [Managers -> Locs] /\ \A n \in Managers : pc[n] = "tools" <=> pc'[n] = "tools"
    BY <1>2 DEF HearUser, Goto, TypeOK, Locs
  <2>3. made' = made /\ Calls' = Calls
    BY <1>2 DEF HearUser, Calls
  <2> QED BY <1>2, <2>1, <2>2, <2>3 DEF HearUser, TypeOK
<1>3. ASSUME NEW m \in Managers, HearChild(m) PROVE TypeOK'
  <2> DEFINE t == Turn(current[m] + 1, "tool", {}, NoCall)
  <2>1. made' = made /\ made \in Nat /\ Remember(m, t)
    BY <1>3 DEF HearChild, TypeOK
  <2>2. Calls' = Calls /\ TurnType' = TurnType
    BY <2>1 DEF Calls, TurnType
  <2>3. current[m] + 1 \in 0..MaxTurns
    BY <2>1 DEF Remember, TypeOK
  <2>4. t \in TurnType /\ t.role \in Roles /\ t.turn = current[m] + 1
    BY <2>1, <2>3 DEF Turn, TurnType, Calls, Roles, NoCall
  <2> HIDE DEF t
  <2>5. Append(turns[m], t) \in Seq(TurnType) /\ turns' = [turns EXCEPT ![m] = Append(turns[m], t)]
    BY <2>1, <2>4 DEF Remember, TypeOK
  <2>6. \A n \in Managers : \A k \in DOMAIN turns'[n] : turns'[n][k].role \in Roles
    BY SMTT(20), <2>4, <2>5 DEF TypeOK
  <2>7. turns' \in [Managers -> Seq(TurnType)] /\ current' \in [Managers -> 0..MaxTurns]
    BY <2>1, <2>4 DEF TypeOK, Remember
  <2>8. pc' \in [Managers -> Locs] /\ \A n \in Managers : pc[n] = "tools" <=> pc'[n] = "tools"
    BY <1>3 DEF HearChild, Goto, TypeOK, Locs
  <2> QED BY <1>3, <2>2, <2>6, <2>7, <2>8 DEF HearChild, TypeOK
<1>4. ASSUME NEW m \in Managers, NEW n \in 0..MaxCalls, Reply(m, n) PROVE TypeOK'
  <2>1. AddAssistantTurn(m, CallsOf(n)) /\ made' = made + n /\ n \in Nat
        /\ pending' = [pending EXCEPT ![m] = CallsOf(n)] /\ pc[m] = "ask"
        /\ pc' = [pc EXCEPT ![m] = AfterReply(n)]
    BY <1>4 DEF Reply, Goto, CallsOf, AfterReply
  <2>2. /\ turns' \in [Managers -> Seq(TurnType')]
        /\ \A x \in Managers : \A k \in DOMAIN turns'[x] : turns'[x][k].role \in Roles
        /\ current' \in [Managers -> 0..MaxTurns]
        /\ table' \in [1..MaxTurns -> TurnType']
        /\ failures' \in 0..MaxFailures /\ lost' \in BOOLEAN
    BY <2>1, AssistantAdds, AddKeepsTypes
  <2>3. CallsOf(n) \in Seq(Calls') /\ (CallsOf(n) = <<>> <=> n = 0)
        /\ made' \in Nat /\ made <= made'
    BY <2>1, ReplyHasCalls
  <2>4. \A x \in Managers : pending[x] \in Seq(Calls')
    BY <2>3, TypesGrow DEF TypeOK
  <2>5. pending' \in [Managers -> Seq(Calls')]
    BY <2>1, <2>3, <2>4 DEF TypeOK
  <2>6. pc' \in [Managers -> Locs]
    BY <2>1 DEF TypeOK, Locs, AfterReply
  <2>7. \A x \in Managers : pending'[x] # <<>> <=> pc'[x] = "tools"
    <3>1. pending'[m] = CallsOf(n) /\ (pc'[m] = "tools" <=> n > 0)
      BY <2>1 DEF TypeOK, AfterReply
    <3>2. \A x \in Managers \ {m} : pending'[x] = pending[x] /\ pc'[x] = pc[x]
      BY <2>1
    <3> QED BY SMTT(20), <2>3, <3>1, <3>2 DEF TypeOK
  <2>8. odd' \in BOOLEAN /\ torn' \in BOOLEAN /\ kind' = kind /\ restarts' = restarts
    BY <1>4 DEF Reply, TypeOK
  <2> QED BY <2>2, <2>3, <2>5, <2>6, <2>7, <2>8 DEF TypeOK
<1>5. ASSUME NEW m \in Managers, ReplyFails(m) PROVE TypeOK'
  <2>1. pc' \in [Managers -> Locs] /\ \A n \in Managers : pc[n] = "tools" <=> pc'[n] = "tools"
    BY <1>5 DEF ReplyFails, Goto, TypeOK, Locs
  <2>2. TurnType' = TurnType /\ Calls' = Calls
    BY <1>5 DEF ReplyFails, TurnType, Calls
  <2> QED BY <1>5, <2>1, <2>2 DEF ReplyFails, TypeOK, observers
<1>6. ASSUME NEW m \in Managers, RunTool(m) PROVE TypeOK'
  <2>1. /\ turns' \in [Managers -> Seq(TurnType')]
        /\ \A n \in Managers : \A k \in DOMAIN turns'[n] : turns'[n][k].role \in Roles
        /\ current' \in [Managers -> 0..MaxTurns]
        /\ table' \in [1..MaxTurns -> TurnType']
        /\ failures' \in 0..MaxFailures /\ lost' \in BOOLEAN
    BY <1>6, RunToolAdds, AddKeepsTypes
  <2>2. pending[m] \in Seq(Calls) /\ Len(pending[m]) > 0 /\ Len(pending[m]) \in Nat
        /\ Calls' = Calls
    BY <1>6, RunToolAdds, LenProperties DEF RunTool, Calls
  <2>3. Tail(pending[m]) \in Seq(Calls) /\ (Tail(pending[m]) # <<>> <=> Len(pending[m]) > 1)
    <3>1. Tail(pending[m]) \in Seq(Calls) /\ Len(Tail(pending[m])) = Len(pending[m]) - 1
      BY <2>2
    <3>2. Tail(pending[m]) = <<>> <=> Len(Tail(pending[m])) = 0
      BY <3>1, EmptySeq
    <3> DEFINE rest == Tail(pending[m])
               l == Len(pending[m])
    <3>3. rest \in Seq(Calls) /\ l \in Nat /\ l > 0 /\ Len(rest) = l - 1
          /\ (rest = <<>> <=> Len(rest) = 0)
      BY <3>1, <3>2
    <3> HIDE DEF rest, l
    <3> QED BY <3>3 DEF rest
  <2>4. pending' = [pending EXCEPT ![m] = Tail(pending[m])]
    BY <1>6 DEF RunTool
  <2>5. pending' \in [Managers -> Seq(Calls')]
    BY <2>2, <2>4 DEF TypeOK
  <2>6. /\ pc' \in [Managers -> Locs] /\ (pc'[m] = "tools" <=> Len(pending[m]) > 1)
        /\ \A n \in Managers \ {m} : pc'[n] = pc[n]
    BY <1>6 DEF RunTool, Goto, TypeOK, Locs
  <2>7. \A n \in Managers : pending'[n] # <<>> <=> pc'[n] = "tools"
    <3>1. pending'[m] = Tail(pending[m]) /\ \A n \in Managers \ {m} : pending'[n] = pending[n]
      BY <2>4 DEF TypeOK
    <3> QED BY <2>3, <2>6, <3>1 DEF TypeOK
  <2> QED BY <1>6, <2>1, <2>5, <2>6, <2>7 DEF RunTool, TypeOK
<1>7. ASSUME NEW m \in Managers, NEW n \in 0..MaxCalls, FollowUp(m, n) PROVE TypeOK'
  <2>1. made' = made + n /\ n \in Nat
        /\ (AddAssistantTurn(m, CallsOf(n)) \/ UNCHANGED <<turns, current, table, failures, lost>>)
    BY <1>7 DEF FollowUp, CallsOf
  <2>2. made' \in Nat /\ made <= made' /\ made \in Nat
    BY <2>1 DEF TypeOK
  <2>3. TurnType \subseteq TurnType' /\ Calls \subseteq Calls'
    BY <2>2, TypesGrow
  <2>4. \A x \in Managers : pending[x] \in Seq(Calls') /\ turns[x] \in Seq(TurnType')
    BY <2>3 DEF TypeOK
  <2>5. /\ turns' \in [Managers -> Seq(TurnType')]
        /\ \A x \in Managers : \A k \in DOMAIN turns'[x] : turns'[x][k].role \in Roles
        /\ current' \in [Managers -> 0..MaxTurns]
        /\ table' \in [1..MaxTurns -> TurnType']
        /\ failures' \in 0..MaxFailures /\ lost' \in BOOLEAN
    <3>1. CASE AddAssistantTurn(m, CallsOf(n))
      BY <2>1, <3>1, AssistantAdds, AddKeepsTypes
    <3>2. CASE UNCHANGED <<turns, current, table, failures, lost>>
      BY <2>3, <3>2 DEF TypeOK
    <3> QED BY <2>1, <3>1, <3>2
  <2>6. pc' \in [Managers -> Locs] /\ \A x \in Managers : pc[x] = "tools" <=> pc'[x] = "tools"
    BY <1>7 DEF FollowUp, Goto, TypeOK, Locs
  <2>7. pending' \in [Managers -> Seq(Calls')]
    BY <1>7, <2>4 DEF FollowUp, TypeOK
  <2>8. odd' \in BOOLEAN /\ torn' \in BOOLEAN /\ kind' = kind /\ restarts' = restarts
        /\ pending' = pending
    BY <1>7 DEF FollowUp, TypeOK
  <2> QED BY <2>2, <2>5, <2>6, <2>7, <2>8 DEF TypeOK
<1>8. ASSUME NEW m \in Managers, FollowUpFails(m) PROVE TypeOK'
  <2>1. pc' \in [Managers -> Locs] /\ \A n \in Managers : pc[n] = "tools" <=> pc'[n] = "tools"
    BY <1>8 DEF FollowUpFails, Goto, TypeOK, Locs
  <2>2. TurnType' = TurnType /\ Calls' = Calls
    BY <1>8 DEF FollowUpFails, TurnType, Calls
  <2> QED BY <1>8, <2>1, <2>2 DEF FollowUpFails, TypeOK, observers
<1>9. ASSUME Restart PROVE TypeOK'
  <2>1. TurnType' = TurnType /\ Calls' = Calls
    BY <1>9 DEF Restart, TurnType, Calls
  <2>2. current' \in [Managers -> 0..MaxTurns] /\ pc' \in [Managers -> Locs]
    BY <1>9 DEF Restart, Locs
  <2> QED BY <1>9, <2>1, <2>2 DEF Restart, TypeOK
<1>10. CASE UNCHANGED vars
  BY <1>10 DEF vars, boundVars, observers, TypeOK, TurnType, Calls
<1> QED BY <1>1, <1>2, <1>3, <1>4, <1>5, <1>6, <1>7, <1>8, <1>9, <1>10 DEF Next

\* Every step keeps what memory and table know of each other.
LEMMA MemNext ==
    ASSUME IInv, TurnContextAssumption, [Next]_vars
    PROVE  MemInv'
<1> USE DEF IInv
<1>1. ASSUME NEW m \in Managers, Start(m) PROVE MemInv'
  <2>1. table' = table /\ Rows' = Rows /\ turns \in [Managers -> Seq(TurnType)]
        /\ current \in [Managers -> 0..MaxTurns]
    BY <1>1 DEF Start, Rows, TypeOK
  <2>2. CASE LoadHistory(m) /\ UNCHANGED <<failures, lost>>
    <3>1. /\ History \in Seq(TurnType) /\ Len(History) = Cardinality(Rows)
          /\ Cardinality(Rows) \in Nat /\ (Cardinality(Rows) = 0 <=> Rows = {})
          /\ \A k \in 1..Len(History) : RowAt(k) \in Rows /\ History[k].turn = RowAt(k)
          /\ \A k, l \in 1..Len(History) : k < l => History[k].turn < History[l].turn
      BY HistoryIsInOrder DEF MemInv
    <3>2. /\ turns'[m] = History
          /\ current'[m] = IF Rows = {} THEN 0 ELSE History[Len(History)].turn
          /\ \A n \in Managers \ {m} : turns'[n] = turns[n] /\ current'[n] = current[n]
      BY <2>1, <2>2 DEF LoadHistory
    <3>3. \A k \in 1..Len(History) : History[k].turn <= current'[m]
      <4>1. \A k \in 1..Len(History) : RowAt(k) \in Nat /\ RowAt(k) = History[k].turn
        BY <3>1 DEF Rows
      <4>2. ASSUME NEW k \in 1..Len(History) PROVE History[k].turn <= History[Len(History)].turn
        <5>1. CASE k = Len(History)
          BY <4>1, <5>1
        <5>2. CASE k < Len(History)
          <6> QED BY <3>1, <4>1
        <5> QED BY <5>1, <5>2
      <4>3. \A k \in 1..Len(History) : Rows # {}
        BY <3>1
      <4> QED BY <3>2, <4>2, <4>3
    <3>4. NumbersIncrease'
      <4>1. /\ \A i, j \in DOMAIN turns'[m] : i < j => turns'[m][i].turn < turns'[m][j].turn
            /\ \A i \in DOMAIN turns'[m] : turns'[m][i].turn <= current'[m]
        BY <3>1, <3>2, <3>3
      <4>2. ASSUME NEW n \in Managers \ {m}
            PROVE  /\ \A i, j \in DOMAIN turns'[n] : i < j => turns'[n][i].turn < turns'[n][j].turn
                   /\ \A i \in DOMAIN turns'[n] : turns'[n][i].turn <= current'[n]
        BY <3>2 DEF MemInv, NumbersIncrease
      <4> QED BY <4>1, <4>2 DEF NumbersIncrease
    <3>5. RowInv'
      BY <2>1 DEF MemInv, RowInv
    <3>6. ASSUME ~lost'
          PROVE  /\ \A i \in Rows : 1..i \subseteq Rows
                 /\ Rows = 1..Len(History) /\ \A k \in 1..Len(History) : History[k] = table[k]
      <4>1. \A i \in Rows : 1..i \subseteq Rows
        BY <2>2, <3>6 DEF MemInv, MemoryIsTable
      <4> QED BY <4>1, HistoryIsTable DEF MemInv
    <3>7. CountInv'
      <4>1. SUFFICES ASSUME ~lost' PROVE \A n \in Managers : current'[n] = Len(turns'[n])
        BY DEF CountInv
      <4>2. current'[m] = Len(turns'[m])
        <5>1. CASE Rows = {}
          BY <3>1, <3>2, <5>1
        <5>2. CASE Rows # {}
          <6>1. Len(History) \in 1..Len(History) /\ Len(History) \in Rows
            BY <3>6, <4>1, <5>2
          <6>2. History[Len(History)].turn = Len(History)
            BY <3>6, <4>1, <6>1 DEF MemInv, RowInv
          <6> QED BY <3>2, <5>2, <6>2
        <5> QED BY <5>1, <5>2
      <4> QED BY <2>2, <3>2, <4>1, <4>2 DEF MemInv, CountInv
    <3>8. MemoryIsTable'
      <4>1. SUFFICES ASSUME ~lost'
                     PROVE  /\ \A i \in Rows : 1..i \subseteq Rows
                            /\ \A n \in Managers :
                                  \A k \in DOMAIN turns'[n] : turns'[n][k] = table[k]
                            /\ Rows \subseteq DOMAIN turns'[m]
        BY <2>1 DEF MemoryIsTable
      <4>2. \A n \in Managers \ {m} : \A k \in DOMAIN turns'[n] : turns'[n][k] = table[k]
        BY <2>2, <3>2, <4>1 DEF MemInv, MemoryIsTable
      <4> QED BY <3>2, <3>6, <4>1, <4>2
    <3> QED BY <3>4, <3>5, <3>7, <3>8 DEF MemInv
  <2>3. CASE lost' = TRUE /\ UNCHANGED <<turns, current>>
    BY <2>1, <2>3 DEF MemInv, NumbersIncrease, RowInv, CountInv, MemoryIsTable
  <2> QED BY <1>1, <2>2, <2>3 DEF Start
<1>2. ASSUME NEW m \in Managers, HearUser(m) PROVE MemInv'
  BY <1>2, HearUserAdds, AddKeepsMemory
<1>3. ASSUME NEW m \in Managers, HearChild(m) PROVE MemInv'
  <2>1. Remember(m, Turn(current[m] + 1, "tool", {}, NoCall)) /\ lost' = TRUE /\ table' = table
    BY <1>3 DEF HearChild
  <2>2. NumbersIncrease'
    BY <2>1, RememberInOrder DEF Turn, MemInv
  <2> QED BY <2>1, <2>2 DEF MemInv, RowInv, Rows, CountInv, MemoryIsTable
<1>4. ASSUME NEW m \in Managers, NEW n \in 0..MaxCalls, Reply(m, n) PROVE MemInv'
  <2>1. AddAssistantTurn(m, CallsOf(n)) /\ made' = made + n /\ n \in Nat
    BY <1>4 DEF Reply, CallsOf
  <2> QED BY <2>1, AssistantAdds, AddKeepsMemory
<1>5. ASSUME NEW m \in Managers, RunTool(m) PROVE MemInv'
  BY <1>5, RunToolAdds, AddKeepsMemory
<1>6. ASSUME NEW m \in Managers, NEW n \in 0..MaxCalls, FollowUp(m, n) PROVE MemInv'
  <2>1. /\ made' = made + n /\ n \in Nat
        /\ AddAssistantTurn(m, CallsOf(n)) \/ UNCHANGED <<turns, current, table, failures, lost>>
    BY <1>6 DEF FollowUp, CallsOf
  <2>2. CASE AddAssistantTurn(m, CallsOf(n))
    BY <2>1, <2>2, AssistantAdds, AddKeepsMemory
  <2>3. CASE UNCHANGED <<turns, current, table, failures, lost>>
    <3>1. pc[m] = "followup"
      BY <1>6 DEF FollowUp
    <3> QED BY <2>3, <3>1 DEF MemInv, NumbersIncrease, RowInv, Rows, CountInv, MemoryIsTable
  <2> QED BY <2>1, <2>2, <2>3
<1>7. ASSUME NEW m \in Managers, ReplyFails(m) \/ FollowUpFails(m) PROVE MemInv'
  <2>1. UNCHANGED <<turns, current, table, lost>> /\ pc[m] # "off"
    BY <1>7 DEF ReplyFails, FollowUpFails, observers
  <2> QED BY <2>1 DEF MemInv, NumbersIncrease, RowInv, Rows, CountInv, MemoryIsTable
<1>8. ASSUME Restart PROVE MemInv'
  <2>1. /\ \A n \in Managers : /\ turns'[n] = <<>> /\ DOMAIN turns'[n] = {} /\ Len(turns'[n]) = 0
                               /\ current'[n] = 0 /\ pc'[n] = "off"
        /\ table' = table /\ lost' = lost
    BY <1>8 DEF Restart
  <2> QED BY <2>1 DEF MemInv, NumbersIncrease, RowInv, Rows, CountInv, MemoryIsTable
<1>9. CASE UNCHANGED vars
  BY <1>9 DEF vars, observers, MemInv, NumbersIncrease, RowInv, Rows, CountInv, MemoryIsTable
<1> QED BY <1>1, <1>2, <1>3, <1>4, <1>5, <1>6, <1>7, <1>8, <1>9 DEF Next

------------------------------------------------------------------------------
(* Calls and their answers.                                                  *)

\* A memory stays paired while the loop that has it does something else.
LEMMA PairedStays ==
    ASSUME NEW m \in Managers, PairedAt(m), turns'[m] = turns[m], pending'[m] = pending[m],
           pc'[m] = "tools" <=> pc[m] = "tools"
    PROVE  PairedAt(m)'
BY DEF PairedAt

\* It stays paired when a pending call gets its answer and nothing else does,
\* and when the calls of the new turn are then the pending ones.
LEMMA PairedGrows ==
    ASSUME TypeOK, NEW m \in Managers, NEW t, Remember(m, t), PairedAt(m),
           t.role = "tool" => pc[m] = "tools",
           pc[m] = "tools" => t.role = "tool" /\ t.id = Head(pending[m]),
           t.calls # {} => pc'[m] = "tools",
           pc'[m] = "tools" => Len(pending'[m]) = 1 /\ t.calls = {Head(pending'[m])}
    PROVE  PairedAt(m)'
<1> DEFINE l == Len(turns[m])
<1>1. /\ l \in Nat /\ Len(turns'[m]) = l + 1 /\ turns'[m][l + 1] = t
      /\ \A k \in 1..l : turns'[m][k] = turns[m][k]
  BY RememberAppends
<1>2. pc[m] = "tools" => l > 0 /\ turns[m][l].calls = {t.id}
  BY DEF PairedAt
<1>3. ASSUME NEW i \in 1..l, turns[m][i].role = "tool"
      PROVE  i > 1 /\ turns[m][i - 1].calls = {turns[m][i].id}
  BY <1>3 DEF PairedAt
<1>4. ASSUME NEW i \in 1..l, turns[m][i].calls # {}
      PROVE  IF i < l THEN Asks(turns[m][i], turns[m][i + 1]) ELSE pc[m] = "tools"
  BY <1>4 DEF PairedAt
<1> HIDE DEF l
<1>5. ASSUME NEW i \in 1..(l + 1), turns'[m][i].role = "tool"
      PROVE  i > 1 /\ turns'[m][i - 1].calls = {turns'[m][i].id}
  <2>1. CASE i = l + 1
    <3>1. l > 0 /\ turns[m][l].calls = {t.id}
      BY <1>1, <1>2, <1>5, <2>1
    <3>2. i > 1 /\ i - 1 = l /\ l \in 1..l
      BY <1>1, <2>1, <3>1
    <3> QED BY <1>1, <3>1, <3>2
  <2>2. CASE i # l + 1
    <3>1. i \in 1..l /\ turns[m][i].role = "tool"
      BY <1>1, <1>5, <2>2
    <3>2. i > 1 /\ turns[m][i - 1].calls = {turns[m][i].id}
      BY <1>3, <3>1
    <3> QED BY <1>1, <3>1, <3>2
  <2> QED BY <2>1, <2>2
<1>6. ASSUME NEW i \in 1..(l + 1), turns'[m][i].calls # {}
      PROVE  IF i < l + 1 THEN Asks(turns'[m][i], turns'[m][i + 1]) ELSE pc'[m] = "tools"
  <2>1. CASE i = l + 1
    BY <1>1, <1>6, <2>1
  <2>2. CASE i = l /\ i # l + 1
    <3>1. i \in 1..l /\ turns[m][i].calls # {} /\ ~(i < l) /\ i < l + 1
      BY <1>1, <1>6, <2>2
    <3>2. pc[m] = "tools"
      BY <1>4, <3>1
    <3>3. turns'[m][i].calls = {t.id} /\ turns'[m][i + 1] = t /\ t.role = "tool"
      BY <1>1, <1>2, <3>1, <3>2
    <3> QED BY <3>1, <3>3 DEF Asks
  <2>3. CASE i # l /\ i # l + 1
    <3>1. i \in 1..l /\ i + 1 \in 1..l /\ i < l /\ i < l + 1
      BY <1>1, <2>3
    <3>2. turns'[m][i] = turns[m][i] /\ turns'[m][i + 1] = turns[m][i + 1]
      BY <1>1, <3>1
    <3> QED BY <1>4, <1>6, <3>1, <3>2
  <2> QED BY <2>1, <2>2, <2>3
<1> QED BY <1>1, <1>5, <1>6 DEF PairedAt

\* Every step keeps the calls in memory answered.
LEMMA PairNext ==
    ASSUME IInv, TurnContextAssumption, [Next]_vars
    PROVE  PairInv'
<1> SUFFICES ASSUME ~odd', ~torn', NEW x \in Managers
             PROVE  PairedAt(x)'
  BY DEF PairInv
<1>1. TypeOK /\ MemInv /\ PairInv /\ TableInv
  BY DEF IInv
<1>2. ~odd /\ ~torn
  BY <1>1 DEF Next, Start, HearUser, HearChild, Reply, ReplyFails, RunTool, FollowUp, FollowUpFails,
     Restart, vars, observers, TypeOK
<1>3. PairedAt(x)
  BY <1>1, <1>2 DEF PairInv
<1>4. pc \in [Managers -> Locs] /\ pending \in [Managers -> Seq(Calls)]
  BY <1>1 DEF TypeOK
<1>5. ASSUME NEW m \in Managers, Start(m) PROVE PairedAt(x)'
  <2>1. pc[m] = "off" /\ pc' = [pc EXCEPT ![m] = "idle"] /\ pending' = pending
        /\ ~lost /\ \A n \in Managers : pc[n] # "tools"
    BY <1>5 DEF Start, Goto
  <2>2. CASE LoadHistory(m) /\ x = m
    <3>1. turns'[m] = History
      BY <1>1, <2>2 DEF LoadHistory, TypeOK
    <3>2. Rows = 1..Len(History) /\ \A k \in 1..Len(History) : History[k] = table[k]
      BY <1>1, <2>1, HistoryIsTable DEF MemInv, MemoryIsTable
    <3>3. TablePaired
      BY <1>1, <1>2, <2>1 DEF TableInv
    <3>4. \A i \in 1..Len(History) : History[i].role = "tool" =>
             i > 1 /\ History[i - 1].calls = {History[i].id}
      <4>1. ASSUME NEW i \in 1..Len(History), History[i].role = "tool"
            PROVE  i > 1 /\ table[i - 1].calls = {table[i].id}
        BY <3>2, <3>3, <4>1 DEF TablePaired
      <4> QED BY <3>2, <4>1
    <3>5. \A i \in 1..Len(History) : History[i].calls # {} =>
             i < Len(History) /\ Asks(History[i], History[i + 1])
      <4>1. ASSUME NEW i \in 1..Len(History), History[i].calls # {}
            PROVE  i + 1 \in Rows /\ Asks(table[i], table[i + 1])
        BY <2>1, <3>2, <3>3, <4>1 DEF TablePaired
      <4> QED BY <3>2, <4>1
    <3>6. pc'[m] = "idle"
      BY <1>4, <2>1
    <3> QED BY <2>2, <3>1, <3>4, <3>5, <3>6 DEF PairedAt
  <2>3. CASE ~(LoadHistory(m) /\ x = m)
    <3>1. turns'[x] = turns[x]
      BY <1>1, <1>5, <2>3 DEF Start, LoadHistory, TypeOK
    <3> QED BY <1>3, <2>1, <3>1, PairedStays
  <2> QED BY <2>2, <2>3
<1>6. ASSUME NEW m \in Managers, HearUser(m) PROVE PairedAt(x)'
  <2>1. /\ Remember(m, Turn(current[m] + 1, "user", {}, NoCall))
        /\ pc[m] = "idle" /\ pc' = [pc EXCEPT ![m] = "ask"] /\ pending' = pending
    BY <1>6 DEF HearUser, AddUserTurn, Goto
  <2>2. CASE x = m
    BY <1>1, <1>3, <2>1, <2>2, PairedGrows DEF Turn
  <2>3. CASE x # m
    BY <1>1, <1>3, <2>1, <2>3, PairedStays, RememberAppends
  <2> QED BY <2>2, <2>3
<1>7. ASSUME NEW m \in Managers, HearChild(m) PROVE PairedAt(x)'
  BY <1>7 DEF HearChild
<1>8. ASSUME NEW m \in Managers, NEW n \in 0..MaxCalls, Reply(m, n) PROVE PairedAt(x)'
  <2>1. /\ Remember(m, Turn(current[m] + 1, "assistant", Kept(CallsOf(n)), NoCall))
        /\ made' = made + n /\ n \in {0, 1} /\ pc[m] = "ask"
        /\ pending' = [pending EXCEPT ![m] = CallsOf(n)]
        /\ pc' = [pc EXCEPT ![m] = AfterReply(n)]
    <3>1. AddAssistantTurn(m, CallsOf(n))
      BY <1>8 DEF Reply, CallsOf
    <3>2. ~(n > 1)
      BY <1>8 DEF Reply
    <3>3. n \in {0, 1}
      BY <3>2
    <3>4. /\ made' = made + n /\ pc[m] = "ask" /\ pending' = [pending EXCEPT ![m] = CallsOf(n)]
          /\ pc' = [pc EXCEPT ![m] = AfterReply(n)]
      BY <1>8 DEF Reply, CallsOf, AfterReply, Goto
    <3> QED BY <3>1, <3>3, <3>4 DEF AddAssistantTurn
  <2>2. CASE x = m
    <3>1. /\ Len(CallsOf(n)) = n /\ (n = 0 => Kept(CallsOf(n)) = {})
          /\ n = 1 => Kept(CallsOf(n)) = {Head(CallsOf(n))}
      BY <1>1, <2>1, ReplyHasCalls
    <3>2. pending'[m] = CallsOf(n) /\ (pc'[m] = "tools" <=> n = 1)
      BY <1>4, <2>1 DEF AfterReply
    <3> HIDE DEF CallsOf
    <3> QED BY <1>1, <1>3, <2>1, <2>2, <3>1, <3>2, PairedGrows DEF Turn
  <2>3. CASE x # m
    BY <1>1, <1>3, <2>1, <2>3, PairedStays, RememberAppends
  <2> QED BY <2>2, <2>3
<1>9. ASSUME NEW m \in Managers, RunTool(m) PROVE PairedAt(x)'
  <2>1. /\ Remember(m, Turn(current[m] + 1, "tool", {}, Head(pending[m]))) /\ pc[m] = "tools"
        /\ pending' = [pending EXCEPT ![m] = Tail(pending[m])]
    BY <1>9 DEF RunTool, AddToolResultTurn
  <2>2. CASE x = m
    <3>1. Len(pending[m]) = 1
      BY <1>3, <2>1, <2>2 DEF PairedAt
    <3>2. pc'[m] # "tools"
      BY <1>4, <1>9, <3>1 DEF RunTool, Goto
    <3> QED BY <1>1, <1>3, <2>1, <2>2, <3>2, PairedGrows DEF Turn
  <2>3. CASE x # m
    <3>1. pc'[x] = pc[x] /\ pending'[x] = pending[x]
      BY <1>4, <1>9, <2>3 DEF RunTool, Goto
    <3> QED BY <1>1, <1>3, <2>1, <2>3, <3>1, PairedStays, RememberAppends
  <2> QED BY <2>2, <2>3
<1>10. ASSUME NEW m \in Managers, NEW n \in 0..MaxCalls, FollowUp(m, n) PROVE PairedAt(x)'
  <2>1. /\ made' = made + n /\ n = 0
        /\ pc[m] = "followup" /\ pc' = [pc EXCEPT ![m] = "idle"] /\ pending' = pending
        /\ \/ Remember(m, Turn(current[m] + 1, "assistant", Kept(CallsOf(n)), NoCall))
           \/ UNCHANGED turns
    <3>1. AddAssistantTurn(m, CallsOf(n)) \/ UNCHANGED turns
      BY <1>10 DEF FollowUp, CallsOf
    <3>2. ~(n > 0)
      BY <1>10 DEF FollowUp
    <3>3. n = 0
      BY <3>2
    <3>4. /\ made' = made + n /\ pc[m] = "followup" /\ pending' = pending
          /\ pc' = [pc EXCEPT ![m] = "idle"]
      BY <1>10 DEF FollowUp, Goto
    <3> QED BY <3>1, <3>3, <3>4 DEF AddAssistantTurn
  <2>2. Kept(CallsOf(n)) = {}
    BY <1>1, <2>1, ReplyHasCalls
  <2>3. CASE UNCHANGED turns
    BY <1>3, <2>1, <2>3, PairedStays
  <2>4. CASE x = m /\ Remember(m, Turn(current[m] + 1, "assistant", Kept(CallsOf(n)), NoCall))
    BY <1>1, <1>3, <2>1, <2>2, <2>4, PairedGrows DEF Turn
  <2>5. CASE x # m /\ Remember(m, Turn(current[m] + 1, "assistant", Kept(CallsOf(n)), NoCall))
    BY <1>1, <1>3, <2>1, <2>5, PairedStays, RememberAppends
  <2> QED BY <2>1, <2>3, <2>4, <2>5
<1>11. ASSUME NEW m \in Managers, ReplyFails(m) \/ FollowUpFails(m) PROVE PairedAt(x)'
  <2>1. UNCHANGED <<turns, pending>> /\ (pc'[x] = "tools" <=> pc[x] = "tools")
    BY <1>4, <1>11 DEF ReplyFails, FollowUpFails, Goto
  <2> QED BY <1>3, <2>1, PairedStays
<1>12. ASSUME Restart PROVE PairedAt(x)'
  <2>1. turns'[x] = <<>> /\ Len(turns'[x]) = 0 /\ pc'[x] = "off"
    BY <1>12 DEF Restart
  <2> QED BY <2>1 DEF PairedAt
<1>13. CASE UNCHANGED vars
  BY <1>3, <1>13, PairedStays DEF vars
<1> QED BY <1>5, <1>6, <1>7, <1>8, <1>9, <1>10, <1>11, <1>12, <1>13 DEF Next

\* An INSERT that succeeds while nothing was lost puts into the table what the
\* loop has in memory, so that the table is paired when that memory is.
LEMMA AddKeepsTable ==
    ASSUME TypeOK, TurnContextAssumption, MemInv, MemInv', TablePaired, ~lost',
           NEW m \in Managers, NEW t, Adds(m, t), PairedAt(m)',
           \A n \in Managers \ {m} : pc'[n] = pc[n]
    PROVE  TablePaired'
<1> DEFINE l == Len(turns[m])
<1>1. /\ ~lost /\ Rows = 1..l /\ Rows' = 1..(l + 1) /\ \A n \in Managers : Len(turns[n]) <= l
  BY AddFillsTable
<1>2. /\ l \in Nat /\ Len(turns'[m]) = l + 1 /\ DOMAIN turns'[m] = 1..(l + 1)
      /\ \A n \in Managers \ {m} : turns'[n] = turns[n]
  BY RememberAppends DEF Adds
<1>3. \A k \in 1..(l + 1) : turns'[m][k] = table'[k]
  BY <1>2 DEF MemInv, MemoryIsTable
<1>4. \A n \in Managers \ {m} : pc'[n] # "tools"
  BY <1>1 DEF TablePaired
<1> HIDE DEF l
<1>5. ASSUME NEW i \in Rows', table'[i].role = "tool"
      PROVE  i > 1 /\ table'[i - 1].calls = {table'[i].id}
  <2>1. i \in 1..(l + 1) /\ turns'[m][i].role = "tool"
    BY <1>1, <1>3, <1>5
  <2>2. i > 1 /\ turns'[m][i - 1].calls = {turns'[m][i].id}
    BY <1>2, <2>1 DEF PairedAt
  <2>3. i - 1 \in 1..(l + 1)
    BY <1>2, <2>1, <2>2
  <2> QED BY <1>3, <2>1, <2>2, <2>3
<1>6. ASSUME NEW i \in Rows', table'[i].calls # {}
      PROVE  IF i + 1 \in Rows' THEN Asks(table'[i], table'[i + 1])
             ELSE \E n \in Managers : pc'[n] = "tools" /\ Len(turns'[n]) = i
  <2>1. i \in 1..(l + 1) /\ turns'[m][i].calls # {}
    BY <1>1, <1>3, <1>6
  <2>2. IF i < l + 1 THEN Asks(turns'[m][i], turns'[m][i + 1]) ELSE pc'[m] = "tools"
    BY <1>2, <2>1 DEF PairedAt
  <2>3. CASE i < l + 1
    <3>1. i + 1 \in 1..(l + 1)
      BY <1>2, <2>1, <2>3
    <3> QED BY <1>1, <1>3, <2>2, <2>3, <3>1
  <2>4. CASE ~(i < l + 1)
    <3>1. i = l + 1 /\ i + 1 \notin 1..(l + 1)
      BY <1>2, <2>1, <2>4
    <3> QED BY <1>1, <1>2, <2>2, <3>1
  <2> QED BY <2>3, <2>4
<1>7. ASSUME NEW x \in Managers, NEW y \in Managers, pc'[x] = "tools", x # y
      PROVE  Len(turns'[y]) < Len(turns'[x])
  <2>1. x = m /\ turns'[y] = turns[y]
    BY <1>2, <1>4, <1>7
  <2>2. Len(turns[y]) <= l /\ Len(turns[y]) \in Nat
    BY <1>1
  <2> QED BY <1>2, <2>1, <2>2
<1> QED BY <1>5, <1>6, <1>7 DEF TablePaired

\* A table that is not written stays paired, unless a loop begins or ends to
\* run its tools.
LEMMA TableStays ==
    ASSUME TablePaired, table' = table, turns' = turns,
           \A n \in Managers : pc'[n] = "tools" <=> pc[n] = "tools"
    PROVE  TablePaired'
BY DEF TablePaired, Rows

\* Every step keeps the calls in the table answered.
LEMMA TableNext ==
    ASSUME IInv, TurnContextAssumption, [Next]_vars
    PROVE  TableInv'
<1> SUFFICES ASSUME ~odd', ~torn', ~lost'
             PROVE  TablePaired'
  BY DEF TableInv
<1>1. TypeOK /\ MemInv /\ PairInv /\ TableInv
  BY DEF IInv
<1>2. ~odd /\ ~torn
  BY <1>1 DEF Next, Start, HearUser, HearChild, Reply, ReplyFails, RunTool, FollowUp, FollowUpFails,
     Restart, vars, observers, TypeOK
<1>3. MemInv' /\ \A m \in Managers : PairedAt(m)'
  BY MemNext, PairNext DEF PairInv
<1>4. pc \in [Managers -> Locs] /\ pending \in [Managers -> Seq(Calls)]
  BY <1>1 DEF TypeOK
<1>5. ASSUME ~lost PROVE TablePaired
  BY <1>1, <1>2, <1>5 DEF TableInv
<1>6. ASSUME NEW m \in Managers, NEW t, Adds(m, t), \A n \in Managers \ {m} : pc'[n] = pc[n]
      PROVE  TablePaired'
  <2>1. ~lost
    BY <1>1, <1>6, AddFillsTable
  <2> QED BY <1>1, <1>3, <1>5, <1>6, <2>1, AddKeepsTable
<1>7. ASSUME NEW m \in Managers, Start(m) PROVE TablePaired'
  <2>1. ~lost /\ table' = table /\ \A n \in Managers : pc[n] # "tools" /\ pc'[n] # "tools"
    BY <1>4, <1>7 DEF Start, Goto
  <2> QED BY <1>5, <2>1 DEF TablePaired, Rows
<1>8. ASSUME NEW m \in Managers, HearUser(m) PROVE TablePaired'
  <2>1. \A n \in Managers \ {m} : pc'[n] = pc[n]
    BY <1>8 DEF HearUser, Goto
  <2> QED BY <1>1, <1>6, <1>8, <2>1, HearUserAdds
<1>9. ASSUME NEW m \in Managers, HearChild(m) PROVE TablePaired'
  BY <1>9 DEF HearChild
<1>10. ASSUME NEW m \in Managers, NEW n \in 0..MaxCalls, Reply(m, n) PROVE TablePaired'
  <2>1. AddAssistantTurn(m, CallsOf(n)) /\ made' = made + n /\ n \in Nat
    BY <1>10 DEF Reply, CallsOf
  <2>2. \A x \in Managers \ {m} : pc'[x] = pc[x]
    BY <1>10 DEF Reply, Goto
  <2>3. Adds(m, Turn(current[m] + 1, "assistant", Kept(CallsOf(n)), NoCall))
    BY <1>1, <2>1, AssistantAdds
  <2> QED BY <1>6, <2>2, <2>3
<1>11. ASSUME NEW m \in Managers, RunTool(m) PROVE TablePaired'
  <2>1. \A n \in Managers \ {m} : pc'[n] = pc[n]
    BY <1>4, <1>11 DEF RunTool, Goto
  <2> QED BY <1>1, <1>6, <1>11, <2>1, RunToolAdds
<1>12. ASSUME NEW m \in Managers, NEW n \in 0..MaxCalls, FollowUp(m, n) PROVE TablePaired'
  <2>1. /\ made' = made + n /\ n \in Nat
        /\ AddAssistantTurn(m, CallsOf(n)) \/ UNCHANGED <<turns, current, table, failures, lost>>
    BY <1>12 DEF FollowUp, CallsOf
  <2>2. /\ \A x \in Managers \ {m} : pc'[x] = pc[x]
        /\ \A x \in Managers : pc'[x] = "tools" <=> pc[x] = "tools"
    BY <1>12 DEF FollowUp, Goto
  <2>3. CASE AddAssistantTurn(m, CallsOf(n))
    <3>1. Adds(m, Turn(current[m] + 1, "assistant", Kept(CallsOf(n)), NoCall))
      BY <1>1, <2>1, <2>3, AssistantAdds
    <3> QED BY <1>6, <2>2, <3>1
  <2>4. CASE UNCHANGED <<turns, current, table, failures, lost>>
    BY <1>5, <2>2, <2>4, TableStays
  <2> QED BY <2>1, <2>3, <2>4
<1>13. ASSUME NEW m \in Managers, ReplyFails(m) \/ FollowUpFails(m) PROVE TablePaired'
  <2>1. UNCHANGED <<turns, table, lost>> /\ \A n \in Managers : pc'[n] = "tools" <=> pc[n] = "tools"
    BY <1>4, <1>13 DEF ReplyFails, FollowUpFails, Goto, observers
  <2> QED BY <1>5, <2>1, TableStays
<1>14. ASSUME Restart PROVE TablePaired'
  <2>1. /\ lost' = lost /\ table' = table
        /\ \A n \in Managers : pc[n] # "tools" /\ pc'[n] # "tools"
    BY <1>14 DEF Restart
  <2> QED BY <1>5, <2>1 DEF TablePaired, Rows
<1>15. CASE UNCHANGED vars
  BY <1>5, <1>15, TableStays DEF vars, observers
<1> QED BY <1>7, <1>8, <1>9, <1>10, <1>11, <1>12, <1>13, <1>14, <1>15 DEF Next

------------------------------------------------------------------------------
(* The theorems.                                                             *)

\* The invariant holds at the start.
LEMMA InvInit ==
    ASSUME Init, TurnContextAssumption
    PROVE  IInv
<1>1. /\ \A m \in Managers : turns[m] = <<>> /\ pending[m] = <<>> /\ pc[m] = "off" /\ current[m] = 0
      /\ \A i \in 1..MaxTurns : table[i] = NoTurn
      /\ made = 0 /\ Rows = {}
  BY DEF Init, Rows
<1>2. TypeOK
  <2>1. turns \in [Managers -> Seq(TurnType)] /\ pending \in [Managers -> Seq(Calls)]
    BY DEF Init
  <2>2. current \in [Managers -> 0..MaxTurns] /\ made \in Nat
    BY DEF Init
  <2>3. NoTurn \in TurnType
    BY <1>1 DEF NoTurn, Turn, TurnType, Calls, NoCall
  <2>4. table \in [1..MaxTurns -> TurnType]
    BY <2>3 DEF Init
  <2>5. pc \in [Managers -> Locs] /\ kind \in {"worker", "orchestrator"}
        /\ lost \in BOOLEAN /\ torn \in BOOLEAN /\ odd \in BOOLEAN
    BY DEF Init, Locs
  <2>6. failures \in 0..MaxFailures /\ restarts \in 0..MaxRestarts
    BY DEF Init
  <2> QED BY <1>1, <2>1, <2>2, <2>4, <2>5, <2>6 DEF TypeOK
<1>3. MemInv
  BY <1>1 DEF MemInv, NumbersIncrease, RowInv, CountInv, MemoryIsTable
<1>4. PairInv
  BY <1>1 DEF PairInv, PairedAt
<1>5. TableInv
  BY <1>1 DEF TableInv, TablePaired
<1> QED BY <1>2, <1>3, <1>4, <1>5 DEF IInv

\* The invariant is inductive.
THEOREM InvInvariant == Spec => []IInv
<1>1. Init => IInv
  BY InvInit, TurnContextAssumption
<1>2. IInv /\ [Next]_vars => IInv'
  BY TypeNext, MemNext, PairNext, TableNext, TurnContextAssumption DEF IInv
<1> QED BY <1>1, <1>2, PTL DEF Spec

\* What a loop has in memory is sound: its types, numbers that increase over
\* crashes and losses, and, while nothing is lost, a beginning of a table that
\* has no gap, so that a restart loads what the agent knew.
THEOREM MemoryIsAlwaysSound == Spec => []MemoryIsSound
<1>1. IInv => MemoryIsSound
  BY DEF IInv, MemInv, MemoryIsSound
<1> QED BY <1>1, InvInvariant, PTL

\* The messages made from a paired memory are those the API accepts.
LEMMA PairedIsCompliant ==
    ASSUME TypeOK, NEW m \in Managers, PairedAt(m), pc[m] # "tools"
    PROVE  Compliant(BuildMessages(m))
<1> DEFINE s == BuildMessages(m)
           l == Len(turns[m])
<1>1. l \in Nat /\ DOMAIN turns[m] = 1..l
  OBVIOUS
<1>2. /\ DOMAIN s = 1..l
      /\ \A k \in 1..l : /\ s[k].role = turns[m][k].role /\ s[k].calls = turns[m][k].calls
                         /\ s[k].id = turns[m][k].id
  BY DEF BuildMessages, MessageOf
<1>3. ASSUME NEW i \in 1..l, turns[m][i].role = "tool"
      PROVE  i > 1 /\ turns[m][i - 1].calls = {turns[m][i].id}
  BY <1>3 DEF PairedAt
<1>4. ASSUME NEW i \in 1..l, turns[m][i].calls # {}
      PROVE  i < l /\ Asks(turns[m][i], turns[m][i + 1])
  BY <1>4 DEF PairedAt
<1> HIDE DEF s, l
<1>5. ASSUME NEW i \in DOMAIN s, s[i].role = "tool"
      PROVE  \E j \in DOMAIN s : Answers(s, i, j)
  <2>1. i \in 1..l /\ i > 1 /\ turns[m][i - 1].calls = {turns[m][i].id}
    BY <1>2, <1>3, <1>5
  <2>2. i - 1 \in 1..l /\ i - 1 < i /\ \A k \in (i - 1) + 1..i : k = i
    BY <1>1, <2>1
  <2>3. s[i].id \in s[i - 1].calls
    BY <1>2, <2>1, <2>2
  <2>4. Answers(s, i, i - 1)
    BY <1>5, <2>2, <2>3 DEF Answers
  <2> QED BY <1>2, <2>2, <2>4
<1>6. ASSUME NEW j \in DOMAIN s, NEW c \in s[j].calls
      PROVE  \E i \in DOMAIN s : Answers(s, i, j) /\ s[i].id = c
  <2>1. j \in 1..l /\ turns[m][j].calls # {} /\ c \in turns[m][j].calls
    BY <1>2
  <2>2. j < l /\ turns[m][j + 1].role = "tool" /\ turns[m][j].calls = {turns[m][j + 1].id}
    BY <1>4, <2>1 DEF Asks
  <2>3. j + 1 \in 1..l /\ j < j + 1 /\ \A k \in j + 1..j + 1 : k = j + 1
    BY <1>1, <2>1, <2>2
  <2>4. s[j + 1].role = "tool" /\ s[j + 1].id = c /\ c \in s[j].calls
    BY <1>2, <2>2, <2>3
  <2>5. Answers(s, j + 1, j)
    BY <2>3, <2>4 DEF Answers
  <2> QED BY <1>2, <2>3, <2>4, <2>5
<1>7. Compliant(s)
  BY <1>5, <1>6 DEF Compliant
<1> QED BY <1>7 DEF s

\* Whatever fails, whichever loops of a session collide and however often the
\* process restarts, a call and its result stay side by side in what the LLM
\* is given, as long as nothing is loaded after a loss or in between the two.
THEOREM MessagesAreAlwaysPaired == Spec => []MessagesArePaired
<1>1. IInv => MessagesArePaired
  <2> SUFFICES ASSUME IInv, ~odd, ~torn, NEW m \in Managers, Asking(m)
               PROVE  Compliant(BuildMessages(m))
    BY DEF MessagesArePaired
  <2>1. TypeOK /\ PairedAt(m) /\ pc[m] # "tools"
    BY DEF IInv, PairInv, Asking
  <2> QED BY <2>1, PairedIsCompliant
<1> QED BY <1>1, InvInvariant, PTL

\* In an orchestrator's session, while no statement fails: a loop counts what it
\* has in memory, all of its numbers are taken, without a gap below a row, and
\* the turn of each row is known to a loop, once there is one.
MergeInv ==
    kind = "orchestrator" /\ failures = 0 =>
        /\ \A m \in Managers : current[m] = Len(turns[m]) /\ 1..Len(turns[m]) \subseteq Rows
        /\ TableIsMerged

\* A load finds the whole table, which it then knows.
LEMMA LoadKeepsMerge ==
    ASSUME IInv, TurnContextAssumption, MergeInv, kind = "orchestrator", failures = 0,
           NEW m \in Managers, LoadHistory(m), table' = table, UNCHANGED <<kind, failures>>
    PROVE  MergeInv'
<1>1. \A i \in Rows : 1..i \subseteq Rows
  BY DEF MergeInv, TableIsMerged
<1>2. Rows' = Rows
  BY DEF Rows
<1>3. Rows = 1..Len(History) /\ \A k \in 1..Len(History) : History[k] = table[k]
  BY <1>1, HistoryIsTable DEF IInv, MemInv
<1>4. History \in Seq(TurnType) /\ Len(History) \in Nat
  BY HistoryIsInOrder DEF IInv, MemInv
<1>5. /\ turns'[m] = History
      /\ current'[m] = IF Rows = {} THEN 0 ELSE History[Len(History)].turn
      /\ \A n \in Managers \ {m} : turns'[n] = turns[n] /\ current'[n] = current[n]
  BY DEF LoadHistory, IInv, TypeOK
<1>6. current'[m] = Len(turns'[m])
  <2>1. CASE Rows = {}
    BY <1>3, <1>4, <1>5, <2>1
  <2>2. CASE Rows # {}
    <3>1. Len(History) \in 1..Len(History) /\ Len(History) \in Rows
      BY <1>3, <1>4, <2>2
    <3>2. History[Len(History)].turn = Len(History)
      BY <1>3, <3>1 DEF IInv, MemInv, RowInv
    <3> QED BY <1>5, <2>2, <3>2
  <2> QED BY <2>1, <2>2
<1>7. \A n \in Managers : current'[n] = Len(turns'[n]) /\ 1..Len(turns'[n]) \subseteq Rows'
  BY <1>2, <1>3, <1>5, <1>6 DEF MergeInv
<1>8. \A n \in Managers : DOMAIN turns'[n] = 1..Len(turns'[n])
  BY <1>4, <1>5 DEF IInv, TypeOK
<1>9. \A i \in Rows' : i \in DOMAIN turns'[m] /\ turns'[m][i] = table'[i]
  BY <1>2, <1>3, <1>4, <1>5
<1>10. TableIsMerged'
  BY <1>1, <1>2, <1>7, <1>8, <1>9 DEF TableIsMerged
<1> QED BY <1>7, <1>10 DEF MergeInv

\* A turn that is added takes its number, or finds it taken.
LEMMA AddKeepsMerge ==
    ASSUME IInv, TurnContextAssumption, MergeInv, kind = "orchestrator", failures' = 0,
           NEW m \in Managers, NEW t, Adds(m, t), pc[m] # "off", kind' = kind
    PROVE  MergeInv'
<1> DEFINE l == Len(turns[m])
<1>1. /\ l \in Nat /\ Len(turns'[m]) = l + 1 /\ DOMAIN turns'[m] = 1..(l + 1)
      /\ turns'[m][l + 1] = t /\ \A k \in 1..l : turns'[m][k] = turns[m][k]
      /\ \A n \in Managers \ {m} : turns'[n] = turns[n] /\ current'[n] = current[n]
      /\ current'[m] = t.turn /\ \A n \in Managers : DOMAIN turns[n] = 1..Len(turns[n])
  BY RememberAppends DEF Adds, IInv
<1>2. /\ failures = 0 /\ failures' = failures
      /\ \/ table[t.turn] = NoTurn /\ table' = [table EXCEPT ![t.turn] = t]
         \/ table[t.turn] # NoTurn /\ table' = table
  BY DEF Adds, Insert, IInv, TypeOK
<1>3. /\ \A n \in Managers : current[n] = Len(turns[n]) /\ 1..Len(turns[n]) \subseteq Rows
      /\ \A i \in Rows : 1..i \subseteq Rows
      /\ \A i \in Rows : \E n \in Managers : i \in DOMAIN turns[n] /\ turns[n][i] = table[i]
  BY <1>2 DEF MergeInv, TableIsMerged
<1>4. t.turn = l + 1 /\ t.turn \in 1..MaxTurns /\ t # NoTurn
  <2>1. t.turn = l + 1 /\ current[m] = l /\ current[m] < MaxTurns /\ t.role \in Roles
    BY <1>3 DEF Adds, Remember
  <2>2. t # NoTurn
    BY <2>1 DEF NoTurn, Turn, Roles
  <2> QED BY <1>1, <2>1, <2>2, TurnContextAssumption
<1>5. Rows' = Rows \cup {l + 1} /\ \A i \in Rows : table'[i] = table[i]
  BY <1>2, <1>4 DEF Rows, IInv, TypeOK
<1>6. l + 1 \notin Rows => table'[l + 1] = t
  BY <1>2, <1>4 DEF Rows, IInv, TypeOK
<1>7. 1..(l + 1) \subseteq Rows'
  BY <1>1, <1>3, <1>5
<1>8. \A n \in Managers : current'[n] = Len(turns'[n]) /\ 1..Len(turns'[n]) \subseteq Rows'
  BY <1>1, <1>3, <1>4, <1>5, <1>7
<1>9. \A n \in Managers : DOMAIN turns'[n] = 1..Len(turns'[n])
  BY <1>1
<1>10. \A i \in Rows' : 1..i \subseteq Rows'
  BY <1>3, <1>5, <1>7
<1>11. ASSUME NEW i \in Rows'
       PROVE  \E n \in Managers : i \in DOMAIN turns'[n] /\ turns'[n][i] = table'[i]
  <2>1. CASE i \in Rows
    <3>1. PICK n \in Managers : i \in DOMAIN turns[n] /\ turns[n][i] = table[i]
      BY <1>3, <2>1
    <3>2. i \in DOMAIN turns'[n] /\ turns'[n][i] = turns[n][i]
      BY <1>1, <3>1
    <3> QED BY <1>5, <2>1, <3>1, <3>2
  <2>2. CASE i \notin Rows
    <3>1. i = l + 1 /\ l + 1 \in DOMAIN turns'[m]
      BY <1>1, <1>5, <2>2
    <3> QED BY <1>1, <1>6, <2>2, <3>1
  <2> QED BY <2>1, <2>2
<1>12. TableIsMerged'
  BY <1>8, <1>9, <1>10, <1>11 DEF TableIsMerged
<1> QED BY <1>8, <1>12 DEF MergeInv

\* What changes neither memory nor table keeps the merge, unless a loop starts.
LEMMA QuietKeepsMerge ==
    ASSUME MergeInv, UNCHANGED <<kind, turns, current, table, failures>>,
           \A m \in Managers : pc'[m] # "off" => \E n \in Managers : pc[n] # "off"
    PROVE  MergeInv'
BY DEF MergeInv, TableIsMerged, Rows

\* Every step keeps the merge.
LEMMA MergeNext ==
    ASSUME IInv, TurnContextAssumption, MergeInv, [Next]_vars
    PROVE  MergeInv'
<1> SUFFICES ASSUME kind' = "orchestrator", failures' = 0
             PROVE  MergeInv'
  BY DEF MergeInv
<1>1. kind = "orchestrator" /\ kind' = kind
  BY DEF Next, Start, HearUser, HearChild, Reply, ReplyFails, RunTool, FollowUp, FollowUpFails,
     Restart, vars
<1>2. TypeOK /\ failures \in Nat /\ pc \in [Managers -> Locs]
  BY DEF IInv, TypeOK
<1>3. ASSUME NEW m \in Managers, Start(m) PROVE MergeInv'
  <2>1. table' = table /\ LoadHistory(m) /\ UNCHANGED failures
    BY <1>2, <1>3 DEF Start
  <2> QED BY <1>1, <2>1, LoadKeepsMerge
<1>4. ASSUME NEW m \in Managers, NEW t, Adds(m, t), pc[m] # "off" PROVE MergeInv'
  BY <1>1, <1>4, AddKeepsMerge
<1>5. ASSUME NEW m \in Managers, HearUser(m) PROVE MergeInv'
  BY <1>2, <1>4, <1>5, HearUserAdds DEF HearUser
<1>6. ASSUME NEW m \in Managers, HearChild(m) PROVE MergeInv'
  BY <1>1, <1>6 DEF HearChild
<1>7. ASSUME NEW m \in Managers, NEW n \in 0..MaxCalls, Reply(m, n) PROVE MergeInv'
  <2>1. AddAssistantTurn(m, CallsOf(n)) /\ made' = made + n /\ n \in Nat /\ pc[m] = "ask"
    BY <1>7 DEF Reply, CallsOf
  <2> QED BY <1>2, <1>4, <2>1, AssistantAdds
<1>8. ASSUME NEW m \in Managers, RunTool(m) PROVE MergeInv'
  BY <1>2, <1>4, <1>8, RunToolAdds DEF RunTool
<1>9. ASSUME NEW m \in Managers, NEW n \in 0..MaxCalls, FollowUp(m, n) PROVE MergeInv'
  <2>1. /\ made' = made + n /\ n \in Nat /\ pc[m] = "followup"
        /\ AddAssistantTurn(m, CallsOf(n)) \/ UNCHANGED <<turns, current, table, failures, lost>>
    BY <1>9 DEF FollowUp, CallsOf
  <2>2. CASE AddAssistantTurn(m, CallsOf(n))
    BY <1>2, <1>4, <2>1, <2>2, AssistantAdds
  <2>3. CASE UNCHANGED <<turns, current, table, failures, lost>>
    BY <1>1, <2>1, <2>3, QuietKeepsMerge
  <2> QED BY <2>1, <2>2, <2>3
<1>10. ASSUME NEW m \in Managers, ReplyFails(m) \/ FollowUpFails(m) PROVE MergeInv'
  BY <1>2, <1>10 DEF ReplyFails, FollowUpFails
<1>11. ASSUME Restart PROVE MergeInv'
  <2>1. /\ UNCHANGED <<table, failures>> /\ Rows' = Rows
        /\ \A m \in Managers : turns'[m] = <<>> /\ current'[m] = 0 /\ pc'[m] = "off"
    BY <1>11 DEF Restart, Rows, boundVars
  <2>2. \A i \in Rows : 1..i \subseteq Rows
    BY <1>1, <2>1 DEF MergeInv, TableIsMerged
  <2> QED BY <2>1, <2>2 DEF MergeInv, TableIsMerged
<1>12. CASE UNCHANGED vars
  BY <1>12, QuietKeepsMerge DEF vars, boundVars
<1> QED BY <1>3, <1>5, <1>6, <1>7, <1>8, <1>9, <1>10, <1>11, <1>12 DEF Next

\* Whichever loops of a session collide and however often the process restarts,
\* the table stays a whole conversation, each turn of which a loop has had.
THEOREM TableIsAlwaysMerged == Spec => []TableIsMerged
<1>1. Init => MergeInv
  BY TurnContextAssumption DEF Init, MergeInv, TableIsMerged, Rows
<1>2. IInv /\ MergeInv /\ [Next]_vars => MergeInv'
  BY MergeNext, TurnContextAssumption
<1>3. MergeInv => TableIsMerged
  BY DEF MergeInv, TableIsMerged
<1> QED BY <1>1, <1>2, <1>3, InvInvariant, PTL DEF Spec
=============================================================================
