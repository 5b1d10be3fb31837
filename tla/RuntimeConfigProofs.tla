------------------------- MODULE RuntimeConfigProofs -------------------------
(* Proofs about RuntimeConfig, for every set of admin pages and bots, every    *)
(* file, and any number of saves and starts.                                   *)
EXTENDS RuntimeConfig, TLAPS, SequenceTheorems, FiniteSetTheorems

Table == [bots : SUBSET Tokens, limit : Nat]

-----------------------------------------------------------------------------
(* Configurations.                                                             *)

\* Filling in the defaults changes neither the type nor the bots.
LEMMA DefaultsKept ==
    ASSUME NEW c \in Config
    PROVE  /\ WithDefaults(c) \in Config
           /\ WithDefaults(c).bots = c.bots
BY ConfigAssumption DEF Config, WithDefaults

\* What a valid configuration leaves in the tables has their type.
LEMMA StoredType ==
    ASSUME NEW c \in Config, Valid(c)
    PROVE  Stored(c) \in Table
<1>1. c.bots \in Seq(Tokens \cup {NoToken}) /\ c.limit \in Nat
  BY DEF Config
<1>2. Range(c.bots) \subseteq Tokens \cup {NoToken}
  BY <1>1, RangeOfSeq
<1>3. Range(c.bots) \subseteq Tokens
  BY <1>2 DEF Valid
<1> QED
  BY <1>1, <1>3 DEF Stored, Table

\* The rows of bots, in any order, are a list of bots.
LEMMA RowsType ==
    ASSUME NEW t \in Table, NEW bots \in SetToSeqs(t.bots)
    PROVE  bots \in Seq(Tokens \cup {NoToken})
<1>1. t.bots \subseteq Tokens
  BY DEF Table
<1>2. Cardinality(t.bots) \in Nat
  BY <1>1, FS_Subset, FS_CardinalityType, ConfigAssumption
<1>3. bots \in [1..Cardinality(t.bots) -> t.bots]
  BY DEF SetToSeqs
<1>4. bots \in [1..Cardinality(t.bots) -> Tokens \cup {NoToken}]
  BY <1>1, <1>3
<1> QED
  BY <1>2, <1>4

\* An edited page is still a configuration.
LEMMA EditedType ==
    ASSUME NEW c \in Config, NEW d \in Edited(c)
    PROVE  d \in Config
BY ConfigAssumption DEF Config, Edited

-----------------------------------------------------------------------------
(* The inductive invariant.                                                    *)

\* Nothing invalid is ever being saved, and the server starts with nothing
\* invalid.
ValidInv ==
    /\ phase # "down" => Valid(seed)
    /\ \A w \in Writers : wpc[w] # "idle" => Valid(req[w])

\* The starting server writes while it starts, and the pages while it serves.
PhaseInv ==
    /\ wpc[Boot] # "idle" <=> phase = "sync"
    /\ wpc[Boot] # "assign"
    /\ phase # "serve" => \A a \in Admins : wpc[a] = "idle"
    /\ phase = "sync" => req[Boot] = seed

\* The transaction belongs to the holder of the lock, and holds as much of his
\* configuration as he has written.
TransactionInv ==
    \A w \in Writers :
        /\ wpc[w] \in {"bots", "commit"} => lock = w
        /\ wpc[w] = "bots" => shadow.limit = req[w].limit
        /\ wpc[w] = "commit" => shadow = Stored(req[w])
        /\ wpc[w] \in {"commit", "assign"} => IsInjective(req[w].bots)

\* While nothing diverged, at most one save is between commit and assignment,
\* and it is the one in the tables.
SeedInv ==
    phase = "serve" /\ ~diverged =>
        /\ \A a \in Admins : wpc[a] = "assign" =>
              table = Stored(req[a]) /\ \A b \in Admins : wpc[b] = "assign" => b = a
        /\ (\A a \in Admins : wpc[a] # "assign")
              => Stored(seed) = table /\ IsInjective(seed.bots)

Inv == TypeOK /\ ValidInv /\ PhaseInv /\ TransactionInv /\ SeedInv

\* Nothing is saved, and nothing serves, when the server has not been started.
LEMMA InitInv == Init => Inv
<1>1. FirstRow \in Table
  BY ConfigAssumption DEF FirstRow, Table
<1>2. ASSUME Init
      PROVE  TypeOK
  <2>1. schema \in BOOLEAN /\ diverged \in BOOLEAN
    BY <1>2, Zenon DEF Init
  <2>2. req \in [Writers -> Config] /\ form \in [Admins -> Config]
    BY <1>2, ConfigAssumption DEF Init
  <2> QED
    BY <1>1, <1>2, <2>1, <2>2, ConfigAssumption DEF Init, TypeOK, Table, Writers
<1>3. Init => ValidInv /\ PhaseInv /\ TransactionInv /\ SeedInv
  BY ConfigAssumption DEF Init, ValidInv, PhaseInv, TransactionInv, SeedInv, Writers
<1> QED
  BY <1>2, <1>3 DEF Inv

\* Every step keeps the types: of the records that change, the tables get what
\* a valid configuration leaves, and the pages get configurations.
LEMMA TypeStep == Inv /\ [Next]_vars => TypeOK'
<1> SUFFICES ASSUME Inv, [Next]_vars
             PROVE  TypeOK'
  OBVIOUS
<1> USE ConfigAssumption
<1>0. TypeOK /\ table \in Table /\ shadow \in Table
  BY DEF Inv, TypeOK, Table
<1>1. CASE Load
  BY <1>0, <1>1, DefaultsKept
  DEF Load, TypeOK, database, pages, Table
<1>2. CASE Migrate
  BY <1>0, <1>2
  DEF Migrate, SyncSeed, TypeOK, pages, bounds, Writers
<1>3. CASE Stop
  BY <1>0, <1>3 DEF Stop, TypeOK, bounds, Writers
<1>4. ASSUME NEW w \in Writers, UpsertRow(w)
      PROVE  TypeOK'
  <2>1. shadow' \in Table
    BY <1>0, <1>4 DEF UpsertRow, TypeOK, Config, Table
  <2> QED
    BY <1>0, <1>4, <2>1 DEF UpsertRow, TypeOK, server, pages, bounds, Table
<1>5. ASSUME NEW w \in Writers, ReplaceBots(w)
      PROVE  TypeOK'
  <2>1. req[w] \in Config /\ Valid(req[w])
    BY <1>0, <1>5 DEF ReplaceBots, TypeOK, Inv, ValidInv
  <2>2. Stored(req[w]) \in Table
    BY <2>1, StoredType
  <2>3. shadow' \in Table
    BY <1>0, <1>5, <2>2 DEF ReplaceBots, Stored, Table
  <2> QED
    BY <1>0, <1>5, <2>3 DEF ReplaceBots, TypeOK, server, pages, bounds, Table
<1>6. ASSUME NEW w \in Writers, Commit(w)
      PROVE  TypeOK'
  BY <1>0, <1>6 DEF Commit, TypeOK, pages, bounds, Writers
<1>7. ASSUME NEW w \in Writers, Abort(w)
      PROVE  TypeOK'
  BY <1>0, <1>7 DEF Abort, TypeOK, pages, bounds
<1>8. ASSUME NEW w \in Writers, CommitUnanswered(w)
      PROVE  TypeOK'
  BY <1>0, <1>8 DEF CommitUnanswered, TypeOK, pages, bounds
<1>9. ASSUME NEW a \in Admins, AssignSeed(a)
      PROVE  TypeOK'
  BY <1>0, <1>9 DEF AssignSeed, TypeOK, database, pages, bounds, Writers
<1>10. ASSUME NEW a \in Admins, ReadRow(a)
       PROVE  TypeOK'
  <2>1. form' \in [Admins -> Config]
    BY <1>0, <1>10 DEF ReadRow, TypeOK, Config
  <2> QED
    BY <1>0, <1>10, <2>1 DEF ReadRow, TypeOK, server, database, bounds
<1>11. ASSUME NEW a \in Admins, ReadBots(a)
       PROVE  TypeOK'
  <2>1. PICK bots \in SetToSeqs(table.bots) :
            ShowConfig(a, [form[a] EXCEPT !.bots = bots, !.auth = NoUrl])
    BY <1>11 DEF ReadBots
  <2>2. bots \in Seq(Tokens \cup {NoToken})
    BY <1>0, <2>1, RowsType
  <2>3. [form[a] EXCEPT !.bots = bots, !.auth = NoUrl] \in Config
    BY <1>0, <2>2 DEF TypeOK, Config
  <2>4. form' \in [Admins -> Config]
    BY <1>0, <2>1, <2>3 DEF ShowConfig, TypeOK
  <2> QED
    BY <1>0, <1>11, <2>4 DEF ReadBots, ShowConfig, TypeOK, server, database, bounds
<1>12. ASSUME NEW a \in Admins, SaveConfig(a)
       PROVE  TypeOK'
  <2>1. PICK c \in Edited(form[a]) :
            /\ form' = [form EXCEPT ![a] = c]
            /\ req' = [req EXCEPT ![a] = WithDefaults(c)]
    BY <1>12 DEF SaveConfig
  <2>2. c \in Config /\ WithDefaults(c) \in Config
    BY <1>0, <2>1, EditedType, DefaultsKept DEF TypeOK
  <2>3. form' \in [Admins -> Config] /\ req' \in [Writers -> Config]
    BY <1>0, <2>1, <2>2 DEF TypeOK
  <2> QED
    BY <1>0, <1>12, <2>3 DEF SaveConfig, TypeOK, server, database, Writers
<1>13. CASE UNCHANGED vars
  BY <1>0, <1>13 DEF vars, server, database, pages, bounds, TypeOK
<1> QED
  BY <1>1, <1>2, <1>3, <1>4, <1>5, <1>6, <1>7, <1>8, <1>9, <1>10, <1>11, <1>12, <1>13
  DEF Next

\* What is saved was checked before, and no step changes it while it is saved.
LEMMA ValidStep == Inv /\ [Next]_vars => ValidInv'
<1> SUFFICES ASSUME Inv, [Next]_vars
             PROVE  ValidInv'
  OBVIOUS
<1> USE ConfigAssumption
<1>0. TypeOK /\ ValidInv /\ PhaseInv
  BY DEF Inv
<1>1. CASE Load
  <2>1. Valid(seed')
    BY <1>1, DefaultsKept DEF Load, Valid
  <2> QED
    BY <1>0, <1>1, <2>1 DEF Load, ValidInv, Valid
<1>2. CASE Migrate
  BY <1>0, <1>2 DEF Migrate, SyncSeed, TypeOK, ValidInv, Valid, Writers
<1>3. CASE Stop
  BY <1>0, <1>3 DEF Stop, ValidInv, Valid
<1>4. ASSUME NEW w \in Writers, UpsertRow(w)
      PROVE  ValidInv'
  BY <1>0, <1>4 DEF UpsertRow, TypeOK, ValidInv, Valid, server
<1>5. ASSUME NEW w \in Writers, ReplaceBots(w)
      PROVE  ValidInv'
  BY <1>0, <1>5 DEF ReplaceBots, TypeOK, ValidInv, Valid, server
<1>6. ASSUME NEW w \in Writers, Commit(w)
      PROVE  ValidInv'
  BY <1>0, <1>6 DEF Commit, TypeOK, ValidInv, PhaseInv, Valid
<1>7. ASSUME NEW w \in Writers, Abort(w)
      PROVE  ValidInv'
  BY <1>0, <1>7 DEF Abort, TypeOK, ValidInv, Valid
<1>8. ASSUME NEW w \in Writers, CommitUnanswered(w)
      PROVE  ValidInv'
  BY <1>0, <1>8 DEF CommitUnanswered, TypeOK, ValidInv, Valid
<1>9. ASSUME NEW a \in Admins, AssignSeed(a)
      PROVE  ValidInv'
  BY <1>0, <1>9 DEF AssignSeed, TypeOK, ValidInv, Valid, Writers
<1>10. ASSUME NEW a \in Admins, ReadRow(a) \/ ReadBots(a)
       PROVE  ValidInv'
  BY <1>0, <1>10 DEF ReadRow, ReadBots, ShowConfig, ValidInv, Valid, server
<1>11. ASSUME NEW a \in Admins, SaveConfig(a)
       PROVE  ValidInv'
  <2>1. PICK c \in Edited(form[a]) : Valid(c) /\ req' = [req EXCEPT ![a] = WithDefaults(c)]
    BY <1>11 DEF SaveConfig
  <2>2. Valid(WithDefaults(c))
    BY <1>0, <2>1, EditedType, DefaultsKept DEF TypeOK, Valid
  <2> QED
    BY <1>0, <1>11, <2>1, <2>2 DEF SaveConfig, TypeOK, ValidInv, Valid, server, Writers
<1>12. CASE UNCHANGED vars
  BY <1>0, <1>12 DEF vars, server, ValidInv, Valid
<1> QED
  BY <1>1, <1>2, <1>3, <1>4, <1>5, <1>6, <1>7, <1>8, <1>9, <1>10, <1>11, <1>12
  DEF Next

\* The starting server saves in one phase, the pages in another.
LEMMA PhaseStep == Inv /\ [Next]_vars => PhaseInv'
<1> SUFFICES ASSUME Inv, [Next]_vars
             PROVE  PhaseInv'
  OBVIOUS
<1> USE ConfigAssumption DEF PhaseInv
<1>0. TypeOK /\ PhaseInv
  BY DEF Inv
<1>1. CASE Load
  BY <1>0, <1>1 DEF Load
<1>2. CASE Migrate
  BY <1>0, <1>2 DEF Migrate, SyncSeed, TypeOK, Writers
<1>3. CASE Stop
  BY <1>0, <1>3 DEF Stop, Writers
<1>4. ASSUME NEW w \in Writers, UpsertRow(w) \/ ReplaceBots(w)
      PROVE  PhaseInv'
  BY <1>0, <1>4 DEF UpsertRow, ReplaceBots, TypeOK, Writers, server
<1>5. ASSUME NEW w \in Writers, Commit(w) \/ Abort(w) \/ CommitUnanswered(w)
      PROVE  PhaseInv'
  BY <1>0, <1>5 DEF Commit, Abort, CommitUnanswered, TypeOK, Writers
<1>6. ASSUME NEW a \in Admins, AssignSeed(a) \/ SaveConfig(a)
      PROVE  PhaseInv'
  BY <1>0, <1>6 DEF AssignSeed, SaveConfig, Authorized, TypeOK, Writers, server
<1>7. ASSUME NEW a \in Admins, ReadRow(a) \/ ReadBots(a)
      PROVE  PhaseInv'
  BY <1>0, <1>7 DEF ReadRow, ReadBots, server
<1>8. CASE UNCHANGED vars
  BY <1>0, <1>8 DEF vars, server
<1> QED
  BY <1>1, <1>2, <1>3, <1>4, <1>5, <1>6, <1>7, <1>8 DEF Next

\* The transaction changes only in the hands of the holder of the lock.
LEMMA TransactionStep == Inv /\ [Next]_vars => TransactionInv'
<1> SUFFICES ASSUME Inv, [Next]_vars
             PROVE  TransactionInv'
  OBVIOUS
<1> USE ConfigAssumption DEF TransactionInv
<1>0. TypeOK /\ PhaseInv /\ TransactionInv /\ shadow \in Table
  BY DEF Inv, TypeOK, Table
<1>1. CASE Load
  BY <1>0, <1>1 DEF Load, database, Stored
<1>2. CASE Migrate
  BY <1>0, <1>2 DEF Migrate, SyncSeed, TypeOK, Writers, Stored
<1>3. CASE Stop
  BY <1>0, <1>3 DEF Stop
<1>4. ASSUME NEW w \in Writers, UpsertRow(w)
      PROVE  TransactionInv'
  BY <1>0, <1>4 DEF UpsertRow, TypeOK, Stored, Writers
<1>5. ASSUME NEW w \in Writers, ReplaceBots(w)
      PROVE  TransactionInv'
  BY <1>0, <1>5 DEF ReplaceBots, TypeOK, Stored, Table
<1>6. ASSUME NEW w \in Writers, Commit(w) \/ Abort(w) \/ CommitUnanswered(w)
      PROVE  TransactionInv'
  BY <1>0, <1>6 DEF Commit, Abort, CommitUnanswered, TypeOK, Stored
<1>7. ASSUME NEW a \in Admins, AssignSeed(a)
      PROVE  TransactionInv'
  BY <1>0, <1>7 DEF AssignSeed, TypeOK, Stored, database, Writers
<1>8. ASSUME NEW a \in Admins, SaveConfig(a)
      PROVE  TransactionInv'
  BY <1>0, <1>8 DEF SaveConfig, TypeOK, Stored, database, Writers
<1>9. ASSUME NEW a \in Admins, ReadRow(a) \/ ReadBots(a)
      PROVE  TransactionInv'
  BY <1>0, <1>9 DEF ReadRow, ReadBots, database, Stored
<1>10. CASE UNCHANGED vars
  BY <1>0, <1>10 DEF vars, database, Stored
<1> QED
  BY <1>1, <1>2, <1>3, <1>4, <1>5, <1>6, <1>7, <1>8, <1>9, <1>10 DEF Next

\* Between the commit and the assignment of a save nothing else is assigned,
\* or the run is excepted.
LEMMA SeedStep == Inv /\ [Next]_vars => SeedInv'
<1> SUFFICES ASSUME Inv, [Next]_vars
             PROVE  SeedInv'
  OBVIOUS
<1> USE ConfigAssumption DEF SeedInv
<1>0. TypeOK /\ PhaseInv /\ TransactionInv /\ SeedInv
  BY DEF Inv
<1>1. CASE Load
  BY <1>0, <1>1 DEF Load
<1>2. CASE Migrate
  BY <1>0, <1>2 DEF Migrate
<1>3. CASE Stop
  BY <1>0, <1>3 DEF Stop
<1>4. ASSUME NEW w \in Writers, UpsertRow(w) \/ ReplaceBots(w)
      PROVE  SeedInv'
  BY <1>0, <1>4 DEF UpsertRow, ReplaceBots, TypeOK, Writers, Stored, server
<1>5. ASSUME NEW w \in Writers, Commit(w)
      PROVE  SeedInv'
  <2>1. table' = Stored(req[w]) /\ IsInjective(req[w].bots)
    BY <1>0, <1>5 DEF Commit, TransactionInv
  <2>2. CASE w = Boot
    <3>1. req[w] = seed /\ \A a \in Admins : wpc'[a] # "assign"
      BY <1>0, <1>5, <2>2 DEF Commit, PhaseInv, TypeOK, Writers
    <3> QED
      BY <1>5, <2>1, <3>1 DEF Commit, Stored
  <2>3. CASE w # Boot
    <3>1. ~diverged' => \A b \in Admins : wpc'[b] = "assign" <=> b = w
      BY <1>0, <1>5, <2>3 DEF Commit, TypeOK, Writers
    <3> QED
      BY <1>5, <2>1, <2>3, <3>1 DEF Commit, Stored, Writers
  <2> QED
    BY <2>2, <2>3
<1>6. ASSUME NEW w \in Writers, Abort(w)
      PROVE  SeedInv'
  BY <1>0, <1>6 DEF Abort, TypeOK, Writers, Stored
<1>7. ASSUME NEW w \in Writers, CommitUnanswered(w)
      PROVE  SeedInv'
  BY <1>0, <1>7 DEF CommitUnanswered
<1>8. ASSUME NEW a \in Admins, AssignSeed(a)
      PROVE  SeedInv'
  BY <1>0, <1>8 DEF AssignSeed, TypeOK, TransactionInv, Stored, database, Writers
<1>9. ASSUME NEW a \in Admins, SaveConfig(a)
      PROVE  SeedInv'
  BY <1>0, <1>9 DEF SaveConfig, TypeOK, Stored, server, database, Writers
<1>10. ASSUME NEW a \in Admins, ReadRow(a) \/ ReadBots(a)
       PROVE  SeedInv'
  BY <1>0, <1>10 DEF ReadRow, ReadBots, Stored, server, database
<1>11. CASE UNCHANGED vars
  BY <1>0, <1>11 DEF vars, server, database, Stored
<1> QED
  BY <1>1, <1>2, <1>3, <1>4, <1>5, <1>6, <1>7, <1>8, <1>9, <1>10, <1>11 DEF Next

\* The invariant holds in every reachable state: each part is kept by every step.
THEOREM InvCorrect == Spec => []Inv
<1>1. Inv /\ [Next]_vars => Inv'
  BY TypeStep, ValidStep, PhaseStep, TransactionStep, SeedStep DEF Inv
<1> QED
  BY InitInv, <1>1, PTL DEF Spec

-----------------------------------------------------------------------------
(* What the runs check, for every instance.                                    *)

\* Every variable keeps its type, and the services use the configuration in the
\* tables, whose bots differ.
THEOREM ConfigCorrect == Spec => []ConfigIsSound
<1>1. Inv => ConfigIsSound
  BY DEF Inv, SeedInv, SeedIsStored, ConfigIsSound
<1> QED
  BY InvCorrect, <1>1, PTL

\* The tables always hold one whole saved configuration: only a commit changes
\* them, and its transaction holds all of its writer's configuration.
THEOREM TableCorrect == Spec => TableIsOneSave
<1>1. ASSUME Inv, [Next]_vars, table' # table
      PROVE  \E w \in Writers : table' = Stored(req[w])
  <2>1. PICK w \in Writers : Commit(w) \/ CommitUnanswered(w)
    BY <1>1 DEF Next, Load, Migrate, Stop, UpsertRow, ReplaceBots, Abort, AssignSeed,
                ReadRow, ReadBots, SaveConfig, vars, database
  <2>2. wpc[w] = "commit" /\ table' = shadow
    BY <2>1 DEF Commit, CommitUnanswered
  <2> QED
    BY <1>1, <2>2 DEF Inv, TransactionInv
<1>2. Inv /\ [Next]_vars
        => [table' # table => \E w \in Writers : table' = Stored(req[w])]_vars
  BY <1>1
<1> QED
  BY InvCorrect, <1>2, PTL DEF Spec, TableIsOneSave
=============================================================================
