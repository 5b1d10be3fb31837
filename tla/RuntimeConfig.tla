---------------------------- MODULE RuntimeConfig ----------------------------
(* The runtime configuration: the file the server starts from, the tables     *)
(* that store it, the object in memory every service points to, and the admin *)
(* pages that read and write it.                                               *)
(*                                                                             *)
(* A configuration keeps what its readers tell apart: the list of bots, by     *)
(* their tokens, one number Validate gives a default to, and the address of    *)
(* the login service.  The other fields, the providers among them, are copied  *)
(* as the number is.                                                           *)
EXTENDS Naturals, FiniteSets, SequencesExt

CONSTANTS
    Admins,        \* admin pages open in browsers
    Boot,          \* the writer that is the starting server itself
    NoWriter,
    Tokens,
    NoToken,       \* an empty bot token
    LoginUrl,
    NoUrl,
    File,          \* the configuration in catgirl.conf
    BotLists,      \* the lists of bots an admin may type
    Limits,        \* the numbers an admin may type
    DefaultLimit,
    MaxSaves,      \* bound on PUT requests
    MaxStarts      \* bound on starts of the server

Writers == Admins \cup {Boot}

Config == [bots : Seq(Tokens \cup {NoToken}), limit : Nat, auth : {LoginUrl, NoUrl}]

ASSUME ConfigAssumption == /\ File \in Config
                           /\ IsFiniteSet(Tokens)
                           /\ BotLists \subseteq Seq(Tokens \cup {NoToken})
                           /\ Limits \subseteq Nat /\ DefaultLimit \in Nat \ {0}
                           /\ Boot \notin Admins /\ NoWriter \notin Writers
                           /\ NoToken \notin Tokens /\ NoUrl # LoginUrl
                           /\ MaxSaves \in Nat /\ MaxStarts \in Nat

VARIABLES
    phase,         \* what the server is doing
    schema,        \* the tables exist
    table,         \* committed contents of system_config and telegram_bots
    shadow,        \* contents as the open transaction sees them
    lock,          \* holder of the lock on the row of system_config
    seed,          \* config.RuntimeSeed
    wpc,           \* place of each writer in UpdateConfig, UpdateRuntimeConfig
    req,           \* the configuration each writer saves
    form,          \* what each admin page shows
    fpc,           \* place of each page in GetConfig
    diverged,      \* observer: two saves overlapped, or a commit's answer was lost
    saves, starts

server == <<phase, seed>>
database == <<schema, table, shadow, lock>>
pages == <<form, fpc>>
bounds == <<saves, starts>>
vars == <<server, database, pages, wpc, req, diverged, bounds>>

-----------------------------------------------------------------------------
(* Checks and conversions.                                                     *)

(* RuntimeConfig.Validate: every bot has a token.  Two bots may have the same. *)
Valid(c) == NoToken \notin Range(c.bots)

(* What Validate fills in.                                                     *)
WithDefaults(c) == [c EXCEPT !.limit = IF @ = 0 THEN DefaultLimit ELSE @]

(* What the tables keep of a configuration: a set of rows of bots, and nothing *)
(* of the login service.                                                       *)
Stored(c) == [bots |-> Range(c.bots), limit |-> c.limit]

(* The row that schema.sql inserts, with the defaults of its columns.          *)
FirstRow == [bots |-> {}, limit |-> DefaultLimit]

(* ValidateToken gives up when no login service is configured; what the login  *)
(* service says of an admin is that he is one.                                 *)
LoginConfigured == seed.auth # NoUrl

(* authMiddleware: the server serves, and the request of an admin, who has a   *)
(* token, goes on to its handler.                                              *)
Authorized == phase = "serve" /\ LoginConfigured

TypeOK ==
    /\ phase \in {"down", "migrate", "sync", "serve"}
    /\ schema \in BOOLEAN /\ diverged \in BOOLEAN
    /\ table \in [bots : SUBSET Tokens, limit : Nat]
    /\ shadow \in [bots : SUBSET Tokens, limit : Nat]
    /\ lock \in Writers \cup {NoWriter}
    /\ seed \in Config
    /\ wpc \in [Writers -> {"idle", "upsert", "bots", "commit", "assign"}]
    /\ req \in [Writers -> Config]
    /\ form \in [Admins -> Config]
    /\ fpc \in [Admins -> {"none", "reading", "open"}]
    /\ saves \in 0..MaxSaves /\ starts \in 0..MaxStarts

Init ==
    /\ phase = "down" /\ seed = File
    /\ schema = FALSE /\ table = FirstRow /\ shadow = FirstRow /\ lock = NoWriter
    /\ wpc = [w \in Writers |-> "idle"] /\ req = [w \in Writers |-> File]
    /\ form = [a \in Admins |-> File] /\ fpc = [a \in Admins |-> "none"]
    /\ diverged = FALSE /\ saves = 0 /\ starts = 0

-----------------------------------------------------------------------------
(* The start of the server.                                                    *)

(* config.Load: read the file, check it, fill in the defaults.                 *)
Load ==
    /\ phase = "down" /\ starts < MaxStarts
    /\ Valid(File)
    /\ phase' = "migrate" /\ seed' = WithDefaults(File)
    /\ starts' = starts + 1
    /\ UNCHANGED <<database, pages, wpc, req, diverged, saves>>

(* loadOrSeedRuntimeConfig: whatever the tables hold, the file is written over *)
(* it.                                                                         *)
SyncSeed ==
    /\ wpc' = [wpc EXCEPT ![Boot] = "upsert"]
    /\ req' = [req EXCEPT ![Boot] = seed]

(* MigrationRunner.Run: schema.sql and the row that records it are one         *)
(* transaction, done once.  When it fails the start goes on.                   *)
Migrate ==
    /\ phase = "migrate"
    /\ \E applied \in {schema, TRUE} : schema' = applied
    /\ phase' = "sync"
    /\ SyncSeed
    /\ UNCHANGED <<seed, table, shadow, lock, pages, diverged, bounds>>

-----------------------------------------------------------------------------
(* UpdateRuntimeConfig: one transaction of several statements.                 *)

(* Mutant: the first statement runs on the pool, not on the transaction.       *)
UpsertRowAlone(w) ==
    /\ wpc[w] = "upsert" /\ lock = NoWriter /\ schema
    /\ lock' = w
    /\ shadow' = [table EXCEPT !.limit = req[w].limit]
    /\ table' = shadow'
    /\ wpc' = [wpc EXCEPT ![w] = "bots"]
    /\ UNCHANGED <<server, schema, req, pages, diverged, bounds>>

(* The upsert of the single row locks it until the transaction ends.           *)
UpsertRow(w) ==
    /\ wpc[w] = "upsert" /\ lock = NoWriter /\ schema
    /\ lock' = w
    /\ shadow' = [table EXCEPT !.limit = req[w].limit]
    /\ wpc' = [wpc EXCEPT ![w] = "bots"]
    /\ UNCHANGED <<server, schema, table, req, pages, diverged, bounds>>

(* Delete every bot, insert those of the configuration: the token is the       *)
(* primary key of the table.                                                   *)
ReplaceBots(w) ==
    /\ wpc[w] = "bots"
    /\ IsInjective(req[w].bots)
    /\ shadow' = [shadow EXCEPT !.bots = Range(req[w].bots)]
    /\ wpc' = [wpc EXCEPT ![w] = "commit"]
    /\ UNCHANGED <<server, schema, table, lock, req, pages, diverged, bounds>>

(* The providers are replaced as the bots are, and the commit; the start then  *)
(* goes on to the services and the HTTP servers.                               *)
Commit(w) ==
    /\ wpc[w] = "commit"
    /\ table' = shadow /\ lock' = NoWriter
    /\ wpc' = [wpc EXCEPT ![w] = IF w = Boot THEN "idle" ELSE "assign"]
    /\ phase' = IF w = Boot THEN "serve" ELSE phase
    /\ diverged' = (w # Boot /\ (diverged \/ \E a \in Admins : wpc[a] = "assign"))
    /\ UNCHANGED <<seed, schema, shadow, req, pages, bounds>>

(* Mutant: the handler does not return when UpdateRuntimeConfig fails.         *)
AbortGoesOn(w) ==
    /\ wpc[w] \in {"upsert", "bots", "commit"}
    /\ lock' = IF lock = w THEN NoWriter ELSE lock
    /\ wpc' = [wpc EXCEPT ![w] = IF w = Boot THEN "idle" ELSE "assign"]
    /\ phase' = IF w = Boot THEN "down" ELSE phase
    /\ UNCHANGED <<seed, schema, table, shadow, req, pages, diverged, bounds>>

(* A statement fails, as the insert of a second bot with the same token does,  *)
(* or the request is cancelled: rollback, and an answer with an error.  The    *)
(* server does not start without its configuration in the tables.              *)
Abort(w) ==
    /\ wpc[w] \in {"upsert", "bots", "commit"}
    /\ lock' = IF lock = w THEN NoWriter ELSE lock
    /\ wpc' = [wpc EXCEPT ![w] = "idle"]
    /\ phase' = IF w = Boot THEN "down" ELSE phase
    /\ UNCHANGED <<seed, schema, table, shadow, req, pages, diverged, bounds>>

(* The commit is done and its answer lost: to the code it failed.              *)
CommitUnanswered(w) ==
    /\ wpc[w] = "commit"
    /\ table' = shadow /\ lock' = NoWriter
    /\ wpc' = [wpc EXCEPT ![w] = "idle"]
    /\ phase' = IF w = Boot THEN "down" ELSE phase
    /\ diverged' = TRUE
    /\ UNCHANGED <<seed, schema, shadow, req, pages, bounds>>

(* The end of the handler: config.RuntimeSeed = newConfig, under every service *)
(* that points to it.                                                          *)
AssignSeed(a) ==
    /\ wpc[a] = "assign"
    /\ seed' = req[a]
    /\ wpc' = [wpc EXCEPT ![a] = "idle"]
    /\ UNCHANGED <<phase, database, req, pages, diverged, bounds>>

-----------------------------------------------------------------------------
(* The admin page.                                                             *)

(* GetRuntimeConfig, first statement: the row.                                 *)
ReadRow(a) ==
    /\ Authorized
    /\ fpc[a] # "reading" /\ wpc[a] = "idle"
    /\ form' = [form EXCEPT ![a].limit = table.limit]
    /\ fpc' = [fpc EXCEPT ![a] = "reading"]
    /\ UNCHANGED <<server, database, wpc, req, diverged, bounds>>

(* GetConfig answers, and the page shows what it got.                          *)
ShowConfig(a, c) == form' = [form EXCEPT ![a] = c] /\ fpc' = [fpc EXCEPT ![a] = "open"]

(* The other statements, outside of any transaction: the bots, in whatever     *)
(* order the table yields them, and an empty AuthConfig.                       *)
ReadBots(a) ==
    /\ phase = "serve" /\ fpc[a] = "reading"
    /\ \E bots \in SetToSeqs(table.bots) :
          ShowConfig(a, [form[a] EXCEPT !.bots = bots, !.auth = NoUrl])
    /\ UNCHANGED <<server, database, wpc, req, diverged, bounds>>

(* An admin edits the page.                                                    *)
Edited(c) == [bots : BotLists \cup {c.bots}, limit : Limits \cup {c.limit}, auth : {c.auth}]

(* saveConfig and the start of UpdateConfig: authMiddleware, ShouldBindJSON,   *)
(* Validate.  The page keeps what was typed.                                   *)
SaveConfig(a) ==
    /\ Authorized
    /\ fpc[a] = "open" /\ wpc[a] = "idle" /\ saves < MaxSaves
    /\ \E c \in Edited(form[a]) :
          /\ Valid(c)
          /\ form' = [form EXCEPT ![a] = c]
          /\ req' = [req EXCEPT ![a] = WithDefaults(c)]
    /\ wpc' = [wpc EXCEPT ![a] = "upsert"]
    /\ saves' = saves + 1
    /\ UNCHANGED <<server, database, fpc, diverged, starts>>

(* The server ends, by a signal or a crash: its requests end with it, and the  *)
(* database rolls its transaction back.  A page being read goes to the login.  *)
Stop ==
    /\ phase # "down"
    /\ phase' = "down"
    /\ lock' = NoWriter
    /\ wpc' = [w \in Writers |-> "idle"]
    /\ fpc' = [a \in Admins |-> IF fpc[a] = "reading" THEN "none" ELSE fpc[a]]
    /\ UNCHANGED <<seed, schema, table, shadow, form, req, diverged, bounds>>

Next ==
    \/ Load \/ Migrate \/ Stop
    \/ \E w \in Writers : \/ UpsertRow(w) \/ ReplaceBots(w) \/ Commit(w)
                          \/ Abort(w) \/ CommitUnanswered(w)
    \/ \E a \in Admins : AssignSeed(a) \/ ReadRow(a) \/ ReadBots(a) \/ SaveConfig(a)

Spec == Init /\ [][Next]_vars

-----------------------------------------------------------------------------
(* Properties.                                                                 *)

(* What the tables hold is always one whole configuration that somebody saved: *)
(* neither a failing statement nor two saves at once nor the end of the server *)
(* in the middle of UpdateRuntimeConfig leaves the number of one configuration *)
(* with the bots of another.                                                   *)
TableIsOneSave == [][table' # table => \E w \in Writers : table' = Stored(req[w])]_vars

(* While the server serves and no save is between its commit and its           *)
(* assignment, the configuration the services use is the one in the tables,    *)
(* and no two bots have the same token: the handler assigns only what the      *)
(* database took.  Two overlapping saves may assign in the other order, and a  *)
(* commit whose answer is lost is not assigned: both are excepted.             *)
SeedIsStored ==
    phase = "serve" /\ ~diverged /\ (\A a \in Admins : wpc[a] # "assign")
        => Stored(seed) = table /\ IsInjective(seed.bots)

(* What is configured is sound: it has its type, and is used as it is stored.  *)
ConfigIsSound == TypeOK /\ SeedIsStored

(* "auth is via mtfpass URL from config file" (repository.go:194): while the   *)
(* server serves, the login service is the one of the file.                    *)
AuthIsFromFile == phase = "serve" => seed.auth = File.auth
=============================================================================
