----------------------------- MODULE StoreFile -----------------------------
(***************************************************************************)
(* The SQLite file under backend/services/persistence.py: how a start-up   *)
(* opens, migrates or quarantines it (initialize, _ensure_schema,          *)
(* _migrate, _recover_corrupt_database), what a short-lived connection     *)
(* leaves in the file and what it leaves in the write-ahead log beside it, *)
(* and what a kill at any of these points costs.                           *)
(*                                                                         *)
(* A commit is in the log first.  The last connection to close copies the  *)
(* log into the file and deletes it; a kill leaves it, and the next        *)
(* connection reads it again.  The statements of the migration are DDL,    *)
(* which the driver commits one by one, so a kill may fall between any two.*)
(*                                                                         *)
(* sqlite3.OperationalError (a file locked for longer than busy_timeout, a *)
(* disk that answers with an error) is a DatabaseError like that of a file *)
(* which is no database; `trouble` is that kind.                           *)
(***************************************************************************)
EXTENDS Integers, FiniteSets

CONSTANTS
  Cids,        \* conversation ids
  Labels,      \* bound: what tells the exchanges of a conversation apart
  MaxStops,    \* bound: how often the process ends
  MaxTrouble   \* bound: DatabaseErrors from a file that is whole

ASSUME StoreFileAssumption ==
  MaxStops \in Nat /\ MaxTrouble \in Nat

SCHEMA_VERSION == 2

Exchanges == Cids \X Labels
Of(C, S) == {x \in S : x[1] \in C}

\* What distinguishes the files an initialize may find.
Schemas == [tables : BOOLEAN,       \* the tables of _SCHEMA exist
            incomplete : BOOLEAN,   \* messages has its column of that name
            legacy : BOOLEAN,       \* semantic_cache exists
            version : 0..SCHEMA_VERSION]
NewFile == [tables |-> FALSE, incomplete |-> FALSE, legacy |-> FALSE, version |-> 0]
Current == [tables |-> TRUE, incomplete |-> TRUE, legacy |-> FALSE,
            version |-> SCHEMA_VERSION]

\* Where the process stands.  "connect" to "version" are the statements of one
\* attempt of initialize, "booting" is what start-up does after it.
Opening == {"connect", "script", "legacy", "column", "version"}
Stages == Opening \cup {"down", "recover", "booting", "up"}

\* Connections that write no exchange: that of initialize, and a reader's.
Others == {"boot", "reader"}

VARIABLES
  proc,      \* where the process stands
  attempt,   \* 1 or 2: initialize tries again after a quarantine
  ready,     \* _schema_ready
  schema,    \* of the file at db_path
  whole,     \* the file at db_path is a database
  db,        \* exchanges a connection reads
  file,      \* those the file holds without its log
  aside,     \* those of the files quarantined so far
  writers,   \* exchanges whose connection is open
  others,    \* the other connections that are open
  told,      \* history: exchanges whose write record_turn has confirmed
  unclean,   \* history: the process ended once with a connection open
  stops, trouble

bootVars == <<proc, attempt, ready>>
pathVars == <<schema, whole>>
dataVars == <<db, file, aside>>
connVars == <<writers, others>>
faultVars == <<unclean, stops, trouble>>
storeVars == <<bootVars, pathVars, dataVars, connVars, told, faultVars>>

StoreInit ==
  /\ proc = "down" /\ attempt = 1 /\ ready = FALSE
  /\ schema = NewFile /\ whole = TRUE
  /\ db = {} /\ file = {} /\ aside = {}
  /\ writers = {} /\ others = {} /\ told = {}
  /\ unclean = FALSE /\ stops = 0 /\ trouble = 0

-----------------------------------------------------------------------------
(* Connections *)

\* The last one to close copies the log into the file.
close(W, K) ==
  /\ writers' = writers \ W
  /\ others' = others \ K
  /\ file' = IF writers' = {} /\ others' = {} THEN db ELSE file

\* A connection on a thread that fails to do its work.
in_trouble ==
  /\ trouble < MaxTrouble
  /\ trouble' = trouble + 1

-----------------------------------------------------------------------------
(* What happens to the file while nothing runs *)

\* A release of before the removal of semantic_cache ran in between and created
\* its table again; it left the version and the column alone.
older_release ==
  /\ proc = "down" /\ schema.tables
  /\ schema' = [schema EXCEPT !.legacy = TRUE]
  /\ UNCHANGED <<bootVars, whole, dataVars, connVars, told, faultVars>>

\* The file was restored from a backup of version 1, or lost a table by hand:
\* the number it carries need not be true.
restored ==
  /\ proc = "down" /\ schema.tables
  /\ schema' = [schema EXCEPT !.incomplete = FALSE, !.legacy = TRUE]
  /\ UNCHANGED <<bootVars, whole, dataVars, connVars, told, faultVars>>

\* Something else than SQLite wrote to the file.
decays ==
  /\ proc = "down" /\ whole
  /\ whole' = FALSE
  /\ UNCHANGED <<bootVars, schema, dataVars, connVars, told, faultVars>>

-----------------------------------------------------------------------------
(* initialize *)

start ==
  /\ proc = "down"
  /\ proc' = "connect" /\ attempt' = 1 /\ ready' = FALSE
  /\ UNCHANGED <<pathVars, dataVars, connVars, told, faultVars>>

\* _connect and its pragmas, which a file that is no database refuses.
connect ==
  /\ proc = "connect" /\ whole
  /\ proc' = "script"
  /\ others' = others \cup {"boot"}
  /\ UNCHANGED <<attempt, ready, pathVars, dataVars, writers, told, faultVars>>

\* CREATE TABLE IF NOT EXISTS leaves a table as it is, whatever its columns.
run_script ==
  /\ proc = "script"
  /\ proc' = "legacy"
  /\ schema' = IF schema.tables THEN schema
               ELSE [schema EXCEPT !.tables = TRUE, !.incomplete = TRUE]
  /\ UNCHANGED <<attempt, ready, whole, dataVars, connVars, told, faultVars>>

\* Mutant: the recorded version is trusted, and its steps are skipped.
drop_legacy_byVersion ==
  /\ proc = "legacy"
  /\ proc' = "column"
  /\ schema' = [schema EXCEPT !.legacy = @ /\ schema.version = SCHEMA_VERSION]
  /\ UNCHANGED <<attempt, ready, whole, dataVars, connVars, told, faultVars>>

drop_legacy ==
  /\ proc = "legacy"
  /\ proc' = "column"
  /\ schema' = [schema EXCEPT !.legacy = FALSE]
  /\ UNCHANGED <<attempt, ready, whole, dataVars, connVars, told, faultVars>>

add_incomplete ==
  /\ proc = "column"
  /\ proc' = "version"
  /\ schema' = [schema EXCEPT !.incomplete = TRUE]
  /\ UNCHANGED <<attempt, ready, whole, dataVars, connVars, told, faultVars>>

\* Mutant: every start-up adds to the number it finds.
set_version_counts ==
  /\ proc = "version"
  /\ proc' = "booting" /\ ready' = TRUE
  /\ schema' = [schema EXCEPT !.version = @ + SCHEMA_VERSION]
  /\ close({}, {"boot"})
  /\ attempt' = 1
  /\ UNCHANGED <<whole, db, aside, told, faultVars>>

\* PRAGMA user_version, commit, _schema_ready, and the close of the connection.
set_version ==
  /\ proc = "version"
  /\ proc' = "booting" /\ ready' = TRUE
  /\ schema' = [schema EXCEPT !.version = SCHEMA_VERSION]
  /\ close({}, {"boot"})
  /\ attempt' = 1
  /\ UNCHANGED <<whole, db, aside, told, faultVars>>

\* A DatabaseError anywhere in an attempt.  The first one is taken for
\* corruption, the second is logged.  Whether the close of a connection in
\* trouble still copies the log is SQLite's business.
fail ==
  /\ proc \in Opening
  /\ proc' = IF attempt = 1 THEN "recover" ELSE "booting"
  /\ attempt' = 1
  /\ \/ ~whole /\ UNCHANGED trouble
     \/ in_trouble
  /\ \/ whole /\ close({}, {"boot"})
     \/ others' = others \ {"boot"} /\ UNCHANGED <<writers, file>>
  /\ UNCHANGED <<ready, pathVars, db, aside, told, unclean, stops>>

\* The parent directory cannot be made, or another error that is none of
\* SQLite's: the store is left as it is.
fail_otherwise ==
  /\ proc = "connect" /\ attempt = 1 /\ in_trouble
  /\ proc' = "booting"
  /\ UNCHANGED <<attempt, ready, pathVars, dataVars, connVars, told, unclean, stops>>

\* Mutant: the file is deleted, where it should be moved.
recover_deletes ==
  /\ proc = "recover"
  /\ proc' = "connect" /\ attempt' = 2
  /\ schema' = NewFile /\ whole' = TRUE
  /\ db' = {} /\ file' = {}
  /\ UNCHANGED <<ready, aside, connVars, told, faultVars>>

\* os.replace, then the unlink of -wal and -shm: what only the log held is gone.
\* A replace that fails leaves all three where they are.
recover ==
  /\ proc = "recover"
  /\ proc' = "connect" /\ attempt' = 2
  /\ \/ /\ aside' = aside \cup file
        /\ schema' = NewFile /\ whole' = TRUE
        /\ db' = {} /\ file' = {}
        /\ UNCHANGED trouble
     \/ /\ in_trouble
        /\ UNCHANGED <<pathVars, dataVars>>
  /\ UNCHANGED <<ready, connVars, told, unclean, stops>>

\* The rest of start-up is over: requests are served.
serve ==
  /\ proc = "booting"
  /\ proc' = "up"
  /\ UNCHANGED <<attempt, ready, pathVars, dataVars, connVars, told, faultVars>>

-----------------------------------------------------------------------------
(* Operations of a process that serves.  Each opens its own connection, and  *)
(* applies the schema first if initialize could not.                         *)

usable == proc = "up" /\ whole
ensure_schema ==
  /\ ready' = TRUE
  /\ schema' = IF ready THEN schema ELSE Current

\* record_turn up to its COMMIT.
commit(x) ==
  /\ usable /\ x \notin db \cup file \cup aside \cup told \cup writers
  /\ ensure_schema
  /\ writers' = writers \cup {x}
  /\ db' = db \cup {x}
  /\ UNCHANGED <<proc, attempt, whole, file, aside, others, told, faultVars>>

\* con.close(), and record_turn returns the number it committed.
finish(x) ==
  /\ proc = "up" /\ x \in writers
  /\ close({x}, {})
  /\ told' = told \cup ({x} \cap db)
  /\ UNCHANGED <<bootVars, pathVars, db, aside, faultVars>>

\* Rows deleted by evict_conversation or prune_conversations, open to close.
\* The copy in a quarantined file stays; nothing speaks of it any more.
erase(C) ==
  /\ usable
  /\ ensure_schema
  /\ db' = db \ Of(C, db)
  /\ told' = told \ Of(C, told)
  /\ file' = IF writers = {} /\ others = {} THEN db' ELSE file
  /\ UNCHANGED <<proc, attempt, whole, aside, connVars, faultVars>>

\* health() or load_conversation beside them: it delays the copy of the log.
open_reader ==
  /\ usable /\ "reader" \notin others
  /\ others' = others \cup {"reader"}
  /\ UNCHANGED <<bootVars, pathVars, dataVars, writers, told, faultVars>>

close_reader ==
  /\ proc = "up" /\ "reader" \in others
  /\ close({}, {"reader"})
  /\ UNCHANGED <<bootVars, pathVars, db, aside, told, faultVars>>

\* The process ends, at any point; the log of what was open stays on disk.
stop ==
  /\ proc # "down" /\ stops < MaxStops
  /\ proc' = "down" /\ stops' = stops + 1
  /\ writers' = {} /\ others' = {} /\ ready' = FALSE /\ attempt' = 1
  /\ unclean' = (unclean \/ writers # {} \/ others # {})
  /\ UNCHANGED <<pathVars, dataVars, told, trouble>>

\* The statements of start-up, which change nothing but the store.
Initialize ==
  \/ start \/ connect \/ run_script \/ drop_legacy \/ add_incomplete \/ set_version
  \/ fail \/ fail_otherwise \/ recover

Environment == older_release \/ restored \/ decays

StoreNext ==
  \/ Initialize \/ Environment \/ serve \/ stop
  \/ \E x \in Exchanges : commit(x) \/ finish(x)
  \/ \E C \in SUBSET Cids : erase(C)
  \/ open_reader \/ close_reader

StoreSpec == StoreInit /\ [][StoreNext]_storeVars

-----------------------------------------------------------------------------
(* Properties *)

StoreTypeOK ==
  /\ proc \in Stages /\ attempt \in 1..2 /\ ready \in BOOLEAN
  /\ schema \in Schemas /\ whole \in BOOLEAN
  /\ db \subseteq Exchanges /\ file \subseteq Exchanges /\ aside \subseteq Exchanges
  /\ writers \subseteq Exchanges /\ others \subseteq Others
  /\ told \subseteq Exchanges
  /\ unclean \in BOOLEAN /\ stops \in 0..MaxStops /\ trouble \in 0..MaxTrouble

\* A process that believes its schema ready works on a file with every table
\* and column of the current one and without the legacy table, whatever the
\* file's history and whenever an earlier start-up was killed ("each step
\* checks the live schema rather than trusting the recorded version alone").
ReadyMeansCurrent == ready => schema = Current

\* Quarantine moves a file and deletes its log: an exchange whose write was
\* confirmed is destroyed by a start-up only if the process had once ended
\* with a connection open.
ToldSurvivesCleanStops ==
  ~unclean => told \subseteq db \cup aside
=============================================================================
