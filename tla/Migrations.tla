------------------------------ MODULE Migrations ------------------------------
(***************************************************************************)
(* Schema migrations at startup: Migrate of internal/db/migrate.go, run by *)
(* every instance that starts, against one PostgreSQL database with its    *)
(* session-scoped advisory lock.  Each statement sent is a step; between   *)
(* two of them other instances run, the connection may break, a query may  *)
(* fail and the process may die.                                           *)
(*                                                                         *)
(* A server session may outlive its client: "Ghost" is a session that      *)
(* still holds the lock though nobody will use it any more, and strays     *)
(* counts abandoned sessions still queueing for it.                        *)
(***************************************************************************)
EXTENDS Naturals

CONSTANTS
    Instances,   \* backend processes that may be started
    Versions,    \* migration versions
    Checksums,   \* contents a migration file may have
    Broken,      \* the contents whose SQL fails
    Builds,      \* the sets of files a build may embed
    MaxStarts,   \* processes started in a behaviour: a bound
    None,        \* no content, no lock holder
    Ghost        \* a lock holder nobody drives

File == [version : Versions, checksum : Checksums]

ASSUME MigrationsAssumption ==
    /\ Versions \subseteq Nat
    /\ Broken \subseteq Checksums
    /\ Builds \subseteq SUBSET File
    /\ MaxStarts \in Nat
    /\ None \notin Checksums \cup Instances \cup Builds
    /\ None \notin File
    /\ Ghost \notin Instances \cup {None}

VARIABLES
    pc,       \* pc[i]: the statement instance i is about to send
    build,    \* build[i]: the files embedded in the binary i runs
    todo,     \* todo[i]: the files i's loop has not passed yet
    cur,      \* cur[i]: the file i's open transaction is about
    seen,     \* seen[i]: what i read from schema_migrations
    err,      \* err[i]: Migrate is going to return an error
    holder,   \* who holds the advisory lock: an instance, Ghost or None
    ghost,    \* the file whose COMMIT the ghost session was sent, or None
    strays,   \* abandoned sessions waiting for the lock
    table,    \* does schema_migrations exist
    rows,     \* rows[v]: the checksum recorded for version v, or None
    ran,      \* ran[v]: how often a file of version v took effect
    starts,   \* history: processes started
    started,  \* history: builds ever started
    faulted   \* history: a statement, a connection or a process has failed

local   == <<pc, build, todo, cur, seen, err>>
schema  == <<table, rows, ran>>
history == <<starts, started, faulted>>
vars    == <<local, holder, ghost, strays, schema, history>>

Init ==
    /\ pc = [i \in Instances |-> "off"]
    /\ build = [i \in Instances |-> {}]
    /\ todo = [i \in Instances |-> {}]
    /\ cur = [i \in Instances |-> None]
    /\ seen = [i \in Instances |-> [v \in Versions |-> None]]
    /\ err = [i \in Instances |-> FALSE]
    /\ holder = None /\ ghost = None /\ strays = 0
    /\ table = FALSE
    /\ rows = [v \in Versions |-> None]
    /\ ran = [v \in Versions |-> 0]
    /\ starts = 0 /\ started = {} /\ faulted = FALSE

Goto(i, next) == pc' = [pc EXCEPT ![i] = next]

(* Migrate is going to return an error; the deferred unlock runs first. *)
Abort(i) == Goto(i, "unlock") /\ err' = [err EXCEPT ![i] = TRUE]

-------------------------------------------------------------------------------
(* loadMigrations refuses two files of one version.  (Its other refusal, a *)
(* misnamed file, is a build that never starts.)                           *)
Valid(b) == \A f, g \in b : f.version = g.version => f = g

Start(i, b) ==
    /\ pc[i] \in {"off", "failed"}
    /\ starts < MaxStarts
    /\ Goto(i, IF Valid(b) THEN "lock" ELSE "failed")
    /\ build' = [build EXCEPT ![i] = b]
    /\ todo' = [todo EXCEPT ![i] = b]
    /\ err' = [err EXCEPT ![i] = FALSE]
    /\ starts' = starts + 1
    /\ started' = started \cup {b}
    /\ UNCHANGED <<cur, seen, holder, ghost, strays, schema, faulted>>

(* Mutants: the lock is not waited for; a held lock is an error. *)
LockShared(i) ==
    /\ pc[i] = "lock"
    /\ Goto(i, "ensure")
    /\ UNCHANGED <<build, todo, cur, seen, err, holder, ghost, strays, schema, history>>

LockOrFail(i) ==
    /\ pc[i] = "lock"
    /\ IF holder = None THEN holder' = i /\ Goto(i, "ensure")
                        ELSE holder' = holder /\ Goto(i, "failed")
    /\ UNCHANGED <<build, todo, cur, seen, err, ghost, strays, schema, history>>

(* SELECT pg_advisory_lock: waits until the lock is free. *)
Lock(i) ==
    /\ pc[i] = "lock"
    /\ holder = None
    /\ holder' = i
    /\ Goto(i, "ensure")
    /\ UNCHANGED <<build, todo, cur, seen, err, ghost, strays, schema, history>>

EnsureTable(i) ==
    /\ pc[i] = "ensure"
    /\ table' = TRUE
    /\ Goto(i, "read")
    /\ UNCHANGED <<build, todo, cur, seen, err, holder, ghost, strays, rows, ran, history>>

ReadApplied(i) ==
    /\ pc[i] = "read"
    /\ table
    /\ seen' = [seen EXCEPT ![i] = rows]
    /\ Goto(i, "next")
    /\ UNCHANGED <<build, todo, cur, err, holder, ghost, strays, schema, history>>

(* The loop looks at the files in version order, skipping the ones it has  *)
(* seen recorded with the checksum they have.                              *)
Lowest(S, f) == f \in S /\ \A g \in S : f.version <= g.version

Skip(i, f) ==
    /\ seen[i][f.version] = f.checksum
    /\ todo' = [todo EXCEPT ![i] = @ \ {f}]
    /\ UNCHANGED <<pc, cur, err>>

(* Mutant: an applied version is skipped whatever its checksum. *)
RefuseNever(i, f) ==
    /\ seen[i][f.version] \notin {None, f.checksum}
    /\ todo' = [todo EXCEPT ![i] = @ \ {f}]
    /\ UNCHANGED <<pc, cur, err>>

(* ErrChecksumMismatch *)
Refuse(i, f) ==
    /\ seen[i][f.version] \notin {None, f.checksum}
    /\ Abort(i)
    /\ UNCHANGED <<todo, cur>>

Begin(i, f) ==
    /\ seen[i][f.version] = None
    /\ cur' = [cur EXCEPT ![i] = f]
    /\ Goto(i, "body")
    /\ UNCHANGED <<todo, err>>

(* Mutant: the files are taken in no particular order. *)
NextFileUnsorted(i) ==
    /\ pc[i] = "next"
    /\ \/ todo[i] = {} /\ Goto(i, "unlock") /\ UNCHANGED <<todo, cur, err>>
       \/ \E f \in todo[i] : Skip(i, f) \/ Refuse(i, f) \/ Begin(i, f)
    /\ UNCHANGED <<build, seen, holder, ghost, strays, schema, history>>

NextFile(i) ==
    /\ pc[i] = "next"
    /\ \/ todo[i] = {} /\ Goto(i, "unlock") /\ UNCHANGED <<todo, cur, err>>
       \/ \E f \in todo[i] :
             /\ Lowest(todo[i], f)
             /\ Skip(i, f) \/ Refuse(i, f) \/ Begin(i, f)
    /\ UNCHANGED <<build, seen, holder, ghost, strays, schema, history>>

(* Mutant: the file runs outside a transaction. *)
RunBodyUnwrapped(i) ==
    /\ pc[i] = "body"
    /\ ran' = [ran EXCEPT ![cur[i].version] = @ + 1]
    /\ Goto(i, "record")
    /\ UNCHANGED <<build, todo, cur, seen, err, holder, ghost, strays, table, rows, history>>

(* The SQL runs inside the transaction: nothing is visible yet, and an     *)
(* error rolls it back.                                                    *)
RunBody(i) ==
    /\ pc[i] = "body"
    /\ IF cur[i].checksum \in Broken THEN Abort(i)
                                     ELSE Goto(i, "record") /\ UNCHANGED err
    /\ UNCHANGED <<build, todo, cur, seen, holder, ghost, strays, schema, history>>

Record(i) ==
    /\ pc[i] = "record"
    /\ Goto(i, "commit")
    /\ UNCHANGED <<build, todo, cur, seen, err, holder, ghost, strays, schema, history>>

(* Mutant: the row is not part of the transaction. *)
CommittedUnrecorded(f) ==
    /\ ran' = [ran EXCEPT ![f.version] = @ + 1]
    /\ UNCHANGED <<rows, table>>

(* COMMIT makes the file's effects and its row durable together. *)
Committed(f) ==
    /\ ran' = [ran EXCEPT ![f.version] = @ + 1]
    /\ rows' = [rows EXCEPT ![f.version] = f.checksum]
    /\ UNCHANGED table

Commit(i) ==
    /\ pc[i] = "commit"
    /\ Committed(cur[i])
    /\ todo' = [todo EXCEPT ![i] = @ \ {cur[i]}]
    /\ Goto(i, "next")
    /\ UNCHANGED <<build, cur, seen, err, holder, ghost, strays, history>>

(* Mutant: the pooled connection keeps the lock. *)
UnlockForgotten(i) ==
    /\ pc[i] = "unlock"
    /\ Goto(i, IF err[i] THEN "failed" ELSE "done")
    /\ UNCHANGED <<build, todo, cur, seen, err, holder, ghost, strays, schema, history>>

(* The deferred pg_advisory_unlock. *)
Unlock(i) ==
    /\ pc[i] = "unlock"
    /\ holder' = None
    /\ Goto(i, IF err[i] THEN "failed" ELSE "done")
    /\ UNCHANGED <<build, todo, cur, seen, err, ghost, strays, schema, history>>

-------------------------------------------------------------------------------
(* What may go wrong. *)

Working == {"ensure", "read", "body", "record", "commit"}
Holding == Working \cup {"next", "unlock"}

(* A statement fails and the session survives (an SQL error, a context     *)
(* cancelled before it was sent): ROLLBACK, then the deferred unlock.      *)
StatementFails(i) ==
    /\ pc[i] \in Working
    /\ Abort(i)
    /\ faulted' = TRUE
    /\ UNCHANGED <<build, todo, cur, seen, holder, ghost, strays, schema, starts, started>>

(* The session instance i leaves behind: the lock stays held until the     *)
(* server notices, and a COMMIT that was on its way may still be done.     *)
Abandon(i) ==
    /\ IF pc[i] \in Holding
          THEN /\ holder' = Ghost
               /\ ghost' = IF pc[i] = "commit" THEN cur[i] ELSE None
          ELSE UNCHANGED <<holder, ghost>>
    /\ strays' = IF pc[i] = "lock" THEN strays + 1 ELSE strays

(* The connection is lost, or a context is cancelled in the middle of a    *)
(* statement, which makes pgx close it.  Neither ROLLBACK nor the unlock   *)
(* reaches the server; a failed unlock is only logged.                     *)
ConnectionBreaks(i) ==
    /\ pc[i] \in {"lock"} \cup Working \cup {"unlock"}
    /\ Abandon(i)
    /\ Goto(i, IF pc[i] = "unlock" /\ ~err[i] THEN "done" ELSE "failed")
    /\ faulted' = TRUE
    /\ UNCHANGED <<build, todo, cur, seen, err, schema, starts, started>>

(* The process is killed, or a serving one is stopped. *)
Die(i) ==
    /\ pc[i] \in {"lock", "done"} \cup Holding
    /\ Abandon(i)
    /\ Goto(i, "off")
    /\ faulted' = TRUE
    /\ UNCHANGED <<build, todo, cur, seen, err, schema, starts, started>>

GhostCommits ==
    /\ ghost # None
    /\ Committed(ghost)
    /\ ghost' = None
    /\ UNCHANGED <<local, holder, strays, history>>

(* The server ends the session: rollback, and the lock is free. *)
GhostEnds ==
    /\ holder = Ghost
    /\ holder' = None /\ ghost' = None
    /\ UNCHANGED <<local, strays, schema, history>>

(* An abandoned waiter is granted the lock, and finds out too late; or     *)
(* the server notices before that.                                         *)
StrayLocks ==
    /\ strays > 0 /\ holder = None
    /\ strays' = strays - 1
    /\ holder' = Ghost
    /\ UNCHANGED <<local, ghost, schema, history>>

StrayEnds ==
    /\ strays > 0
    /\ strays' = strays - 1
    /\ UNCHANGED <<local, holder, ghost, schema, history>>

-------------------------------------------------------------------------------
Step(i) ==
    \/ EnsureTable(i) \/ ReadApplied(i) \/ NextFile(i)
    \/ RunBody(i) \/ Record(i) \/ Commit(i) \/ Unlock(i)

Next ==
    \/ \E i \in Instances, b \in Builds : Start(i, b)
    \/ \E i \in Instances :
          Lock(i) \/ Step(i) \/ StatementFails(i) \/ ConnectionBreaks(i) \/ Die(i)
    \/ GhostCommits \/ GhostEnds \/ StrayLocks \/ StrayEnds

Spec == Init /\ [][Next]_vars

(* A running process sends its next statement, the server ends sessions    *)
(* whose client is gone, and waiters get the lock in turn: PostgreSQL      *)
(* queues them, so a waiter is not passed over for ever.                   *)
Fairness ==
    /\ \A i \in Instances : WF_vars(Step(i)) /\ SF_vars(Lock(i))
    /\ WF_vars(GhostEnds) /\ WF_vars(StrayEnds)

FairSpec == Spec /\ Fairness

-------------------------------------------------------------------------------
(* Invariants. *)

TypeOK ==
    /\ pc \in [Instances -> {"off", "lock", "done", "failed"} \cup Holding]
    /\ build \in [Instances -> SUBSET File]
    /\ todo \in [Instances -> SUBSET File]
    /\ cur \in [Instances -> File \cup {None}]
    /\ seen \in [Instances -> [Versions -> Checksums \cup {None}]]
    /\ err \in [Instances -> BOOLEAN]
    /\ holder \in Instances \cup {None, Ghost}
    /\ ghost \in File \cup {None}
    /\ strays \in Nat
    /\ table \in BOOLEAN
    /\ rows \in [Versions -> Checksums \cup {None}]
    /\ ran \in [Versions -> Nat]
    /\ starts \in 0..MaxStarts
    /\ started \subseteq Builds
    /\ faulted \in BOOLEAN

(* Only the lock's holder is between the lock and the unlock. *)
OneHolder ==
    /\ \A i \in Instances : pc[i] \in Holding <=> holder = i
    /\ ghost # None => holder = Ghost

Succeeding(i) == pc[i] = "done" \/ (pc[i] = "unlock" /\ ~err[i])

(* What an instance has established at each statement.  What the holder    *)
(* read is still what is recorded, for every file it has yet to look at;   *)
(* every file it has passed is recorded with the checksum it has.          *)
Looping == {"next", "body", "record", "commit"}

InstanceSound(i) ==
    /\ pc[i] \in {"lock", "done"} \cup Holding =>
          Valid(build[i]) /\ build[i] \in started /\ todo[i] \subseteq build[i]
    /\ pc[i] \in {"lock", "ensure", "read"} => todo[i] = build[i]
    /\ pc[i] \in {"lock", "next"} \cup Working => ~err[i]
    /\ pc[i] \in Looping => \A f \in todo[i] : seen[i][f.version] = rows[f.version]
    /\ pc[i] \in Looping \/ Succeeding(i) =>
          \A f \in build[i] \ todo[i] : rows[f.version] = f.checksum
    /\ Succeeding(i) => todo[i] = {}
    /\ pc[i] \in {"body", "record", "commit"} =>
          Lowest(todo[i], cur[i]) /\ rows[cur[i].version] = None

InstancesSound == \A i \in Instances : InstanceSound(i)

(* The file a ghost may commit is one its build wants next. *)
GhostCurrent ==
    ghost # None =>
        /\ rows[ghost.version] = None
        /\ \E b \in started :
              /\ Valid(b) /\ ghost \in b
              /\ \A f \in b : f.version < ghost.version => rows[f.version] # None

-------------------------------------------------------------------------------
(* Safety. *)

(* applyMigration "runs one file and records it, atomically": what took    *)
(* effect is what is recorded, and it took effect once, however many       *)
(* instances start together, die, retry or lose the answer of a COMMIT.    *)
RecordedIffRan == \A v \in Versions : ran[v] = IF rows[v] = None THEN 0 ELSE 1

(* Versions are applied in order: one is missing below an applied one only *)
(* if some build was started that has the later file and not the earlier.  *)
GapsComeFromBuilds ==
    \A v, w \in Versions :
        v < w /\ rows[v] = None /\ rows[w] # None =>
            \E b \in started :
                /\ \E f \in b : f.version = w
                /\ \A f \in b : f.version # v

(* Two instances that serve agree on the content of every version they     *)
(* both have, whatever builds were deployed in between.                    *)
ServersAgree ==
    \A i, j \in Instances :
        pc[i] = "done" /\ pc[j] = "done" =>
            \A f \in build[i], g \in build[j] : f.version = g.version => f = g

(* "Several backend instances starting together is not a problem": until   *)
(* something breaks, a start fails only because of its own files.          *)
OwnFault(i) ==
    \/ ~Valid(build[i])
    \/ \E f \in build[i] : f.checksum \in Broken
    \/ \E f \in build[i] : rows[f.version] \notin {None, f.checksum}

StartsFailAlone ==
    ~faulted => \A i \in Instances : pc[i] = "failed" => OwnFault(i)

IndInv ==
    /\ TypeOK /\ OneHolder /\ InstancesSound /\ GhostCurrent
    /\ RecordedIffRan /\ GapsComeFromBuilds

(* The promise: rows are the log, and instances past Migrate serve. *)
Serving == [i \in Instances |-> IF pc[i] = "done" THEN build[i] ELSE None]

Log == INSTANCE MigrationLog WITH log <- rows, serving <- Serving

(* Migrate keeps it. *)
MigrateKeepsLog == Log!LogSpec

-------------------------------------------------------------------------------
(* Liveness. *)

(* Every start comes to an end: nobody waits for ever on a lock whose      *)
(* holder died, and the abandoned sessions do not keep it from the living. *)
StartsEnd ==
    \A i \in Instances : pc[i] = "lock" ~> pc[i] \in {"done", "failed", "off"}
===============================================================================
