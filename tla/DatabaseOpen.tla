----------------------------- MODULE DatabaseOpen -----------------------------
(***************************************************************************)
(* How a process opens the database (Open of internal/database/database.go,*)
(* called by main.go before every command): it looks whether the file is   *)
(* one of before there were migrations, which it removes, and applies the  *)
(* migrations its build knows.  Processes do so at the same time, with no  *)
(* lock but SQLite's, and may fail or die at any step.                     *)
(*                                                                         *)
(* A path names at most one file, but a process goes on using the file it  *)
(* has open when the path is given to another.  A file stands for the      *)
(* database with its -wal and -shm.                                        *)
(***************************************************************************)
EXTENDS Naturals, Sequences

CONSTANTS
    Processes,   \* what opens the database; one that has ended may be run again
    Known,       \* Known[p]: the build of p knows the migrations 1 .. Known[p]
    Newest,      \* the number of migrations the newest build knows
    Repeatable,  \* migrations whose statements may succeed when they are run again
    Files,       \* files in the directory, or unlinked and still open
    Faults,      \* may a step fail or a process die?
    StuckFiles   \* may the removal of a file fail?

ASSUME KnownAssumption ==
    /\ Newest \in Nat
    /\ Known \in [Processes -> 0 .. Newest]
    /\ Repeatable \subseteq 2 .. Newest

ASSUME FlagsAssumption == Faults \in BOOLEAN /\ StuckFiles \in BOOLEAN

None == "none"

ASSUME NamesAssumption == None \notin Files \cup Processes

VARIABLES
    link,     \* the file the path names, or None
    content,  \* content[f]: what is in file f
    pc,       \* where each process is
    file,     \* the file its connection is to, or None
    next,     \* the migration it looks at
    alone     \* the one process that opens the database from now on, or None

vars == <<link, content, pc, file, next, alone>>

-----------------------------------------------------------------------------
(* Files *)

\* legacy: the tables are those of before there were migrations.  table: there
\* is a table _migrations.  recorded: its rows.  schema: the migrations whose
\* statements have been run, in order.
Content == [legacy   : BOOLEAN,
            table    : BOOLEAN,
            recorded : SUBSET (1 .. Newest),
            schema   : Seq(1 .. Newest)]

EmptyFile == [legacy |-> FALSE, table |-> FALSE, recorded |-> {}, schema |-> <<>>]

LegacyFile == [legacy |-> TRUE, table |-> FALSE, recorded |-> {}, schema |-> <<>>]

UpTo(n) == [i \in 1 .. n |-> i]

MigratedFile(n) == [legacy |-> FALSE, table |-> TRUE, recorded |-> 1 .. n, schema |-> UpTo(n)]

Ran(i, c) == \E j \in 1 .. Len(c.schema) : c.schema[j] = i

\* The statements of migration i succeed: the first creates the tables, the
\* others change tables that are there.
Fits(i, c) ==
    IF i = 1 THEN c.schema = <<>> /\ ~c.legacy
    ELSE c.schema # <<>> /\ (i \in Repeatable \/ ~Ran(i, c))

\* Nobody can reach it any more.
Unused(f) == f # link /\ \A p \in Processes : file[p] # f

\* SQLite opens the file the path names, or creates one.
Linked(f) ==
    \/ /\ link = f
       /\ UNCHANGED <<link, content>>
    \/ /\ link = None
       /\ Unused(f)
       /\ link' = f
       /\ content' = [content EXCEPT ![f] = EmptyFile]

-----------------------------------------------------------------------------
(* Open *)

Goes(p, step) == pc' = [pc EXCEPT ![p] = step]

\* The connection is not closed.
EndsUnclosed(p) ==
    /\ Goes(p, "off")
    /\ next' = [next EXCEPT ![p] = 1]
    /\ UNCHANGED file

\* An error, or the death of the process: the connection is gone.
Ends(p) ==
    /\ Goes(p, "off")
    /\ file' = [file EXCEPT ![p] = None]
    /\ next' = [next EXCEPT ![p] = 1]

Steps(p) == alone \in {None, p} /\ UNCHANGED alone

\* Stat.
Begin(p) ==
    /\ Steps(p)
    /\ pc[p] = "off"
    /\ Goes(p, IF link = None THEN "open" ELSE "look")
    /\ UNCHANGED <<link, content, file, next>>

\* The table of the first migration is looked for.
LookForSessions(p) ==
    /\ Steps(p)
    /\ pc[p] = "look"
    /\ \E f \in Files :
          /\ Linked(f)
          /\ Goes(p, IF content'[f].schema # <<>> THEN "open" ELSE "remove")
    /\ UNCHANGED <<file, next>>

\* resetIfNeeded's own connection, closed at once.
Look(p) ==
    /\ Steps(p)
    /\ pc[p] = "look"
    /\ \E f \in Files :
          /\ Linked(f)
          /\ Goes(p, IF content'[f].table THEN "open" ELSE "remove")
    /\ UNCHANGED <<file, next>>

\* Whatever the path names by now; an error is ignored.  The file's -wal and
\* -shm go in the same step: what SQLite does with a database that another
\* process creates between the three removals is left to SQLite.
Remove(p) ==
    /\ Steps(p)
    /\ pc[p] = "remove"
    /\ Goes(p, "open")
    /\ link' = None \/ (StuckFiles /\ UNCHANGED link)
    /\ UNCHANGED <<content, file, next>>

\* sql.Open and the pragmas.
Connect(p) ==
    /\ Steps(p)
    /\ pc[p] = "open"
    /\ \E f \in Files :
          /\ Linked(f)
          /\ file' = [file EXCEPT ![p] = f]
    /\ Goes(p, "table")
    /\ UNCHANGED next

\* CREATE TABLE IF NOT EXISTS _migrations.
CreateTable(p) ==
    /\ Steps(p)
    /\ pc[p] = "table"
    /\ content' = [content EXCEPT ![file[p]].table = TRUE]
    /\ Goes(p, "check")
    /\ UNCHANGED <<link, file, next>>

\* Any later migration counts as well.
IsAnyApplied(p) == content[file[p]].recorded # {}

IsMigrationApplied(p) == next[p] \in content[file[p]].recorded

Check(p) ==
    /\ Steps(p)
    /\ pc[p] = "check"
    /\ \/ next[p] > Known[p] /\ Goes(p, "ready") /\ UNCHANGED next
       \/ /\ next[p] <= Known[p]
          /\ \/ /\ IsMigrationApplied(p)
                /\ next' = [next EXCEPT ![p] = @ + 1]
                /\ UNCHANGED pc
             \/ ~IsMigrationApplied(p) /\ Goes(p, "apply") /\ UNCHANGED next
    /\ UNCHANGED <<link, content, file>>

\* INSERT OR IGNORE of the version.
ApplyAgain(p) ==
    /\ Steps(p)
    /\ pc[p] = "apply"
    /\ LET c == content[file[p]] IN
        IF Fits(next[p], c)
        THEN /\ content' = [content EXCEPT ![file[p]].schema = Append(@, next[p]),
                                           ![file[p]].recorded = @ \cup {next[p]}]
             /\ Goes(p, "check")
             /\ next' = [next EXCEPT ![p] = @ + 1]
             /\ UNCHANGED file
        ELSE Ends(p) /\ UNCHANGED content
    /\ UNCHANGED link

\* The version is recorded after the transaction, if the process lives.
ApplyThenRecord(p) ==
    /\ Steps(p)
    /\ pc[p] = "apply"
    /\ LET c == content[file[p]] IN
        IF Fits(next[p], c) /\ next[p] \notin c.recorded
        THEN \/ /\ content' = [content EXCEPT ![file[p]].schema = Append(@, next[p]),
                                              ![file[p]].recorded = @ \cup {next[p]}]
                /\ Goes(p, "check")
                /\ next' = [next EXCEPT ![p] = @ + 1]
                /\ UNCHANGED file
             \/ /\ Faults /\ alone = None
                /\ content' = [content EXCEPT ![file[p]].schema = Append(@, next[p])]
                /\ Ends(p)
        ELSE Ends(p) /\ UNCHANGED content
    /\ UNCHANGED link

\* applyMigration: the statements and the record of the version, in one
\* transaction, which its first statement makes the only writer.  Any of them
\* may fail, the record because it is the primary key; then nothing is done.
Apply(p) ==
    /\ Steps(p)
    /\ pc[p] = "apply"
    /\ LET c == content[file[p]] IN
        IF Fits(next[p], c) /\ next[p] \notin c.recorded
        THEN /\ content' = [content EXCEPT ![file[p]].schema = Append(@, next[p]),
                                           ![file[p]].recorded = @ \cup {next[p]}]
             /\ Goes(p, "check")
             /\ next' = [next EXCEPT ![p] = @ + 1]
             /\ UNCHANGED file
        ELSE Ends(p) /\ UNCHANGED content
    /\ UNCHANGED link

\* The command is over.
Finish(p) ==
    /\ Steps(p)
    /\ pc[p] = "ready"
    /\ Ends(p)
    /\ UNCHANGED <<link, content>>

\* SQLite is busy, the disk is full, the process is killed.
Fails(p) ==
    /\ Faults
    /\ alone = None
    /\ pc[p] # "off"
    /\ Ends(p)
    /\ UNCHANGED <<link, content, alone>>

\* The others have died by now, wherever they were.
IsAlone(p) ==
    /\ alone = None
    /\ alone' = p
    /\ pc' = [q \in Processes |-> IF q = p THEN pc[q] ELSE "off"]
    /\ file' = [q \in Processes |-> IF q = p THEN file[q] ELSE None]
    /\ next' = [q \in Processes |-> IF q = p THEN next[q] ELSE 1]
    /\ UNCHANGED <<link, content>>

-----------------------------------------------------------------------------
\* There is no file, one of an early build, or one an older build has migrated.
Init ==
    /\ link \in Files \cup {None}
    /\ content \in [Files -> {EmptyFile, LegacyFile} \cup {MigratedFile(n) : n \in 0 .. Newest}]
    /\ \A f \in Files : f # link => content[f] = EmptyFile
    /\ pc = [p \in Processes |-> "off"]
    /\ file = [p \in Processes |-> None]
    /\ next = [p \in Processes |-> 1]
    /\ alone = None

Open(p) ==
    \/ Begin(p) \/ Look(p) \/ Remove(p) \/ Connect(p)
    \/ CreateTable(p) \/ Check(p) \/ Apply(p)

Next == \E p \in Processes : Open(p) \/ Finish(p) \/ Fails(p) \/ IsAlone(p)

Spec == Init /\ [][Next]_vars

\* A process that lives goes on, and the lone one is run whenever it is over.
FairSpec == Spec /\ \A p \in Processes : WF_vars(Open(p))

-----------------------------------------------------------------------------
(* Properties *)

\* Every variable has its type; a process has a connection once it needs one.
TypeOK ==
    /\ link \in Files \cup {None}
    /\ content \in [Files -> Content]
    /\ pc \in [Processes -> {"off", "look", "remove", "open", "table", "check", "apply", "ready"}]
    /\ file \in [Processes -> Files \cup {None}]
    /\ next \in [Processes -> 1 .. Newest + 1]
    /\ alone \in Processes \cup {None}
    /\ \A p \in Processes :
          file[p] # None <=> pc[p] \in {"table", "check", "apply", "ready"}

\* database.go:102-118 and 133-147: in every file, linked or not, the
\* migrations were run each once, in order, none left out, and those recorded
\* are those run, whatever processes of whatever builds ran them side by side
\* and died on the way.
MigratedOnceInOrder ==
    \A f \in Files : LET c == content[f] IN
        /\ c.schema = UpTo(Len(c.schema))
        /\ c.recorded = 1 .. Len(c.schema)

\* database.go:19: queries that are ready to use find every migration their
\* build knows.
ReadyIsMigrated ==
    \A p \in Processes : pc[p] = "ready" => 1 .. Known[p] \subseteq content[file[p]].recorded

\* database.go:79-87: nobody is about to remove a database with migrations.
Lasts ==
    /\ link # None
    /\ content[link].table
    /\ \A p \in Processes : pc[p] # "remove"

\* From such a moment on the database is never removed: neither a process
\* that dies half-way through the migrations nor one of another build makes
\* it look like one of before.
MigratedDatabaseStays == [][Lasts => Lasts' /\ link' = link]_vars

\* A bound on the steps a lone process takes until it is ready.  Only another
\* that applied the same migration since the check sends it back to the start.
StepsLeft(p) ==
    LET steps == [off |-> 6, look |-> 5, remove |-> 4, open |-> 3, table |-> 2, check |-> 1,
                  apply |-> 0, ready |-> 0]
        fails == pc[p] = "apply" /\ IsMigrationApplied(p)
    IN  IF pc[p] = "ready" THEN 0
        ELSE 2 * (Known[p] + 1 - next[p]) + (IF fails THEN 2 * Known[p] + 7 ELSE steps[pc[p]])

\* database.go:25-67 and 97-149: wherever the others died and whatever they
\* left behind, a process that opens the database alone fails at most once and
\* comes closer to being ready with every step it takes.
LoneOpenAdvances ==
    [][\A p \in Processes :
         alone = p /\ Open(p) => StepsLeft(p)' \in 0 .. StepsLeft(p) - 1]_vars

\* A process that opens the database alone gets it in the end, wherever
\* others have died before.
GetsReady == \A p \in Processes : alone = p ~> pc[p] = "ready"

\* database.go:19: a process whose queries are ready uses the database that
\* the next one to open it will find.
OpenersShareTheDatabase ==
    \A p \in Processes : pc[p] = "ready" => file[p] = link
=============================================================================
