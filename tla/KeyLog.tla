------------------------------- MODULE KeyLog -------------------------------
(***************************************************************************)
(* The key transparency log of the auth service and the tree it keeps in   *)
(* memory (modules/key-transparency/routes/kt.routes.ts): POST /publish    *)
(* appends a row and then drops the tree; GET /proof and GET /head share   *)
(* one rebuild.                                                            *)
(*                                                                         *)
(* The log is append-only, so that a tree is told by how many leaves it    *)
(* has, and has a leaf for every row up to that number (leaf_index is a    *)
(* SERIAL: the first row is number 1).                                     *)
(***************************************************************************)
EXTENDS Naturals

CONSTANTS
    Publishers,     \* the requests POST /publish
    Readers,        \* the requests GET /proof
    MaxBuilds       \* bounds the rebuilds of the tree

NoTree == 0     \* nobody asks for a proof before the log has a row
Builds == 1..MaxBuilds

VARIABLES
    log,            \* the number of rows of kt_log
    publisher,      \* request -> its state, and its row, the first being row 1
    treeCache,      \* the leaves of the cached tree, or NoTree
    treeBuild,      \* the rebuild that requests join, or 0
    build,          \* rebuild -> its state and the leaves it has read
    reader,         \* request -> its state, the row it has read, the rebuild it joined, its
                    \* tree, and whether it took the tree too early to find the row there
    straddled       \* history: the rows invalidated while a rebuild that lacks them was under way

vars == <<log, publisher, treeCache, treeBuild, build, reader, straddled>>

Init ==
    /\ log = 1
    /\ publisher = [r \in Publishers |-> [state |-> "idle", row |-> 0]]
    /\ treeCache = NoTree /\ treeBuild = 0
    /\ build = [b \in Builds |-> [state |-> "unused", leaves |-> 0]]
    /\ reader = [r \in Readers |-> [state |-> "idle", entry |-> 0, joined |-> 0, leaves |-> 0,
                                    excused |-> FALSE]]
    /\ straddled = {}

\* appendEntry.
Append(r) ==
    /\ publisher[r].state = "idle"
    /\ publisher' = [publisher EXCEPT ![r] = [state |-> "appended", row |-> log + 1]]
    /\ log' = log + 1
    /\ UNCHANGED <<treeCache, treeBuild, build, reader, straddled>>

\* A rebuild has read the leaves without that row, and is not stored yet.
Lacking(row) == \E b \in Builds : build[b].state = "read" /\ build[b].leaves < row

\* Mutant of Invalidate: the tree is dropped, and requests still join the rebuild
\* under way.
InvalidateCache(r) ==
    /\ publisher[r].state = "appended"
    /\ publisher' = [publisher EXCEPT ![r].state = "done"]
    /\ treeCache' = NoTree
    /\ straddled' = {row \in straddled \cup {publisher[r].row} : Lacking(row)}
    /\ UNCHANGED <<log, treeBuild, build, reader>>

\* invalidateTree.
Invalidate(r) ==
    /\ publisher[r].state = "appended"
    /\ publisher' = [publisher EXCEPT ![r].state = "done"]
    /\ treeCache' = NoTree /\ treeBuild' = 0
    /\ straddled' = {row \in straddled \cup {publisher[r].row} : Lacking(row)}
    /\ UNCHANGED <<log, build, reader>>

\* getEntry: the latest entry of the user, here of the user who published last.
GetEntry(r) ==
    /\ reader[r].state = "idle"
    /\ reader' = [reader EXCEPT ![r].state = "entry", ![r].entry = log]
    /\ UNCHANGED <<log, publisher, treeCache, treeBuild, build, straddled>>

\* A publish is between its INSERT of that row and invalidateTree.
Publishing(row) ==
    \E p \in Publishers : publisher[p].state = "appended" /\ publisher[p].row = row

Join(r, b) ==
    reader' = [reader EXCEPT ![r].state = "waiting", ![r].joined = b,
                             ![r].excused = Publishing(reader[r].entry)]

\* getTree: the cached tree, the rebuild under way, or a new one.
GetTree(r) ==
    /\ reader[r].state = "entry"
    /\ \/ /\ treeCache # NoTree
          /\ reader' = [reader EXCEPT ![r].state = "done", ![r].leaves = treeCache,
                                      ![r].excused = \/ Publishing(reader[r].entry)
                                                     \/ reader[r].entry \in straddled]
          /\ UNCHANGED <<treeBuild, build>>
       \/ /\ treeCache = NoTree /\ treeBuild # 0
          /\ Join(r, treeBuild)
          /\ UNCHANGED <<treeBuild, build>>
       \/ /\ treeCache = NoTree /\ treeBuild = 0
          /\ \E b \in Builds :
                /\ build[b].state = "unused"
                /\ \A other \in Builds : other < b => build[other].state # "unused"
                /\ build' = [build EXCEPT ![b].state = "asked"]
                /\ treeBuild' = b
                /\ Join(r, b)
    /\ UNCHANGED <<log, publisher, treeCache, straddled>>

\* getAllLeafHashes, on the database.
ReadLeaves(b) ==
    /\ build[b].state = "asked"
    /\ build' = [build EXCEPT ![b] = [state |-> "read", leaves |-> log]]
    /\ UNCHANGED <<log, publisher, treeCache, treeBuild, reader, straddled>>

\* The tree is stored, whatever happened since it was read, and those who joined
\* get it; "finally" forgets the present rebuild, which may be another one.
EndBuild(b) ==
    /\ build[b].state = "read"
    /\ build' = [build EXCEPT ![b].state = "done"]
    /\ treeCache' = build[b].leaves /\ treeBuild' = 0
    /\ reader' = [r \in Readers |->
          IF reader[r].state = "waiting" /\ reader[r].joined = b
          THEN [reader[r] EXCEPT !.state = "done", !.leaves = build[b].leaves]
          ELSE reader[r]]
    /\ UNCHANGED <<log, publisher, straddled>>

\* getAllLeafHashes fails: so does everyone who joined, and nothing is stored.
FailBuild(b) ==
    /\ build[b].state = "asked"
    /\ build' = [build EXCEPT ![b].state = "done"]
    /\ treeBuild' = 0
    /\ reader' = [r \in Readers |->
          IF reader[r].state = "waiting" /\ reader[r].joined = b
          THEN [reader[r] EXCEPT !.state = "failed"]
          ELSE reader[r]]
    /\ UNCHANGED <<log, publisher, treeCache, straddled>>

Next ==
    \/ \E r \in Publishers : Append(r) \/ Invalidate(r)
    \/ \E r \in Readers : GetEntry(r) \/ GetTree(r)
    \/ \E b \in Builds : ReadLeaves(b) \/ EndBuild(b) \/ FailBuild(b)

Spec == Init /\ [][Next]_vars

-------------------------------------------------------------------------------
(* Properties.                                                             *)

\* Every variable has its type, and nobody waits for a rebuild that is not coming.
TypeOK ==
    /\ log \in Nat
    /\ publisher \in [Publishers -> [state : {"idle", "appended", "done"}, row : 0..log]]
    /\ treeCache \in 0..log
    /\ treeBuild \in 0..MaxBuilds
    /\ \A b \in Builds : /\ build[b].state \in {"unused", "asked", "read", "done"}
                         /\ build[b].leaves \in 0..log
    /\ \A r \in Readers :
          /\ reader[r].state \in {"idle", "entry", "waiting", "done", "failed"}
          /\ reader[r].state = "waiting" => build[reader[r].joined].state \in {"asked", "read"}
    /\ straddled \subseteq 1..log

\* "The log is append-only, so the tree is only invalidated by /publish": a
\* request for a proof reads the entry and then takes a tree that has a leaf for
\* it, unless the publish of that entry was still between its INSERT and
\* invalidateTree when the request took the tree or joined a rebuild, or the
\* request took a cached tree while that entry was straddled: a rebuild that had
\* read the leaves before the INSERT ended after the invalidation.  Who joins a
\* rebuild has the second excuse for nothing.
TreeHasEntry ==
    \A r \in Readers :
        reader[r].state = "done"
          => (reader[r].entry <= reader[r].leaves \/ reader[r].excused)
===============================================================================
