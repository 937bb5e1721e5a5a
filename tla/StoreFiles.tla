------------------------------ MODULE StoreFiles ------------------------------
(***************************************************************************)
(* Store files under names that change: how open-why opens the file a path *)
(* names (private_store_path.rs), and `why backup`, `why restore` and      *)
(* `why verify` (bin/maintenance, db/backup.rs) on top of it.              *)
(*                                                                         *)
(* A path is opened twice, by the program, which keeps the descriptor, and *)
(* by SQLite, by name.  Between any two system calls someone else may give *)
(* the name to another file; SQLite's HAS_MOVED tells whether the name is  *)
(* still that of the file it has open.                                     *)
(*                                                                         *)
(* The steps of a call that reach the file system are the entries of a     *)
(* script, taken one at a time; a step that fails ends the call.           *)
(***************************************************************************)
EXTENDS Naturals, Sequences, FiniteSets

CONSTANTS
    Files,           \* files (inodes)
    Identities,      \* store identities
    Configured,      \* OPEN_WHY_STORE_INSTANCE_ID of every process
    Maintenance,     \* the process that runs a maintenance command
    Servers,         \* the processes that run a server
    MaxMoves,        \* bound: how often two names exchange their files
    MaxWrites,       \* bound: how often the store's users write to it
    Null

VARIABLES
    entry,           \* name -> the file it names, or Null
    endpoint,        \* name -> the daemon socket beside it
    content,         \* file -> what it holds, Null for a file nobody made
    at,              \* process -> the next entry of its script
    opened, conn,    \* process -> handle -> the file the descriptor or SQLite has open
    failed,          \* processes whose call returned an error
    moves, writes    \* counters of the bounds

files == <<entry, endpoint, content, at, opened, conn, failed, moves, writes>>

ASSUME FilesAssumption ==
    /\ Null \notin Files /\ Configured \in Identities
    /\ Maintenance \notin Servers
    /\ MaxMoves \in Nat /\ MaxWrites \in Nat
-----------------------------------------------------------------------------
Names == {"store", "copy", "aside"}
Processes == Servers \cup {Maintenance}

(* A store that may be half copied; writes counts what its users wrote.    *)
Content == [identity : Identities \cup {Null}, writes : 0..MaxWrites, whole : BOOLEAN]
Blank == [identity |-> Null, writes |-> 0, whole |-> FALSE]
Fresh(identity) == [identity |-> identity, writes |-> 0, whole |-> TRUE]
Unused == {f \in Files : content[f] = Null}
ASSUME ContentAssumption == Null \notin Content

(* The stores a call has open at different times, and the name of each.    *)
Handles == {"source", "target", "result", "lexical", "serving"}
NameOf(h) == IF h \in {"target", "result"} THEN "copy" ELSE "store"

Do(what, on) == [what |-> what, on |-> on]

(* Mutant: the connection is checked once after it was opened. *)
VerifyOnce(h) == <<Do("path", h), Do("moved", h)>>

(* PreparedStorePath::verify_connection_target. *)
VerifyTarget(h) == <<Do("path", h), Do("moved", h), Do("path", h), Do("moved", h)>>

(* prepare and open_connection. *)
Opening(how, h) == <<Do(how, h), Do("path", h), Do("connect", h)>> \o VerifyTarget(h)

(* Mutant: a store is opened and nothing in it is looked at. *)
OpenedOnly(h) == Opening("existing", h)

(* open_existing_read_only and verify_integrity. *)
Verified(h) == Opening("existing", h) \o <<Do("identity", h), Do("moved", h),
                                           Do("whole", h), Do("moved", h)>>

(* Mutant: the copy is made before the new connection is verified. *)
CopyTooEarly ==
    <<Do("new", "target"), Do("path", "target"), Do("connect", "target"),
      Do("begin", "target"), Do("copy", "target")>>
    \o VerifyTarget("target") \o <<Do("moved", "source"), Do("whole", "target")>>
    \o VerifyTarget("target") \o <<Do("same", "target")>> \o VerifyTarget("target")

(* Store::backup_to. *)
BackupTo ==
    Opening("new", "target")
    \o <<Do("moved", "source"), Do("begin", "target"), Do("copy", "target"),
         Do("whole", "target")>>
    \o VerifyTarget("target") \o <<Do("same", "target")>> \o VerifyTarget("target")

(* `why backup` and `why restore`. *)
CopyCommand == <<Do("free", "target")>> \o Verified("source") \o BackupTo \o Verified("result")

Finished(p) == at[p] > Len(CopyCommand)
InBackup(p) == LET before == 1 + Len(Verified("source"))
               IN at[p] > before /\ at[p] <= before + Len(BackupTo)
-----------------------------------------------------------------------------
(* What a step of a script requires, and what it does to the handle.       *)
Named(h) == entry[NameOf(h)]

Passes(p, do) ==
    LET h == do.on IN
    CASE do.what = "free" -> endpoint[NameOf(h)] = "none"
      [] do.what = "existing" -> Named(h) # Null
      [] do.what = "provided" -> Named(h) # Null \/ Unused # {}
      [] do.what = "new" -> Named(h) = Null /\ Unused # {}
      [] do.what = "path" -> Named(h) = opened[p][h]
      [] do.what = "connect" -> Named(h) # Null
      [] do.what = "moved" -> Named(h) = conn[p][h]
      [] do.what = "identity" -> /\ content[conn[p][h]].identity = Configured
                                 /\ content[conn[p][h]].whole
      [] do.what = "whole" -> content[conn[p][h]].whole
      [] do.what = "same" -> content[conn[p][h]].identity
                                = content[conn[p]["source"]].identity
      [] do.what \in {"begin", "copy"} -> TRUE

(* The file a step creates under the name: private, and empty until a      *)
(* store is made in it.  A server's open makes the store it does not find. *)
Creates(do) == \/ do.what = "new"
               \/ do.what = "provided" /\ Named(do.on) = Null
NewContent(do) == IF do.what = "new" THEN Blank ELSE Fresh(Configured)

Touch(p, do) ==
    LET h == do.on IN
    \/ /\ Creates(do)
       /\ \E f \in Unused :
             /\ entry' = [entry EXCEPT ![NameOf(h)] = f]
             /\ content' = [content EXCEPT ![f] = NewContent(do)]
             /\ opened' = [opened EXCEPT ![p][h] = f]
       /\ UNCHANGED conn
    \/ /\ do.what \in {"existing", "provided"} /\ ~Creates(do)
       /\ opened' = [opened EXCEPT ![p][h] = Named(h)]
       /\ UNCHANGED <<entry, content, conn>>
    \/ /\ do.what = "connect"
       /\ conn' = [conn EXCEPT ![p][h] = Named(h)]
       /\ UNCHANGED <<entry, content, opened>>
    \/ /\ do.what = "begin"          \* pages of the copy are being written
       /\ content' = [content EXCEPT ![conn[p][h]] = [@ EXCEPT !.whole = FALSE]]
       /\ UNCHANGED <<entry, opened, conn>>
    \/ /\ do.what = "copy"           \* one snapshot of the source, committed
       /\ content' = [content EXCEPT ![conn[p][h]] = content[conn[p]["source"]]]
       /\ UNCHANGED <<entry, opened, conn>>
    \/ /\ do.what \in {"free", "path", "moved", "identity", "whole", "same"}
       /\ UNCHANGED <<entry, content, opened, conn>>

(* One step of a script. *)
Advance(p, do) ==
    /\ p \notin failed
    /\ Passes(p, do) /\ Touch(p, do)
    /\ at' = [at EXCEPT ![p] = @ + 1]
    /\ UNCHANGED <<endpoint, failed, moves, writes>>

Fail(p) == failed' = failed \cup {p}

(* Mutant: the destination is left behind. *)
NoCleanup(p) == entry' = entry

(* remove_created_file: whatever the destination names now is unlinked, if *)
(* it names anything; a failed backup reports its error in either case.    *)
Cleanup(p) == entry' = IF InBackup(p) /\ opened[p]["target"] # Null
                         THEN [entry EXCEPT !["copy"] = Null] ELSE entry

StepOf(p) == CopyCommand[at[p]]

CopyStep ==
    /\ ~Finished(Maintenance) /\ Maintenance \notin failed
    /\ \/ Advance(Maintenance, StepOf(Maintenance))
       \/ /\ \/ ~Passes(Maintenance, StepOf(Maintenance))
             \/ StepOf(Maintenance).what \in {"begin", "copy"}     \* busy, or no room
          /\ Fail(Maintenance) /\ Cleanup(Maintenance)
          /\ UNCHANGED <<endpoint, content, at, opened, conn, moves, writes>>

-----------------------------------------------------------------------------
(* Someone else: two names exchange their files. *)
Exchange(a, b) ==
    /\ moves < MaxMoves /\ entry[a] # entry[b]
    /\ moves' = moves + 1
    /\ entry' = [entry EXCEPT ![a] = entry[b], ![b] = entry[a]]
    /\ UNCHANGED <<endpoint, content, at, opened, conn, failed, writes>>

(* A user of the store writes to it. *)
Write ==
    /\ writes < MaxWrites /\ writes' = writes + 1
    /\ LET f == entry["store"] IN
       /\ f # Null
       /\ content[f].whole /\ content[f].identity = Configured
       /\ content' = [content EXCEPT ![f].writes = @ + 1]
    /\ UNCHANGED <<entry, endpoint, at, opened, conn, failed, moves>>

NoHandles == [p \in Processes |-> [h \in Handles |-> Null]]
===============================================================================
