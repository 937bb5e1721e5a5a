---------------------------- MODULE DaemonSessions ----------------------------
(***************************************************************************)
(* `why serve` and `why serve-daemon` (mcp/transport.rs, mcp/protocol.rs)  *)
(* on the files of StoreFiles.                                             *)
(*                                                                         *)
(* Every server opens the store once to bind itself to it: to the path and *)
(* to the file under it.  The daemon opens it again to serve it and listens*)
(* beside it.  A client that finds an endpoint has the daemon compare its  *)
(* binding with its own and then forwards its input and output; one that   *)
(* finds none serves the store itself.  Whoever serves a session checks    *)
(* the binding again before every request, under the lock of its store.    *)
(***************************************************************************)
EXTENDS StoreFiles

CONSTANTS
    Daemon,          \* the server that runs serve-daemon
    Situations,      \* bound: the processes that run together, the files of
                     \* the names and what they hold, at the start, how much
                     \* of MaxMoves is used up, and the file that a daemon
                     \* started before serves
    MaxRequests      \* bound: requests of a client

VARIABLES
    cast,            \* the processes of this behaviour
    binding,         \* server -> the file its Binding names
    link,            \* client -> its way to the store
    session,         \* client -> where the serving side of its session is
    sent, answered,  \* client -> requests written, and answered
    eof,             \* clients whose input has ended
    since,           \* client -> moves when its request's check began
    lock             \* server -> the client whose session holds the lock of its store

vars == <<files, cast, binding, link, session, sent, answered, eof, since, lock>>
sessions == <<link, session, sent, answered, eof, since, lock>>

ASSUME SessionsAssumption ==
    /\ Daemon \in Servers /\ Null \notin Servers
    /\ \A s \in Situations :
           /\ s.cast \subseteq Processes /\ s.moves \in 0..MaxMoves
           /\ s.serving \in Files \cup {Null}
           /\ s.serving # Null => s.content[s.serving] = Fresh(Configured)
           /\ s.entry \in [Names -> Files \cup {Null}]
           /\ s.content \in [Files -> {v \in Content : v.writes = 0} \cup {Null}]
           /\ \A n \in Names : s.entry[n] # Null => s.content[s.entry[n]] # Null
           /\ \A m, n \in Names : m # n /\ s.entry[m] # Null => s.entry[m] # s.entry[n]
    /\ MaxRequests \in Nat
-----------------------------------------------------------------------------
Clients == Servers \ {Daemon}

(* Binding::verify. *)
BindingVerify(h) == <<Do("moved", h), Do("bound", h)>>

(* Store::open and Binding::configured. *)
Configuring == Opening("provided", "lexical")
               \o <<Do("identity", "lexical"), Do("bind", "lexical"),
                    Do("moved", "lexical")>> \o BindingVerify("lexical")

(* The open that is served from, after the first was dropped. *)
Serving == Opening("provided", "serving") \o <<Do("identity", "serving")>>
           \o BindingVerify("serving")

DaemonScript == Configuring \o Serving \o <<Do("listen", "serving"), Do("chmod", "serving")>>

ScriptOf(p) ==
    IF p = Daemon THEN DaemonScript
    ELSE Configuring \o <<Do("endpoint", "lexical")>>
         \o (IF link[p] = "direct" THEN Serving
             ELSE <<Do("handshake", "lexical")>> \o BindingVerify("lexical"))

Running(p) == p \in cast \ failed
Ready(p) == at[p] > Len(ScriptOf(p))
Listening == endpoint["store"] \in {"wide", "private"}

FileStep == {"provided", "path", "connect", "moved", "identity"}

(* What a step of a server requires.  The daemon never removes an endpoint *)
(* it finds; a client uses a live one that is private to its user.         *)
Allowed(p, do) ==
    CASE do.what \in FileStep -> Passes(p, do)
      [] do.what = "bind" -> entry["store"] # Null
      [] do.what = "bound" -> entry["store"] = binding[p]
      [] do.what = "listen" -> endpoint["store"] = "none"
      [] do.what = "endpoint" -> endpoint["store"] \in {"none", "private"}
      [] do.what \in {"chmod", "handshake"} -> TRUE

Here(p) == at' = [at EXCEPT ![p] = @ + 1]

Perform(p, do) ==
    \/ do.what \in FileStep /\ Advance(p, do) /\ UNCHANGED <<binding, sessions>>
    \/ /\ do.what = "bind" /\ Here(p)
       /\ binding' = [binding EXCEPT ![p] = entry["store"]]
       /\ UNCHANGED <<entry, endpoint, content, opened, conn, failed, moves, writes, sessions>>
    \/ /\ do.what = "bound" /\ Here(p)
       /\ UNCHANGED <<entry, endpoint, content, opened, conn, failed, moves, writes, binding, sessions>>
    \/ /\ do.what \in {"listen", "chmod"} /\ Here(p)
       /\ endpoint' = [endpoint EXCEPT !["store"] =
                          IF do.what = "listen" THEN "wide" ELSE "private"]
       /\ UNCHANGED <<entry, content, opened, conn, failed, moves, writes, binding, sessions>>
    \/ /\ do.what = "endpoint" /\ Here(p)      \* Binding::connect
       /\ \/ /\ endpoint["store"] = "none"
             /\ link' = [link EXCEPT ![p] = "direct"]
             /\ session' = [session EXCEPT ![p] = "idle"]
          \/ /\ endpoint["store"] = "private"
             /\ link' = [link EXCEPT ![p] = "proxy"]
             /\ session' = [session EXCEPT ![p] = "asked"]
       /\ UNCHANGED <<entry, endpoint, content, opened, conn, failed, moves, writes,
                      binding, sent, answered, eof, since, lock>>
    \/ /\ do.what = "handshake" /\ session[p] = "idle" /\ Here(p)
       /\ UNCHANGED <<entry, endpoint, content, opened, conn, failed, moves, writes, binding, sessions>>

Close(c) == session' = [session EXCEPT ![c] = "closed"]

(* The daemon serves its proxies, each in a thread of its own; all of them *)
(* share its store, and the lock around it.                                *)
Owner(c) == IF link[c] = "proxy" THEN Daemon ELSE c
Holds(c) == lock[Owner(c)] = c

(* A server that gives up: its client's session ends with it.  A thread of *)
(* the daemon that is verifying the binding finds the client gone later.   *)
GiveUp(p) ==
    /\ Fail(p)
    /\ IF p \in Clients /\ ~Holds(p) THEN Close(p) ELSE UNCHANGED session
    /\ UNCHANGED <<entry, endpoint, content, at, opened, conn, moves, writes,
                   binding, link, sent, answered, eof, since, lock>>

StartStep(p) ==
    /\ Running(p) /\ ~Ready(p)
    /\ LET do == ScriptOf(p)[at[p]] IN
       \/ Allowed(p, do) /\ Perform(p, do)
       \/ ~Allowed(p, do) /\ GiveUp(p)
       \/ do.what = "handshake" /\ session[p] # "idle" /\ GiveUp(p)  \* refused, or 5 s went by
    /\ UNCHANGED cast
-----------------------------------------------------------------------------
(* Sessions. *)
Checking == {"moved", "bound", "handled"}
Guarded == Checking \cup {"greeting", "greeted"}
Lives(c) == Running(Owner(c))

At(c, where) == session' = [session EXCEPT ![c] = where]
Quiet == UNCHANGED <<files, cast, binding, link>>

(* Mutant: a session that finds the lock taken goes on without it. *)
NeverTaken(p) == p \in Servers
(* The lock is a mutex.  Its guard is dropped with its scope, after an     *)
(* error and a panic too: a poisoned lock is taken like any other.         *)
Free(p) == lock[p] = Null
Take(c) == lock' = [lock EXCEPT ![Owner(c)] = c]
Drop(c) == lock' = [lock EXCEPT ![Owner(c)] = Null]

(* Mutant: a session that ends on an error leaves the lock taken. *)
RefuseLocked(c) == Close(c) /\ UNCHANGED lock
(* A check failed under the lock: the error ends the session. *)
Refuse(c) == Close(c) /\ Drop(c)

Unmoved(c) == entry["store"] = conn[Owner(c)]["serving"]
StillBound(c) == entry["store"] = binding[Owner(c)]

(* Mutant: a binding names the path and the store's identity only. *)
AcceptIdentity(c) == content[binding[c]].identity = content[binding[Daemon]].identity
(* Binding::accept. *)
Accept(c) == binding[c] = binding[Daemon]

(* A new session: the binding is verified under the lock, then compared    *)
(* with the client's without it.                                           *)
Greet(c) ==
    /\ link[c] = "proxy" /\ Lives(c)
    /\ \/ session[c] = "asked" /\ Free(Daemon) /\ At(c, "greeting") /\ Take(c)
       \/ session[c] = "greeting"
          /\ IF Unmoved(c) THEN At(c, "greeted") /\ UNCHANGED lock ELSE Refuse(c)
       \/ session[c] = "greeted"
          /\ IF StillBound(c) THEN At(c, "verified") /\ Drop(c) ELSE Refuse(c)
       \/ session[c] = "verified" /\ UNCHANGED lock
          /\ IF Running(c) /\ Accept(c) THEN At(c, "idle") ELSE Close(c)
    /\ Quiet /\ UNCHANGED <<sent, answered, eof, since>>

(* The client's input: requests, and its end.  A proxy passes it on and    *)
(* closes its half of the connection.                                      *)
Send(c) ==
    /\ Running(c) /\ Ready(c) /\ c \notin eof /\ session[c] \notin {"ended", "closed"}
    /\ \/ sent[c] < MaxRequests /\ sent' = [sent EXCEPT ![c] = @ + 1] /\ UNCHANGED eof
       \/ eof' = eof \cup {c} /\ UNCHANGED sent
    /\ Quiet /\ UNCHANGED <<session, answered, since, lock>>

(* serve_io_checked sees the end after the requests before it. *)
InputEnds(c) == c \in eof /\ sent[c] = answered[c]

(* A request is read before the lock is taken. *)
Begin(c) == session[c] = "idle" /\ answered[c] < sent[c] /\ Free(Owner(c)) /\ Take(c)

(* Mutant: a line that holds no request is handled like one. *)
CheckAnything(c) == session[c] = "idle" /\ At(c, "answering") /\ UNCHANGED <<since, lock>>

(* serve_io_checked: lock, verify the binding, handle, answer. *)
Check(c) ==
    \/ Begin(c) /\ At(c, "moved") /\ since' = [since EXCEPT ![c] = moves]
    \/ /\ session[c] = "moved" /\ UNCHANGED since
       /\ IF Unmoved(c) THEN At(c, "bound") /\ UNCHANGED lock ELSE Refuse(c)
    \/ /\ session[c] = "bound" /\ UNCHANGED since
       /\ IF StillBound(c) THEN At(c, "handled") /\ UNCHANGED lock ELSE Refuse(c)

(* handle_message; a handler that panics ends its session. *)
Handle(c) == session[c] = "handled" /\ Drop(c) /\ (At(c, "answering") \/ Close(c))

(* The response is written without the lock. *)
Answer(c) ==
    /\ session[c] = "answering" /\ At(c, "idle")
    /\ answered' = [answered EXCEPT ![c] = @ + 1]

Serve(c) ==
    /\ Lives(c) /\ (link[c] = "proxy" \/ Ready(c))
    /\ \/ Check(c) /\ UNCHANGED answered
       \/ Handle(c) /\ UNCHANGED <<answered, since>>
       \/ Answer(c) /\ UNCHANGED <<since, lock>>
       \/ /\ session[c] = "idle" /\ InputEnds(c) /\ At(c, "ended")
          /\ UNCHANGED <<answered, since, lock>>
    /\ Quiet /\ UNCHANGED <<sent, eof>>

(* The daemon dies and leaves its endpoint behind.  (A client that dies is *)
(* to the daemon a client whose input ends.)                               *)
Die ==
    /\ Running(Daemon) /\ Fail(Daemon)
    /\ session' = [c \in Clients |-> IF Owner(c) = Daemon THEN "closed" ELSE session[c]]
    /\ lock' = [lock EXCEPT ![Daemon] = Null]
    /\ endpoint' = IF Listening THEN [endpoint EXCEPT !["store"] = "stale"] ELSE endpoint
    /\ UNCHANGED <<entry, content, at, opened, conn, moves, writes,
                   cast, binding, link, sent, answered, eof, since>>
-----------------------------------------------------------------------------
(* The daemon serves the store that had the name when it was started.      *)
Started(f) ==
    /\ at = [[p \in Processes |-> 1] EXCEPT ![Daemon] = Len(DaemonScript) + 1]
    /\ opened = [NoHandles EXCEPT ![Daemon] = [@ EXCEPT !["lexical"] = f, !["serving"] = f]]
    /\ conn = opened
    /\ binding = [[p \in Servers |-> Null] EXCEPT ![Daemon] = f]
    /\ endpoint = [n \in {"store", "copy"} |-> IF n = "store" THEN "private" ELSE "none"]

Unstarted ==
    /\ at = [p \in Processes |-> 1]
    /\ opened = NoHandles /\ conn = NoHandles
    /\ binding = [p \in Servers |-> Null]
    /\ endpoint \in {e \in [{"store", "copy"} -> {"none", "stale"}] :
                        e["copy"] = "none" \/ Maintenance \in cast}

Init ==
    /\ \E s \in Situations :
          /\ cast = s.cast /\ entry = s.entry /\ content = s.content /\ moves = s.moves
          /\ IF s.serving # Null THEN Started(s.serving) ELSE Unstarted
    /\ failed = {} /\ writes = 0
    /\ link = [c \in Clients |-> "none"]
    /\ session = [c \in Clients |-> "none"]
    /\ sent = [c \in Clients |-> 0] /\ answered = [c \in Clients |-> 0]
    /\ eof = {} /\ since = [c \in Clients |-> 0]
    /\ lock = [p \in Servers |-> Null]

Work == \/ \E p \in Servers : StartStep(p)
        \/ \E c \in Clients \cap cast : Greet(c) \/ Serve(c)
        \/ Maintenance \in cast /\ CopyStep /\ UNCHANGED <<cast, binding, sessions>>
World == \/ \E c \in Clients \cap cast : Send(c)
         \/ Die
         \/ /\ \E a \in {"store", "copy"}, b \in {"copy", "aside"} : Exchange(a, b)
            /\ UNCHANGED <<cast, binding, sessions>>
         \/ Maintenance \in cast /\ Write /\ UNCHANGED <<cast, binding, sessions>>
Next == Work \/ World

(* Every thread goes on; nobody has to send, to rename or to die. *)
Fairness == /\ \A p \in Servers : WF_vars(StartStep(p))
            /\ \A c \in Clients : WF_vars(c \in cast /\ Greet(c)) /\ WF_vars(c \in cast /\ Serve(c))
            /\ WF_vars(Maintenance \in cast /\ CopyStep /\ UNCHANGED <<cast, binding, sessions>>)

Spec == Init /\ [][Next]_vars /\ Fairness
-----------------------------------------------------------------------------
(* Properties. *)

(* Types of the state. *)
FilesTypeOK ==
    /\ entry \in [Names -> Files \cup {Null}]
    /\ \A a, b \in Names : a # b /\ entry[a] # Null => entry[a] # entry[b]
    /\ endpoint \in [{"store", "copy"} -> {"none", "wide", "private", "stale"}]
    /\ content \in [Files -> Content \cup {Null}]
    /\ \A n \in Names : entry[n] # Null => content[entry[n]] # Null
    /\ opened \in [Processes -> [Handles -> Files \cup {Null}]]
    /\ conn \in [Processes -> [Handles -> Files \cup {Null}]]
    /\ binding \in [Servers -> Files \cup {Null}]
    /\ link \in [Clients -> {"none", "direct", "proxy"}]
    /\ session \in [Clients -> Guarded \cup {"none", "asked", "verified", "idle",
                                           "answering", "ended", "closed"}]
    /\ lock \in [Servers -> Clients \cup {Null}]
    /\ \A p \in Servers : at[p] \in 1..(Len(ScriptOf(p)) + 1)
    /\ \A c \in Clients : 0 <= answered[c] /\ answered[c] <= sent[c]

(* A backup or restore that reports success has left a whole store with    *)
(* the configured identity; when nobody renamed anything, it is the file   *)
(* the command made, under the name it was given, and holds no write that  *)
(* its source does not (db/backup.rs:backup_to_with, bin/maintenance).     *)
BackupIsWhole ==
    Maintenance \in cast \ failed /\ Finished(Maintenance) =>
        LET result == conn[Maintenance]["result"]
            source == conn[Maintenance]["source"] IN
        /\ content[result].whole /\ content[result].identity = Configured
        /\ moves = 0 => /\ result = opened[Maintenance]["target"]
                        /\ entry["copy"] = result
                        /\ content[result].writes <= content[source].writes

(* The copy is written into no file but the one the command created: an    *)
(* existing store is never overwritten, although SQLite opened the name a  *)
(* second time, unless the names were exchanged five times.  Each of the   *)
(* four checks after the open needs one more exchange to be passed: away   *)
(* before the open, then back, away, back and away again, in step with the *)
(* checks (private_store_path.rs:verify_connection_target).                *)
BackupWritesOnlyItsFile ==
    [][\A f \in Files :
          /\ content'[f] # content[f] /\ at'[Maintenance] # at[Maintenance]
          /\ moves < 5
          => opened'[Maintenance]["target"] = f]_vars

(* A backup that failed, before anybody renamed anything, has left its     *)
(* destination as it was: no file of its own, and the file that was there  *)
(* (db/backup.rs: the cleanup after an error).                             *)
FailedBackupLeavesNoTrace ==
    [][/\ Maintenance \in failed' \ failed /\ moves = 0
       /\ opened[Maintenance]["result"] = Null
       => entry' = [entry EXCEPT !["copy"] =
                       IF opened[Maintenance]["target"] = Null THEN @ ELSE Null]]_vars

(* A request is handled on the file its client is bound to, by the name it *)
(* is bound to, unless the name moved during the check of that very        *)
(* request: also in a session that was accepted long before                *)
(* (mcp/protocol.rs:serve_io_checked, mcp/transport.rs:accept).            *)
AnswersComeFromTheBoundFile ==
    \A c \in Clients : session[c] = "handled" /\ since[c] = moves =>
        /\ conn[Owner(c)]["serving"] = binding[c]
        /\ entry["store"] = binding[c]

(* Whoever holds the lock of a store is a session of that server that is   *)
(* verifying its binding or handling a request, and every session that     *)
(* does so holds it: none leaves it taken behind it, refused, answered or  *)
(* given up by its client, and no two sessions use the daemon's connection *)
(* at a time (mcp/protocol.rs:serve_daemon, serve_io_checked).             *)
LockIsHeldInUse ==
    /\ \A p \in Servers :
           lock[p] # Null => Owner(lock[p]) = p /\ session[lock[p]] \in Guarded
    /\ \A c \in Clients : session[c] \in Guarded => Holds(c)

(* Every request a client wrote is answered, also after the end of its     *)
(* input, unless its session is closed on an error, however the sessions   *)
(* of several clients contend for the lock and whichever of them are       *)
(* refused under it; and the half-closed connection still carries the      *)
(* answers (mcp/protocol.rs:serve_daemon, serve_io_checked, proxy_stdio).  *)
RequestsAreAnswered ==
    \A c \in Clients :
        sent[c] > answered[c] ~> (sent[c] = answered[c] \/ session[c] = "closed")
===============================================================================
