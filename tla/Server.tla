------------------------------- MODULE Server -------------------------------
(***************************************************************************)
(* One jitsudod process: start-up, calls, the sweeper's lock and shutdown  *)
(* (cmd/jitsudod/serve.go, internal/server/server.go, internal/store).     *)
(*                                                                         *)
(* A signal cancels the context of the process. Start then stops the gRPC  *)
(* server, which waits for the calls it has accepted; then the HTTP        *)
(* server, for which it waits 30 seconds; then runServe closes the pool of *)
(* database connections, which waits for those in use. Any error ends the  *)
(* process at once. The REST gateway's calls go through a connection to    *)
(* the gRPC server that the signal closes; the MCP endpoint is part of the *)
(* HTTP server. Whatever has ended the process, something starts it again. *)
(* To the other replicas only the sweep lock matters here.                 *)
(***************************************************************************)
EXTENDS Naturals

CONSTANTS
  Calls,   \* calls of clients; each is made once and notifies at most once
  Ways,    \* the kinds of call each can be
  Posters, Syslogs, Forwarded, Stalling, MaxOutages, None,  \* of Notifications
  MaxEnds  \* signals and failures, the model's bound

\* How calls come: by gRPC, by the REST gateway or to the MCP endpoint.
Kinds == {"native", "gateway", "mcp"}

ASSUME ConstantsAssumption ==
  /\ MaxEnds \in Nat /\ MaxOutages \in Nat
  /\ Ways \in [Calls -> SUBSET Kinds]
  /\ Syslogs \cap Posters = {} /\ None \notin Calls

VARIABLES
  proc,       \* what the process does
  signalled,  \* its context is cancelled
  call,       \* what each call does
  kind,       \* how it has come
  cancelled,  \* the calls whose context is cancelled
  sweep,      \* the sweeper sweeps
  locked,     \* a database session of the process holds the sweep lock
  schema,     \* the database's migrations
  ends,       \* how many signals and failures there have been
  job, holder, writer, up, stalled, outages, met  \* of Notifications

notificationVars == <<job, holder, writer, up, stalled, outages, met>>

vars == <<proc, signalled, call, kind, cancelled, sweep, locked, schema, ends, notificationVars>>

Notifications == INSTANCE Notifications WITH Events <- Calls

-----------------------------------------------------------------------------
(* The process *)

\* It has exited, with an error or after a signal.
Off == {"down", "stopped"}

Phases ==
  Off \cup {"migrate", "migrating", "open", "assemble", "serving", "draining", "shutdown", "close"}

Running == {"accepted", "notified"}

\* A call that the process's exit cuts short is told by how it exited.
CallSteps == Running \cup {"idle", "returned", "stopped", "timedout", "failed"}

Handling(kinds) == {c \in Calls : kind[c] \in kinds /\ call[c] \in Running}

\* Its goroutines and its database sessions end with the process.
Exits(how) ==
  /\ proc' = IF how = "stopped" THEN "stopped" ELSE "down"
  /\ call' = [c \in Calls |-> IF call[c] \in Running THEN how ELSE call[c]]
  /\ sweep' = FALSE
  /\ locked' = FALSE
  /\ Notifications!Exit
  /\ UNCHANGED <<signalled, kind, cancelled, schema>>

Moves(from, to) ==
  /\ proc = from /\ proc' = to
  /\ UNCHANGED <<signalled, call, kind, cancelled, sweep, locked, ends, notificationVars>>

\* A supervisor starts the process (again).
Restart ==
  /\ proc \in Off
  /\ proc' = "migrate" /\ signalled' = FALSE
  /\ UNCHANGED <<call, kind, cancelled, sweep, locked, schema, ends, notificationVars>>

\* Migrations mark the database dirty while they run; a dirty one is an error.
RunMigrations ==
  \/ Moves("migrate", "migrating") /\ schema = "old" /\ schema' = "dirty"
  \/ Moves("migrating", "open") /\ schema' = "current"
  \/ Moves("migrate", "open") /\ schema = "current" /\ UNCHANGED schema
  \/ proc = "migrate" /\ schema = "dirty" /\ Exits("failed") /\ UNCHANGED ends

\* Faulty variant: it waits instead of failing.
StartStepWaits(from, to) == ~signalled /\ Moves(from, to) /\ UNCHANGED schema

\* A step of the start that fails when the context is cancelled.
StartStep(from, to) ==
  \/ ~signalled /\ Moves(from, to) /\ UNCHANGED schema
  \/ proc = from /\ signalled /\ Exits("failed") /\ UNCHANGED ends

\* store.New
Open == StartStep("open", "assemble")

\* Server.Start up to its last goroutine.
Assemble == StartStep("assemble", "serving")

Signal ==
  /\ proc \notin Off /\ ~signalled /\ ends < MaxEnds
  /\ signalled' = TRUE /\ ends' = ends + 1
  /\ UNCHANGED <<proc, call, kind, cancelled, sweep, locked, schema, notificationVars>>

\* Faulty variant: Stop instead of GracefulStop.
WaitsForNone == {}

\* The calls GracefulStop waits for.
WaitsFor == Handling({"native", "gateway"})

BeginShutdown == signalled /\ Moves("serving", "draining") /\ UNCHANGED schema

GracefulStop == WaitsFor = {} /\ Moves("draining", "shutdown") /\ UNCHANGED schema

Shutdown == Handling({"mcp"}) = {} /\ Moves("shutdown", "close") /\ UNCHANGED schema

\* An error, so the process ends without closing the pool.
ShutdownTimeout ==
  /\ proc = "shutdown" /\ Handling({"mcp"}) # {}
  /\ Exits("timedout") /\ UNCHANGED ends

\* Closing the pool waits for the sweeper's connection; main returns.
Close == proc = "close" /\ ~sweep /\ Exits("stopped") /\ UNCHANGED ends

\* A crash, or an error that log.Fatal reports.
Fail ==
  /\ proc \notin Off /\ ends < MaxEnds
  /\ ends' = ends + 1
  /\ Exits("failed")

-----------------------------------------------------------------------------
(* Calls *)

Listening(k) ==
  IF k = "mcp" THEN proc \in {"serving", "draining"} ELSE proc = "serving"

Accept(c, k) ==
  /\ call[c] = "idle" /\ k \in Ways[c] /\ Listening(k)
  /\ call' = [call EXCEPT ![c] = "accepted"]
  /\ kind' = [kind EXCEPT ![c] = k]
  /\ UNCHANGED <<proc, signalled, cancelled, sweep, locked, schema, ends, notificationVars>>

\* The workflow engine hands an event to the notifiers and goes on.
Dispatch(c) ==
  /\ call[c] = "accepted"
  /\ call' = [call EXCEPT ![c] = "notified"]
  /\ Notifications!Notify(c)
  /\ UNCHANGED <<proc, signalled, kind, cancelled, sweep, locked, schema, ends>>

Return(c) ==
  /\ call[c] \in Running
  /\ call' = [call EXCEPT ![c] = "returned"]
  /\ UNCHANGED <<proc, signalled, kind, cancelled, sweep, locked, schema, ends, notificationVars>>

\* The calls that lose their client when the signal closes the gateway's connection.
CancelledKinds == {"gateway"}

Cancel(c) ==
  /\ signalled /\ call[c] \in Running /\ kind[c] \in CancelledKinds /\ c \notin cancelled
  /\ cancelled' = cancelled \cup {c}
  /\ UNCHANGED <<proc, signalled, call, kind, sweep, locked, schema, ends, notificationVars>>

-----------------------------------------------------------------------------
(* The sweep lock *)

\* A tick after the signal gets no connection.
TryAcquireSweepLock ==
  /\ proc = "serving" /\ ~signalled /\ ~sweep /\ ~locked
  /\ sweep' = TRUE /\ locked' = TRUE
  /\ UNCHANGED <<proc, signalled, call, kind, cancelled, schema, ends, notificationVars>>

\* Faulty variant: the end of a sweep forgets the lock.
StillLockedAlways == {TRUE}

\* With the context cancelled nothing is sent: the connection goes back to the pool with
\* the lock, or breaks.
StillLocked == IF signalled THEN {TRUE, FALSE} ELSE {FALSE}

ReleaseSweepLock ==
  /\ sweep
  /\ sweep' = FALSE /\ locked' \in StillLocked
  /\ UNCHANGED <<proc, signalled, call, kind, cancelled, schema, ends, notificationVars>>

-----------------------------------------------------------------------------

Init ==
  /\ proc = "down" /\ signalled = FALSE
  /\ call = [c \in Calls |-> "idle"] /\ kind = [c \in Calls |-> "native"] /\ cancelled = {}
  /\ sweep = FALSE /\ locked = FALSE
  /\ schema \in {"old", "current"}
  /\ ends = 0
  /\ Notifications!Init

Deliver(n, c) ==
  /\ Notifications!Deliver(n, c)
  /\ UNCHANGED <<proc, signalled, call, kind, cancelled, sweep, locked, schema, ends>>

Peer(n) ==
  /\ Notifications!Outage(n) \/ Notifications!Stall(n) \/ Notifications!Recovery(n)
  /\ UNCHANGED <<proc, signalled, call, kind, cancelled, sweep, locked, schema, ends>>

\* What the process does by itself.
Progress ==
  \/ RunMigrations \/ Open \/ Assemble
  \/ BeginShutdown \/ GracefulStop \/ Shutdown \/ Close

Next ==
  \/ Restart \/ Progress \/ ShutdownTimeout \/ Signal \/ Fail
  \/ \E c \in Calls, k \in Kinds : Accept(c, k)
  \/ \E c \in Calls : Dispatch(c) \/ Return(c) \/ Cancel(c)
  \/ TryAcquireSweepLock \/ ReleaseSweepLock
  \/ \E n \in Notifications!Notifiers, c \in Calls : Deliver(n, c)
  \/ \E n \in Notifications!Notifiers : Peer(n)

Spec == Init /\ [][Next]_vars

\* The process, its supervisor and its goroutines go on. A goroutine that waits for a server
\* that stalls cannot: nothing is assumed of mail and syslog servers.
FairSpec ==
  /\ Spec
  /\ WF_vars(Restart) /\ WF_vars(Progress) /\ WF_vars(ReleaseSweepLock)
  /\ \A c \in Calls : WF_vars(Return(c))
  /\ \A n \in Notifications!Notifiers, c \in Calls : WF_vars(Deliver(n, c))

-----------------------------------------------------------------------------
(* Properties *)

\* Every variable keeps its type.
TypeOK ==
  /\ proc \in Phases /\ signalled \in BOOLEAN
  /\ call \in [Calls -> CallSteps] /\ kind \in [Calls -> Kinds] /\ cancelled \subseteq Calls
  /\ sweep \in BOOLEAN /\ locked \in BOOLEAN
  /\ schema \in {"old", "dirty", "current"}
  /\ ends \in 0 .. MaxEnds
  /\ Notifications!TypeOK

\* A signal takes no call of native gRPC away: neither its context nor its process, which
\* waits for it; it cuts an MCP call only after the time limit. Only a failure of the
\* process ends other calls.
SignalCutsNoCall ==
  \A c \in Calls :
    /\ call[c] # "stopped"
    /\ call[c] = "timedout" => kind[c] = "mcp"
    /\ c \in cancelled => kind[c] = "gateway"

\* However processes are stopped and fail, the sweep lock comes free again and again: one
\* that a signalled sweep leaves behind goes with its process, which waits for nothing
\* that does not end.
LockComesFree == []<>~locked

\* A process that was stopped or has failed comes to serve again, unless a failure has
\* cut a migration.
ServesAgain == <>[](schema = "dirty") \/ []<>(proc = "serving")

FailedOnlyWhenDown == Notifications!FailedOnlyWhenDown

NotificationsEnd == Notifications!NotificationsEnd
=============================================================================
