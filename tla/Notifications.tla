---------------------------- MODULE Notifications ----------------------------
(***************************************************************************)
(* The dispatcher and the notifiers of one server process,                 *)
(* internal/server/notifications.                                          *)
(*                                                                         *)
(* Dispatcher.Notify starts a goroutine for each notifier and waits for    *)
(* none; an error is logged and forgotten. Slack, webhooks, the SIEM's     *)
(* JSON endpoint and mail make one request for an event, which fails or    *)
(* not. The syslog notifier keeps one connection under a mutex: it dials   *)
(* when it has none, and when a write fails it reconnects and tries once   *)
(* more. Nothing outlives the process.                                     *)
(*                                                                         *)
(* The requests to Slack, webhooks and the JSON endpoint have a time       *)
(* limit. Mail and syslog have none and take no notice of the dispatcher's *)
(* deadline: as long as their peer stalls, so do they.                     *)
(***************************************************************************)
EXTENDS Naturals

CONSTANTS
  Events,
  Posters,     \* Slack, webhooks, JSON endpoints and mail: a request for each event
  Syslogs,     \* syslog notifiers
  Forwarded,   \* the events that each of the posters forwards
  Stalling,    \* those of mail and syslog, with no time limit, whose server may stall
  MaxOutages,  \* outages and stalls of their servers, the model's bound
  None

VARIABLES
  job,      \* the goroutine of a notifier and an event
  holder,   \* the event whose goroutine holds a syslog notifier's mutex
  writer,   \* its connection
  up,       \* the syslog notifiers whose server runs
  stalled,  \* the notifiers whose server has stopped answering, without closing a connection
  outages,  \* how many outages and stalls there have been
  met       \* history: the jobs that met an outage while they held the mutex

vars == <<job, holder, writer, up, stalled, outages, met>>

-----------------------------------------------------------------------------

Notifiers == Posters \cup Syslogs

Jobs == Notifiers \X Events

Ended == {"sent", "skipped", "failed", "lost"}

Steps == {"none", "called", "dial", "write", "redial", "rewrite"} \cup Ended

\* "broken": the server has gone down since the connection was made.
Writers == {"nil", "open", "broken"}

Init ==
  /\ job = [j \in Jobs |-> "none"]
  /\ holder = [n \in Syslogs |-> None]
  /\ writer = [n \in Syslogs |-> "nil"]
  /\ up = Syslogs
  /\ stalled = {}
  /\ outages = 0
  /\ met = {}

\* One goroutine for each notifier.
Notify(e) ==
  /\ job' = [j \in Jobs |-> IF j[2] = e THEN "called" ELSE job[j]]
  /\ UNCHANGED <<holder, writer, up, stalled, outages, met>>

\* One request, which may be refused, fail or run out of time.
Send(n, e) == \E result \in {"sent", "failed"} : job' = [job EXCEPT ![<<n, e>>] = result]

Skip(n, e) == job' = [job EXCEPT ![<<n, e>>] = "skipped"]

\* smtp.SendMail waits for a server that stalls; the other requests have a time limit.
Post(n, e) ==
  /\ n \in Posters \ stalled /\ job[<<n, e>>] = "called"
  /\ IF e \in Forwarded[n] THEN Send(n, e) ELSE Skip(n, e)
  /\ UNCHANGED <<holder, writer, up, stalled, outages, met>>

Goes(n, e, step) ==
  /\ job' = [job EXCEPT ![<<n, e>>] = step]
  /\ UNCHANGED holder

\* Faulty variant: an early return forgets the mutex.
ReturnsLocked(n, e, result) ==
  /\ job' = [job EXCEPT ![<<n, e>>] = result]
  /\ holder' = [holder EXCEPT ![n] = IF result = "sent" THEN None ELSE holder[n]]

\* Notify returns, and its mutex is unlocked.
Returns(n, e, result) ==
  /\ job' = [job EXCEPT ![<<n, e>>] = result]
  /\ holder' = [holder EXCEPT ![n] = None]

Lock(n, e) ==
  /\ n \in Syslogs /\ job[<<n, e>>] = "called" /\ holder[n] = None
  /\ holder' = [holder EXCEPT ![n] = e]
  /\ job' = [job EXCEPT ![<<n, e>>] = IF writer[n] = "nil" THEN "dial" ELSE "write"]
  /\ met' = IF n \in up THEN met ELSE met \cup {<<n, e>>}
  /\ UNCHANGED <<writer, up, stalled, outages>>

Dial(n, e) ==
  /\ job[<<n, e>>] \in {"dial", "redial"} /\ n \notin stalled
  /\ IF n \in up
     THEN /\ writer' = [writer EXCEPT ![n] = "open"]
          /\ Goes(n, e, IF job[<<n, e>>] = "dial" THEN "write" ELSE "rewrite")
     ELSE Returns(n, e, "failed") /\ UNCHANGED writer
  /\ UNCHANGED <<up, stalled, outages, met>>

\* Faulty variant: an error of the first write is final.
WriteErrorFinal(n, e) == Returns(n, e, "failed") /\ UNCHANGED writer

\* The first error closes the connection and makes a new one, the second is final.
WriteError(n, e) ==
  IF job[<<n, e>>] = "write"
  THEN Goes(n, e, "redial") /\ writer' = [writer EXCEPT ![n] = "nil"]
  ELSE Returns(n, e, "failed") /\ UNCHANGED writer

\* A write on a broken connection may go unnoticed.
Write(n, e) ==
  /\ job[<<n, e>>] \in {"write", "rewrite"} /\ n \notin stalled
  /\ \/ Returns(n, e, "sent") /\ UNCHANGED writer
     \/ writer[n] = "broken" /\ WriteError(n, e)
  /\ UNCHANGED <<up, stalled, outages, met>>

Deliver(n, e) == Post(n, e) \/ Lock(n, e) \/ Dial(n, e) \/ Write(n, e)

\* A syslog server goes down, with its connections, or the network gives up on one that
\* stalls.
Outage(n) ==
  /\ n \in up
  /\ \/ n \in stalled /\ UNCHANGED outages
     \/ n \notin stalled /\ outages < MaxOutages /\ outages' = outages + 1
  /\ up' = up \ {n}
  /\ stalled' = stalled \ {n}
  /\ writer' = [writer EXCEPT ![n] = IF @ = "nil" THEN "nil" ELSE "broken"]
  /\ met' = met \cup {j \in Jobs : j[1] = n /\ holder[n] = j[2]}
  /\ UNCHANGED <<job, holder>>

\* A server keeps its connections open and reads and answers nothing.
Stall(n) ==
  /\ n \in Stalling \ stalled /\ n \in Posters \cup up /\ outages < MaxOutages
  /\ stalled' = stalled \cup {n}
  /\ outages' = outages + 1
  /\ UNCHANGED <<job, holder, writer, up, met>>

\* It comes back, or goes on.
Recovery(n) ==
  /\ n \in stalled \cup (Syslogs \ up)
  /\ up' = up \cup ({n} \cap Syslogs)
  /\ stalled' = stalled \ {n}
  /\ UNCHANGED <<job, holder, writer, outages, met>>

\* The process exits: what is not delivered is lost.
Exit ==
  /\ job' = [j \in Jobs |-> IF job[j] \in Ended \cup {"none"} THEN job[j] ELSE "lost"]
  /\ holder' = [n \in Syslogs |-> None]
  /\ writer' = [n \in Syslogs |-> "nil"]
  /\ UNCHANGED <<up, stalled, outages, met>>

-----------------------------------------------------------------------------
(* Properties *)

\* Every variable keeps its type.
TypeOK ==
  /\ job \in [Jobs -> Steps]
  /\ holder \in [Syslogs -> Events \cup {None}]
  /\ writer \in [Syslogs -> Writers]
  /\ up \subseteq Syslogs
  /\ stalled \subseteq Posters \cup up
  /\ outages \in 0 .. MaxOutages
  /\ met \subseteq Jobs

\* The syslog notifier gives up an event only if the server was down while it tried: a
\* connection that broke before, or that an earlier failure left behind, costs no event.
FailedOnlyWhenDown ==
  \A n \in Syslogs, e \in Events : job[<<n, e>>] = "failed" => <<n, e>> \in met

\* Every notification that was dispatched is delivered, refused, given up or lost with the
\* process, unless its own notifier's server stalls for good: no event waits for ever for the
\* mutex that another one has taken, whatever that one met.
NotificationsEnd ==
  \A j \in Jobs : []<>(job[j] \in {"none"} \cup Ended \/ j[1] \in stalled)
=============================================================================
