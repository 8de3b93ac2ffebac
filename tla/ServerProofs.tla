---------------------------- MODULE ServerProofs ----------------------------
(***************************************************************************)
(* What Server promises for any number of calls, notifiers, signals,       *)
(* failures and outages. A call that runs pins the process to the phases   *)
(* that serve it (CallsInPhase), and the goroutine that has the mutex of a *)
(* syslog notifier is the only one past it (Holders), so that whatever     *)
(* fails there has met an outage (Meetings).                               *)
(***************************************************************************)
EXTENDS Server, TLAPS

Serving == {"serving", "draining", "shutdown"}

Holding == {"dial", "write", "redial", "rewrite"}

\* A running call has a process that waits for it or, past GracefulStop, is one to MCP;
\* only gateway calls are cancelled.
CallsInPhase ==
  \A c \in Calls :
    /\ call[c] \in Running => /\ proc \in Serving
                              /\ proc = "shutdown" => kind[c] = "mcp"
    /\ c \in cancelled => call[c] # "idle" /\ kind[c] = "gateway"

\* Only a call that has notified has jobs.
JobsOfCalls ==
  \A c \in Calls, n \in Notifications!Notifiers :
    call[c] \in {"idle", "accepted"} => job[<<n, c>>] = "none"

\* One goroutine at a time is past the mutex of a syslog notifier, and it holds it.
Holders ==
  \A c \in Calls :
    /\ \A n \in Syslogs : holder[n] = c <=> job[<<n, c>>] \in Holding
    /\ \A n \in Posters : job[<<n, c>>] \notin Holding

\* A holder whose server is down, or whose second connection is broken, met an outage.
Meetings ==
  \A n \in Syslogs, c \in Calls :
    holder[n] = c =>
      /\ n \notin up => <<n, c>> \in met
      /\ job[<<n, c>>] = "rewrite" /\ writer[n] = "broken" => <<n, c>> \in met

CallInv == TypeOK /\ CallsInPhase /\ SignalCutsNoCall

JobInv == CallInv /\ JobsOfCalls /\ Holders /\ Meetings /\ FailedOnlyWhenDown

-----------------------------------------------------------------------------
(* The state of the notifications *)

\* What a step of the server does to the notifications.
NotificationStep ==
  \/ Notifications!Exit
  \/ \E c \in Calls : call[c] = "accepted" /\ Notifications!Notify(c)
  \/ \E n \in Notifications!Notifiers, c \in Calls : Notifications!Deliver(n, c)
  \/ \E n \in Notifications!Notifiers :
       Notifications!Outage(n) \/ Notifications!Stall(n) \/ Notifications!Recovery(n)
  \/ UNCHANGED notificationVars

LEMMA StepsNotify == ASSUME Next PROVE NotificationStep
  <1> USE DEF NotificationStep
  <1>1. CASE Restart
    BY <1>1 DEF Restart
  <1>2. CASE Progress
    BY <1>2 DEF Progress, RunMigrations, Open, Assemble, StartStep, Moves, Exits,
                BeginShutdown, GracefulStop, Shutdown, Close
  <1>3. CASE ShutdownTimeout \/ Fail
    BY <1>3 DEF ShutdownTimeout, Fail, Exits
  <1>4. CASE Signal \/ TryAcquireSweepLock \/ ReleaseSweepLock
    BY <1>4 DEF Signal, TryAcquireSweepLock, ReleaseSweepLock
  <1>5. CASE \E c \in Calls, k \in Kinds : Accept(c, k)
    BY <1>5 DEF Accept
  <1>6. CASE \E c \in Calls : Dispatch(c) \/ Return(c) \/ Cancel(c)
    BY <1>6 DEF Dispatch, Return, Cancel
  <1>7. CASE \E n \in Notifications!Notifiers, c \in Calls : Deliver(n, c)
    BY <1>7 DEF Deliver
  <1>8. CASE \E n \in Notifications!Notifiers : Peer(n)
    BY <1>8 DEF Peer
  <1> QED BY <1>1, <1>2, <1>3, <1>4, <1>5, <1>6, <1>7, <1>8 DEF Next

LEMMA NotificationsInitTypeOK == ASSUME Notifications!Init PROVE Notifications!TypeOK
  BY ConstantsAssumption DEF Notifications!Init, Notifications!TypeOK, Notifications!Steps,
     Notifications!Ended, Notifications!Writers, Notifications!Jobs

LEMMA NotificationsTypeOK ==
  ASSUME Notifications!TypeOK, Holders, NotificationStep PROVE Notifications!TypeOK'
  <1> USE ConstantsAssumption DEF Notifications!TypeOK, Notifications!Steps, Notifications!Ended,
          Notifications!Writers, Notifications!Jobs, Notifications!Notifiers
  <1>1. CASE Notifications!Exit
    BY <1>1 DEF Notifications!Exit
  <1>2. CASE \E c \in Calls : call[c] = "accepted" /\ Notifications!Notify(c)
    BY <1>2 DEF Notifications!Notify
  <1>3. ASSUME NEW n \in Notifications!Notifiers, NEW c \in Calls, Notifications!Deliver(n, c)
        PROVE  Notifications!TypeOK'
    <2>1. CASE Notifications!Post(n, c)
      BY <2>1 DEF Notifications!Post, Notifications!Send, Notifications!Skip
    <2>2. CASE Notifications!Lock(n, c)
      BY <2>2 DEF Notifications!Lock
    <2>3. CASE Notifications!Dial(n, c)
      <3>1. n \in Syslogs BY <2>3 DEF Notifications!Dial, Holders, Holding
      <3> QED BY <2>3, <3>1 DEF Notifications!Dial, Notifications!Goes, Notifications!Returns
    <2>4. CASE Notifications!Write(n, c)
      <3>1. n \in Syslogs BY <2>4 DEF Notifications!Write, Holders, Holding
      <3>2. UNCHANGED <<up, stalled, outages, met>> BY <2>4 DEF Notifications!Write
      <3>3. job' \in [Notifications!Jobs -> Notifications!Steps]
        BY <2>4 DEF Notifications!Write, Notifications!WriteError,
           Notifications!Goes, Notifications!Returns
      <3>4. /\ holder' \in [Syslogs -> Calls \cup {None}]
            /\ writer' \in [Syslogs -> Notifications!Writers]
        BY <2>4, <3>1 DEF Notifications!Write, Notifications!WriteError,
           Notifications!Goes, Notifications!Returns
      <3> QED BY <3>2, <3>3, <3>4
    <2> QED BY <1>3, <2>1, <2>2, <2>3, <2>4 DEF Notifications!Deliver
  <1>4. ASSUME NEW n \in Notifications!Notifiers,
               Notifications!Outage(n) \/ Notifications!Stall(n) \/ Notifications!Recovery(n)
        PROVE  Notifications!TypeOK'
    BY <1>4 DEF Notifications!Outage, Notifications!Stall, Notifications!Recovery
  <1>5. CASE UNCHANGED notificationVars
    BY <1>5 DEF notificationVars
  <1> QED BY <1>1, <1>2, <1>3, <1>4, <1>5 DEF NotificationStep

-----------------------------------------------------------------------------
(* The calls *)

LEMMA InitCallInv == ASSUME Init PROVE CallInv
  <1>1. Notifications!TypeOK BY NotificationsInitTypeOK DEF Init
  <1>2. TypeOK
    <2>1. proc \in Phases /\ signalled \in BOOLEAN /\ sweep \in BOOLEAN /\ locked \in BOOLEAN
      BY DEF Init, Phases, Off
    <2>2. call \in [Calls -> CallSteps] /\ kind \in [Calls -> Kinds] /\ cancelled \subseteq Calls
      BY DEF Init, CallSteps, Kinds
    <2>3. schema \in {"old", "dirty", "current"} /\ ends \in 0 .. MaxEnds
      BY ConstantsAssumption DEF Init
    <2> QED BY <1>1, <2>1, <2>2, <2>3 DEF TypeOK
  <1>3. \A c \in Calls : call[c] = "idle" /\ c \notin cancelled BY DEF Init
  <1>4. CallsInPhase BY <1>3 DEF CallsInPhase, Running
  <1>5. SignalCutsNoCall BY <1>3 DEF SignalCutsNoCall
  <1> QED BY <1>2, <1>4, <1>5 DEF CallInv

\* The end of a process with the outcome it leaves to the calls it cuts.
LEMMA ExitKeepsCalls ==
  ASSUME CallInv, NEW how \in {"stopped", "timedout", "failed"}, Exits(how),
         Notifications!TypeOK', ends' \in 0 .. MaxEnds,
         \A c \in Calls : call[c] \in Running =>
           how # "stopped" /\ (how = "timedout" => kind[c] = "mcp")
  PROVE  CallInv'
  <1> USE DEF CallInv, Exits
  <1>1. TypeOK'
    BY DEF TypeOK, Phases, Off, CallSteps, Running
  <1>2. CallsInPhase'
    BY DEF TypeOK, CallsInPhase, Running, CallSteps
  <1>3. SignalCutsNoCall'
    BY DEF TypeOK, SignalCutsNoCall, CallsInPhase, Running
  <1> QED BY <1>1, <1>2, <1>3

LEMMA NextCallInv ==
  ASSUME CallInv, Notifications!TypeOK', [Next]_vars PROVE CallInv'
  <1> USE ConstantsAssumption
  <1>1. CASE Restart
    BY <1>1 DEF Restart, CallInv, TypeOK, CallsInPhase, SignalCutsNoCall, Phases, Off, Running,
                Serving
  <1>2. CASE RunMigrations \/ Open \/ Assemble \/ BeginShutdown
    <2>1. ASSUME NEW from \in Phases, NEW to \in Phases, Moves(from, to), from \notin Serving,
                 schema' \in {"old", "dirty", "current"}
          PROVE  CallInv'
      BY <2>1 DEF Moves, CallInv, TypeOK, CallsInPhase, SignalCutsNoCall, Serving
    <2>2. ASSUME Exits("failed"), UNCHANGED ends PROVE CallInv'
      BY <2>2, ExitKeepsCalls DEF CallInv, TypeOK
    <2>3. CASE RunMigrations
      BY <2>1, <2>2, <2>3 DEF RunMigrations, CallInv, TypeOK, Phases, Off, Serving
    <2>4. ASSUME NEW from \in {"open", "assemble"}, NEW to \in {"assemble", "serving"},
                 StartStep(from, to)
          PROVE  CallInv'
      BY <2>1, <2>2, <2>4 DEF StartStep, CallInv, TypeOK, Phases, Off, Serving
    <2>5. CASE BeginShutdown
      BY <2>5 DEF BeginShutdown, Moves, CallInv, TypeOK, CallsInPhase, SignalCutsNoCall, Phases,
                  Serving
    <2> QED BY <1>2, <2>3, <2>4, <2>5 DEF Open, Assemble
  <1>3. CASE GracefulStop
    <2>1. \A c \in Calls : call[c] \in Running => kind[c] = "mcp"
      BY <1>3 DEF GracefulStop, WaitsFor, Handling, CallInv, TypeOK, Kinds
    <2> QED BY <1>3, <2>1 DEF GracefulStop, Moves, CallInv, TypeOK, CallsInPhase,
              SignalCutsNoCall, Phases, Serving
  <1>4. CASE Shutdown
    <2>1. \A c \in Calls : call[c] \notin Running
      BY <1>4 DEF Shutdown, Moves, Handling, CallInv, TypeOK, CallsInPhase
    <2> QED BY <1>4, <2>1 DEF Shutdown, Moves, CallInv, TypeOK, CallsInPhase,
              SignalCutsNoCall, Phases
  <1>5. CASE ShutdownTimeout
    BY <1>5, ExitKeepsCalls DEF ShutdownTimeout, CallInv, TypeOK, CallsInPhase
  <1>6. CASE Close
    <2>1. \A c \in Calls : call[c] \notin Running
      BY <1>6 DEF Close, CallInv, CallsInPhase, Serving
    <2> QED BY <1>6, <2>1, ExitKeepsCalls DEF Close, CallInv, TypeOK
  <1>7. CASE Fail
    <2>1. ends' \in 0 .. MaxEnds BY <1>7 DEF Fail, CallInv, TypeOK
    <2> QED BY <1>7, <2>1, ExitKeepsCalls DEF Fail
  <1>8. CASE Signal
    BY <1>8 DEF Signal, CallInv, TypeOK, CallsInPhase, SignalCutsNoCall
  <1>9. ASSUME NEW c \in Calls, NEW k \in Kinds, Accept(c, k) PROVE CallInv'
    <2>1. TypeOK'
      BY <1>9 DEF Accept, CallInv, TypeOK, CallSteps, Running
    <2>2. c \notin cancelled /\ proc \in Serving
      BY <1>9 DEF Accept, CallInv, CallsInPhase, Listening, Serving
    <2>3. proc # "shutdown" \/ k = "mcp"
      BY <1>9 DEF Accept, Listening
    <2>4. CallsInPhase'
      BY <1>9, <2>2, <2>3 DEF Accept, CallInv, TypeOK, CallsInPhase, Running
    <2>5. SignalCutsNoCall'
      BY <1>9, <2>2 DEF Accept, CallInv, TypeOK, SignalCutsNoCall
    <2> QED BY <2>1, <2>4, <2>5 DEF CallInv
  <1>10. ASSUME NEW c \in Calls, Dispatch(c) PROVE CallInv'
    BY <1>10 DEF Dispatch, CallInv, TypeOK, CallsInPhase, SignalCutsNoCall, CallSteps, Running
  <1>11. ASSUME NEW c \in Calls, Return(c) PROVE CallInv'
    BY <1>11 DEF Return, CallInv, TypeOK, CallsInPhase, SignalCutsNoCall, CallSteps, Running
  <1>12. ASSUME NEW c \in Calls, Cancel(c) PROVE CallInv'
    BY <1>12 DEF Cancel, CancelledKinds, CallInv, TypeOK, CallsInPhase, SignalCutsNoCall, Running
  <1>13. CASE TryAcquireSweepLock \/ ReleaseSweepLock
    BY <1>13 DEF TryAcquireSweepLock, ReleaseSweepLock, StillLocked, CallInv, TypeOK,
                 CallsInPhase, SignalCutsNoCall
  <1>14. ASSUME NEW n \in Notifications!Notifiers, NEW c \in Calls, Deliver(n, c) PROVE CallInv'
    BY <1>14 DEF Deliver, CallInv, TypeOK, CallsInPhase, SignalCutsNoCall
  <1>15. ASSUME NEW n \in Notifications!Notifiers, Peer(n) PROVE CallInv'
    BY <1>15 DEF Peer, CallInv, TypeOK, CallsInPhase, SignalCutsNoCall
  <1>16. CASE UNCHANGED vars
    BY <1>16 DEF vars, CallInv, TypeOK, CallsInPhase, SignalCutsNoCall
  <1> QED BY <1>1, <1>2, <1>3, <1>4, <1>5, <1>6, <1>7, <1>8, <1>9, <1>10, <1>11, <1>12, <1>13,
             <1>14, <1>15, <1>16 DEF Next, Progress

-----------------------------------------------------------------------------
(* The jobs *)

LEMMA InitJobs == ASSUME Init PROVE JobsOfCalls /\ Holders /\ Meetings /\ FailedOnlyWhenDown
  <1>1. \A c \in Calls, n \in Notifications!Notifiers : job[<<n, c>>] = "none"
    BY DEF Init, Notifications!Init, Notifications!Jobs, Notifications!Notifiers
  <1>2. \A c \in Calls, n \in Syslogs : holder[n] # c
    BY ConstantsAssumption DEF Init, Notifications!Init
  <1> QED BY <1>1, <1>2 DEF JobsOfCalls, Holders, Holding, Meetings, FailedOnlyWhenDown,
             Notifications!FailedOnlyWhenDown, Notifications!Notifiers

\* A call's events start when it notifies, and it does so once.
LEMMA NextJobsOfCalls ==
  ASSUME JobInv, [Next]_vars PROVE JobsOfCalls'
  <1> USE DEF JobInv, CallInv, TypeOK, JobsOfCalls, CallSteps, Running
  <1>1. ASSUME UNCHANGED job,
               \A c \in Calls : call'[c] \in {"idle", "accepted"} => call[c] \in {"idle", "accepted"}
        PROVE  JobsOfCalls'
    BY <1>1
  <1>2. ASSUME NEW how \in {"stopped", "timedout", "failed"}, Exits(how) PROVE JobsOfCalls'
    BY <1>2 DEF Exits, Notifications!Exit, Notifications!Jobs, Notifications!Notifiers
  <1>3. CASE Restart \/ Signal \/ TryAcquireSweepLock \/ ReleaseSweepLock \/ UNCHANGED vars
    BY <1>1, <1>3 DEF Restart, Signal, TryAcquireSweepLock, ReleaseSweepLock, notificationVars,
                      vars
  <1>4. CASE Progress
    BY <1>1, <1>2, <1>4 DEF Progress, RunMigrations, Open, Assemble, StartStep, BeginShutdown,
                            GracefulStop, Shutdown, Close, Moves, notificationVars
  <1>5. CASE ShutdownTimeout \/ Fail
    BY <1>2, <1>5 DEF ShutdownTimeout, Fail
  <1>6. ASSUME NEW c \in Calls, NEW k \in Kinds, Accept(c, k) PROVE JobsOfCalls'
    BY <1>1, <1>6 DEF Accept, notificationVars
  <1>7. ASSUME NEW c \in Calls, Dispatch(c) PROVE JobsOfCalls'
    BY <1>7 DEF Dispatch, Notifications!Notify, Notifications!Jobs, Notifications!Notifiers
  <1>8. ASSUME NEW c \in Calls, Return(c) \/ Cancel(c) PROVE JobsOfCalls'
    BY <1>1, <1>8 DEF Return, Cancel, notificationVars
  <1>9. ASSUME NEW n \in Notifications!Notifiers, NEW c \in Calls, Deliver(n, c) PROVE JobsOfCalls'
    <2>1. job[<<n, c>>] # "none"
      BY <1>9 DEF Deliver, Notifications!Deliver, Notifications!Post,
                  Notifications!Send, Notifications!Skip, Notifications!Lock,
                  Notifications!Dial, Notifications!Write
    <2>2. \E step : job' = [job EXCEPT ![<<n, c>>] = step]
      BY <1>9 DEF Deliver, Notifications!Deliver, Notifications!Post,
                  Notifications!Send, Notifications!Skip, Notifications!Lock,
                  Notifications!Dial, Notifications!Write, Notifications!WriteError,
                  Notifications!Goes, Notifications!Returns
    <2>3. PICK step : job' = [job EXCEPT ![<<n, c>>] = step] BY <2>2
    <2>4. UNCHANGED call BY <1>9 DEF Deliver
    <2> QED BY <2>1, <2>3, <2>4 DEF Notifications!TypeOK, Notifications!Jobs,
               Notifications!Notifiers
  <1>10. ASSUME NEW n \in Notifications!Notifiers, Peer(n) PROVE JobsOfCalls'
    BY <1>1, <1>10 DEF Peer, Notifications!Outage, Notifications!Stall, Notifications!Recovery
  <1> QED BY <1>3, <1>4, <1>5, <1>6, <1>7, <1>8, <1>9, <1>10 DEF Next

\* What the mutex gives: its holders, and what they have met.
Mutex == Holders /\ Meetings /\ FailedOnlyWhenDown

LEMMA DeliverKeepsMutex ==
  ASSUME Notifications!TypeOK, Mutex, NEW n \in Notifications!Notifiers, NEW c \in Calls,
         Notifications!Deliver(n, c)
  PROVE  Mutex'
  <1> USE ConstantsAssumption
      DEF Mutex, Holders, Holding, Meetings, FailedOnlyWhenDown,
          Notifications!FailedOnlyWhenDown, Notifications!TypeOK, Notifications!Jobs,
          Notifications!Notifiers
  <1>1. CASE Notifications!Post(n, c)
    <2>1. PICK result \in {"sent", "failed", "skipped"} : job' = [job EXCEPT ![<<n, c>>] = result]
      BY <1>1 DEF Notifications!Post, Notifications!Send, Notifications!Skip
    <2>2. /\ n \in Posters /\ n \notin Syslogs
          /\ UNCHANGED <<holder, writer, up, met>>
      BY <1>1 DEF Notifications!Post, Notifications!Send, Notifications!Skip
    <2>3. Holders' BY <2>1, <2>2
    <2>4. Meetings' BY <2>1, <2>2
    <2>5. FailedOnlyWhenDown' BY <2>1, <2>2
    <2> QED BY <2>3, <2>4, <2>5
  <1>2. CASE Notifications!Lock(n, c)
    <2> USE <1>2 DEF Notifications!Lock
    <2>1. Holders' OBVIOUS
    <2>2. Meetings' OBVIOUS
    <2>3. FailedOnlyWhenDown' OBVIOUS
    <2> QED BY <2>1, <2>2, <2>3
  <1>3. CASE Notifications!Dial(n, c)
    <2> USE DEF Notifications!Goes, Notifications!Returns
    <2>1. n \in Syslogs /\ n \notin Posters /\ holder[n] = c /\ UNCHANGED <<up, met>>
      BY <1>3 DEF Notifications!Dial
    <2>2. CASE /\ n \in up /\ writer' = [writer EXCEPT ![n] = "open"]
               /\ Notifications!Goes(n, c, "write") \/ Notifications!Goes(n, c, "rewrite")
      <3>1. Holders' BY <2>1, <2>2
      <3>2. Meetings' BY <2>1, <2>2
      <3>3. \A m \in Syslogs, e \in Calls :
              job'[<<m, e>>] = "failed" => job[<<m, e>>] = "failed"
        BY <2>1, <2>2
      <3>4. FailedOnlyWhenDown' BY <2>1, <3>3
      <3> QED BY <3>1, <3>2, <3>4
    <2>3. CASE n \notin up /\ Notifications!Returns(n, c, "failed") /\ UNCHANGED writer
      <3>1. <<n, c>> \in met BY <2>1, <2>3
      <3>2. Holders' BY <2>1, <2>3
      <3>3. Meetings' BY <2>1, <2>3
      <3>4. FailedOnlyWhenDown' BY <2>1, <2>3, <3>1
      <3> QED BY <3>2, <3>3, <3>4
    <2> QED BY <1>3, <2>2, <2>3 DEF Notifications!Dial
  <1>4. CASE Notifications!Write(n, c)
    <2> USE DEF Notifications!Goes, Notifications!Returns
    <2>1. n \in Syslogs /\ n \notin Posters /\ holder[n] = c /\ UNCHANGED <<up, met>>
      BY <1>4 DEF Notifications!Write
    <2>2. CASE Notifications!Returns(n, c, "sent") /\ UNCHANGED writer
      <3>1. Holders' BY <2>1, <2>2
      <3>2. Meetings' BY <2>1, <2>2
      <3>3. FailedOnlyWhenDown' BY <2>1, <2>2
      <3> QED BY <3>1, <3>2, <3>3
    <2>3. CASE Notifications!Goes(n, c, "redial") /\ writer' = [writer EXCEPT ![n] = "nil"]
      <3>1. Holders' BY <2>1, <2>3
      <3>2. Meetings' BY <2>1, <2>3
      <3>3. FailedOnlyWhenDown' BY <2>1, <2>3
      <3> QED BY <3>1, <3>2, <3>3
    <2>4. CASE /\ job[<<n, c>>] = "rewrite" /\ writer[n] = "broken"
               /\ Notifications!Returns(n, c, "failed") /\ UNCHANGED writer
      <3>1. <<n, c>> \in met BY <2>1, <2>4
      <3>2. Holders' BY <2>1, <2>4
      <3>3. Meetings' BY <2>1, <2>4
      <3>4. FailedOnlyWhenDown' BY <2>1, <2>4, <3>1
      <3> QED BY <3>2, <3>3, <3>4
    <2> QED BY <1>4, <2>2, <2>3, <2>4 DEF Notifications!Write, Notifications!WriteError
  <1> QED BY <1>1, <1>2, <1>3, <1>4 DEF Notifications!Deliver

LEMMA NextMutex ==
  ASSUME JobInv, NotificationStep PROVE Mutex'
  <1> USE ConstantsAssumption
      DEF JobInv, CallInv, TypeOK, Mutex, Holders, Holding, Meetings, FailedOnlyWhenDown,
          Notifications!FailedOnlyWhenDown, Notifications!TypeOK, Notifications!Jobs,
          Notifications!Notifiers
  <1>1. CASE Notifications!Exit
    <2> USE <1>1 DEF Notifications!Exit, Notifications!Ended
    <2>1. Holders' OBVIOUS
    <2>2. Meetings' OBVIOUS
    <2>3. FailedOnlyWhenDown' OBVIOUS
    <2> QED BY <2>1, <2>2, <2>3
  <1>2. ASSUME NEW c \in Calls, call[c] = "accepted", Notifications!Notify(c) PROVE Mutex'
    <2> USE <1>2 DEF Notifications!Notify
    <2>1. \A n \in Notifications!Notifiers : job[<<n, c>>] = "none" BY DEF JobsOfCalls
    <2>2. Holders' BY <2>1
    <2>3. Meetings' BY <2>1
    <2>4. FailedOnlyWhenDown' BY <2>1
    <2> QED BY <2>2, <2>3, <2>4
  <1>3. ASSUME NEW n \in Notifications!Notifiers, NEW c \in Calls, Notifications!Deliver(n, c)
        PROVE  Mutex'
    BY <1>3, DeliverKeepsMutex
  <1>4. ASSUME NEW n \in Notifications!Notifiers, Notifications!Outage(n) PROVE Mutex'
    <2> USE <1>4 DEF Notifications!Outage, Notifications!Writers
    <2>1. Holders' OBVIOUS
    <2>2. Meetings' OBVIOUS
    <2>3. FailedOnlyWhenDown' OBVIOUS
    <2> QED BY <2>1, <2>2, <2>3
  <1>5. ASSUME NEW n \in Notifications!Notifiers, Notifications!Recovery(n) PROVE Mutex'
    <2> USE <1>5 DEF Notifications!Recovery
    <2>1. Holders' OBVIOUS
    <2>2. Meetings' OBVIOUS
    <2>3. FailedOnlyWhenDown' OBVIOUS
    <2> QED BY <2>1, <2>2, <2>3
  <1>6. ASSUME NEW n \in Notifications!Notifiers, Notifications!Stall(n) PROVE Mutex'
    BY <1>6 DEF Notifications!Stall
  <1>7. CASE UNCHANGED notificationVars
    BY <1>7 DEF notificationVars
  <1> QED BY <1>1, <1>2, <1>3, <1>4, <1>5, <1>6, <1>7 DEF NotificationStep

-----------------------------------------------------------------------------
(* The theorems *)

LEMMA Invariance == Spec => []JobInv
  <1>1. Init => JobInv BY InitCallInv, InitJobs DEF JobInv
  <1>2. JobInv /\ [Next]_vars => JobInv'
    <2> SUFFICES ASSUME JobInv, [Next]_vars PROVE JobInv' OBVIOUS
    <2>1. NotificationStep
      <3>1. CASE Next BY <3>1, StepsNotify
      <3>2. CASE UNCHANGED vars BY <3>2 DEF vars, NotificationStep
      <3> QED BY <3>1, <3>2
    <2>2. Notifications!TypeOK'
      BY <2>1, NotificationsTypeOK DEF JobInv, CallInv, TypeOK
    <2>3. CallInv' BY <2>2, NextCallInv DEF JobInv
    <2>4. JobsOfCalls' BY NextJobsOfCalls
    <2>5. Mutex' BY <2>1, NextMutex
    <2> QED BY <2>3, <2>4, <2>5 DEF JobInv, Mutex
  <1> QED BY <1>1, <1>2, PTL DEF Spec

\* Every variable keeps its type, whatever the number of calls, notifiers, signals and
\* outages.
THEOREM TypesAlways == Spec => []TypeOK
  <1>1. JobInv => TypeOK BY DEF JobInv, CallInv
  <1> QED BY <1>1, Invariance, PTL

\* However often the process is stopped and whenever it fails, a signal cuts no call of
\* native gRPC, and an MCP call only after the time limit of the HTTP server's shutdown.
THEOREM SignalNeverCutsCalls == Spec => []SignalCutsNoCall
  <1>1. JobInv => SignalCutsNoCall BY DEF JobInv, CallInv
  <1> QED BY <1>1, Invariance, PTL

\* However the goroutines of any number of events interleave at a syslog notifier's mutex,
\* an event is given up only when its goroutine met an outage while it held it.
THEOREM FailuresAlwaysMeetOutages == Spec => []FailedOnlyWhenDown
  <1>1. JobInv => FailedOnlyWhenDown BY DEF JobInv
  <1> QED BY <1>1, Invariance, PTL
=============================================================================
