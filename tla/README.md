# jitsudo: formal specification

jitsudo grants temporary elevated permissions at cloud providers. A user asks for
a role for some time and a policy, a human approver or an AI agent decides; the
server `jitsudod` obtains the access from a provider and takes it back when the
time is over. Any number of `jitsudod` replicas share one PostgreSQL database,
which is their only means of coordination.

## 1. The system

### Components

| Component | Source | State it keeps | Operations |
|---|---|---|---|
| Workflow engine, handlers | `internal/server/workflow/workflow.go` | none of its own; local variables of the running call | CreateRequest (with automatic approval and break-glass), ApproveRequest, DenyRequest, AIApproveRequest, AIDenyRequest, AIEscalateRequest, RevokeRequest, GetCredentials |
| Workflow engine, expiry sweeper | `workflow.go` RunExpirySweeper, sweepExpired | the list of the running sweep | one sweep every 30 s on every replica |
| Request store | `internal/store/requests.go` | table `elevation_requests`, the advisory sweep lock | insert, TransitionRequest (row lock), SetApproverTier, queries |
| Audit log | `internal/server/audit/audit.go`, `internal/store/audit.go` | table `audit_events`, a hash chain | append in a serializable transaction with retries, query |
| Policy engine | `internal/server/policy/policy.go` | three compiled queries per replica | Reload, evaluations, compile checks |
| Policy administration | `internal/server/api/api.go`, `internal/store/policies.go` | table `policies` | ApplyPolicy, DeletePolicy, ReloadPolicies, the 30 s sync of `server.go` |
| Principals | `internal/store/principals.go` | table `principals` | last seen, trust tier |
| GCP provider | `internal/providers/gcp/gcp.go` | the project's IAM policy, shared by all requests | Grant and Revoke by read-modify-write with an ETag |
| AWS provider | `internal/providers/aws/aws.go` | sessions of STS, inline policies of the roles | Grant assumes a role, Revoke denies its older sessions |
| Azure provider | `internal/providers/azure/azure.go` | role assignments, one per principal, role and scope; lookup caches | Grant creates an assignment, Revoke deletes it by its name |
| Kubernetes provider | `internal/providers/kubernetes/kubernetes.go` | role bindings named after the request | Grant looks and creates, Revoke deletes |
| MCP server | `internal/server/mcp/mcp.go` | none | JSON-RPC dispatch to the agent's operations |
| Notifications | `internal/server/notifications/*` | a syslog connection under a mutex | a goroutine for each notifier and event |
| Server process | `internal/server/server.go`, `cmd/jitsudod/serve.go`, `internal/store/store.go`, `migrate.go` | its context, its listeners, the pool, the migrations | start-up, shutdown on a signal, restart by a supervisor |
| API, authentication, CLI, client | `internal/server/api`, `auth`, `internal/cli`, `pkg` | configuration, tokens | conversion, dispatch |

### Interactions

A gRPC handler (`api.go`) or an MCP tool (`mcp.go`) authenticates its caller and
makes one call to the workflow engine. The engine asks the policy engine, moves
the request's row in the store, calls the provider, appends to the audit log and
hands an event to the notifiers. Each of these is a separate transaction or remote
call: nothing spans two of them, and no lock is held between two of them. The
sweepers of all the replicas work on the same rows; an advisory lock in the
database lets one of them sweep at a time.

### What is hard

* Handlers of several replicas and the sweepers interleave between any two of
  these steps; only the `SELECT ... FOR UPDATE` of `TransitionRequest` orders them.
* `ApproveRequest` commits APPROVED before it asks the policy, and rolls back.
* The provider is called between two transactions, so a crash, a lost reply or a
  failed write leaves access that no row accounts for.
* `TransitionRequest` commits and then reads again, so it can fail after it took effect.
* Audit appends are separate from the transitions they report and may be lost.
* Revocation and expiry at the provider are best effort.
* The sweep lock belongs to a database session that can be lost.
* Policy caches of the replicas are rebuilt from several reads, concurrently.
* A shared IAM policy is edited by read-modify-write; an AWS revocation denies by time and by
  the role's name; an Azure assignment may serve several requests at once.
* A break-glass or automatic request is in the table, PENDING and open to every approver,
  before its own handler alerts and approves it.
* A notification's peer may stall, and the code sets no time limit on mail and syslog.
* A signal ends the parts of a process one after the other, while calls, a sweep and the
  goroutines of notifications run on them.

PROJECT.json lists each hazard at its line with the properties that cover it.

### What makes each component correct

* **Workflow**: a request follows its state machine; an approval has one owner; the
  provider grants at most once, only what someone decided; no break-glass
  request goes without its alert; access exists only for an accounted reason; only a grant that returned and is
  recorded is revoked; every approval resolves and every expiry ends, up to named failures.
* **Audit trail**: nothing false, nothing twice, no grant before its approval, nothing missing
  unless a failure hit.
* **Sweeper**: one sweep at a time while the lock's session lives; every expired
  grant leaves ACTIVE.
* **Audit chain**: the chain never forks and has no gap; no entry is written twice; an
  append is given up only under contention that the bound on attempts names; a caller sees
  one atomic append, or an error.
* **Policy engine**: what a replica evaluates is one reload's and compiles; a call that
  returns is in effect unless an older reload overlapped it; checked writes keep the table compilable, in the cases the check
  covers; replicas converge.
* **Providers**: a call has its effect at one instant and on its own request only;
  GCP's Grant is idempotent, concurrent edits of a shared policy lose nothing, and none
  brings back what was revoked; an AWS
  revocation in the own account ends its session for good and no newer one; at Azure and Kubernetes a Grant
  gives its access, also when another assignment was in its way, and a Revoke
  leaves nothing of its own request.
* **Server process**: a signal cuts no call that came by gRPC, and an MCP call only after
  the time limit; the sweep lock comes free; a stopped or failed process serves again.
* **Notifications**: an event is given up only for an outage that its own delivery met, and
  no event waits for ever behind another, unless the server they are for stalls for good.

## 2. Modules

| Module | Models | Extends |
|---|---|---|
| `Lifecycle` | the abstract state machine of a request and its one issue of credentials | |
| `RequestWorkflow` | handlers, sweepers, store transitions, provider contract, audit entries | |
| `RequestWorkflowMC` | symmetry for TLC | `RequestWorkflow` |
| `RequestWorkflowTypes` | proof of the type invariant | `RequestWorkflow` |
| `RequestWorkflowProofs` | proofs of the other safety properties and of the refinement | `RequestWorkflowTypes` |
| `AuditLog` | what the workflow relies on when it appends: a log with atomic appends | |
| `AuditChain`, `AuditChainMC`, `AuditChainProofs` | the append to the audit log and its hash chain | instantiates `AuditLog` |
| `PolicyEngine`, `PolicyEngineMC`, `PolicyEngineProofs` | the policies table and the compiled policies of each replica | |
| `ProviderContract` | what the workflow relies on when it calls a provider, for calls that overlap | |
| `GcpBinding`, `GcpBindingMC`, `GcpBindingProofs` | GCP: Grant and Revoke on a shared IAM policy | |
| `AwsSession`, `AwsSessionMC`, `AwsSessionProofs` | AWS: sessions of a role and the policies that deny them | |
| `NamedBinding`, `NamedBindingMC`, `NamedBindingProofs` | Azure and Kubernetes: objects named after their request | |
| `Server`, `ServerMC`, `ServerProofs` | one process: start-up, calls, the sweep lock's session, shutdown | instantiates `Notifications` |
| `Notifications` | the goroutines of the dispatcher and the notifiers | |

The components meet where the code has them meet. `RequestWorkflow` takes from the audit
log that an append happens once, at one instant, or is lost: this is `AuditLog`, which
`AuditChain` implements (`appendAudit` only logs an error, so an append that fails and is
recorded is to it one that succeeded); from the policy engine any verdict, as `PolicyEngine` says which set a verdict comes from and
not which verdict it is; and from a provider that a call has its effect on its request or
fails with or without it, which is the contract that `GcpBinding` implements, and
`NamedBinding` for the requests whose access is theirs alone. The providers in turn take from the
workflow that a request is granted once and revoked only when that Grant has returned, which
is `SingleGrant` and `RevokesFollowGrant` of `RequestWorkflow`. A handler or a sweep of
`RequestWorkflow` may stop between any two steps; `Server` says when a process stops one.

### RequestWorkflow and the code

* `row` is `elevation_requests`: state, kind (its `break_glass` flag), requester, tier,
  approver. A request that was never created is `NoRow`. `elapsed` stands for `expires_at <= NOW()`.
* `call[c]` is one RPC: the handler's next step, the operation, the request, the
  caller. A handler becomes one action per transaction, provider call or append,
  in the order of the code, so that other actors run in between: for
  `ApproveRequest`, the steps are the transition (`ApproveRequest`), `EvalApproval`,
  then `Rollback` or `LogApproved`, `Grant`, `Activate`, `LogIssued`. The handlers share
  the tail from `LogApproved` on, as their code is the same there.
* `Transition` is `TransitionRequest`: lock, check, update, commit, and the read
  after the commit, which can fail on its own.
* `sweeper[s]` is the sweep of a replica, `sweepLock` the advisory lock's holder.
* `access` is what exists at the provider; `trail[r]` the audit entries of a request.
* `issued`, `decided` and `failed` are history variables: they are never read by a
  guard, except that `failed` bounds the failures. `failed` tells which kind of
  failure hit which request, so that a property can say which failure may break it.

Failures are `db` (a statement or a re-read fails), `provider` (a provider call fails,
with or without effect), `audit` (an append is lost), `abort` (a handler or a sweep
stops between two steps) and `lock` (the sweep lock's session is lost). Each kind
hits a request at most once, and `MaxFailures` bounds them all; this bound is the
model's, not the code's.

Abstractions. Policies may return any verdict and any tier. The approval decision
of the policy is one step. Notifications other than the break-glass alert have no
effect on a request and are left out here; `Server` has them. A call that is refused before it
changes anything (unknown request, wrong caller) is a step that does not happen.
Identities are drawn from `Users` and the one agent; the code compares e-mail
addresses only. `IdentityAssumption` keeps the names `policy` and `break-glass`,
which the code writes into the approver column, apart from users' addresses.

### AuditChain and the code

* `app[a]` is one call of `AppendAuditEvent`, `log` the committed rows, `nextId` the id
  sequence, which no rollback takes back. `FetchPrevHash`, `InsertRow` and `Commit` are the
  statements of `appendAuditEventOnce`, `Backoff` the wait between two attempts.
* The hash is a free constructor: `Hash(prev, entry)` is equal for equal arguments only.
* PostgreSQL is modelled as the code relies on it, at isolation level SERIALIZABLE: a
  transaction reads one snapshot; of transactions that read the last row and insert another
  at the same time the first to commit wins, and the others fail with SQLSTATE 40001 once
  it has committed. The database may fail more transactions than that, as `Fail` may at any step.
* The last hash covers all entries in their order, so it is the abstract list of `AuditLog`. A
  call takes effect there when its transaction commits, also when the reply is then lost.

### PolicyEngine and the code

* A thread is a policy RPC, or the goroutine of a replica that loads its policies at the
  start and then every 30 seconds. `engine[r]` holds the three prepared queries of a
  replica, `built[t]` those a reload has compiled so far; its three reads of the table are
  three steps, its swap under the mutex is one.
* `ApplyPolicy` is check, upsert, read back, reload; `DeletePolicy` is read, check, delete,
  reload. Each is a transaction or a local step, with a failure of its own. After the swap the
  mutex is free, and another reload may install its queries before the call returns
  (`Install`, then `Return`); `ReloadPolicies` lists the policies in between, which may fail.
* Which sets of modules compile together is the constant `Uncompilable`. OPA is not
  modelled beyond it, except that no module at all compiles (the default denial).
* `version`, `checked`, `wrote` and `overlapped` are histories: the number of writes, when a
  call first read the table and what it wrote, and whether a reload of its replica was reading
  the table at that moment. They let a property say which of two sets is older.
* `StoreFails` and `Crash` are bounded by `MaxFailures`, the model's bound. A replica whose
  first reload fails exits (`down`) and is started again by what runs it.

### GcpBinding and the code

* `policy` is the project's IAM policy: the conditional bindings of requests, the rest of
  the policy (`others`) and the ETag. `call[c]` is one Grant or Revoke with the policy it
  has read (`seen`) and its attempts.
* A binding's expiry is that of the call that made it; `expired` has the calls whose time
  is over. A Grant that finds a binding keeps it with its old expiry and succeeds, also
  when that expiry has passed: this is why the contract lets a Grant succeed without access for a
  request of which a grant has lapsed. The workflow never gets there, as it grants a
  request once (`GrantedOnce`).
* Google's service is modelled as the code relies on it: a write with a stale ETag is
  refused with 409 and no other is.

### AwsSession and the code

* `sessions` are those STS has issued, with their issue and expiry times; `denials` the
  inline policies that Revoke has put on roles, one per name. `call[c]` is one Grant or
  Revoke: `Grant` reads the clock and caps the duration, `AssumeRole` is the call of STS,
  `Revoke` decodes the token of a grant, `PutRolePolicy` is the call of IAM. Either call
  may fail with or without its effect.
* A role is an account and a name. `Grant` assumes the role of the request's scope;
  `PutRolePolicy` has kept its name only (`RoleByName`) and asks IAM with jitsudod's own
  credentials, so it finds the role of that name in `HomeAccount`, or none, which counts as
  success. The properties say what holds nevertheless, `RevokedInAnyAccount` what does not.
* Time counts seconds, as the issue times in IAM's conditions do, and passes between any two
  steps. One clock serves the server and AWS, so that what the model shows does not come
  from skew.
* A request is granted once, as `GrantedOnce` shows of the workflow. It may be revoked any
  number of times.
* STS and IAM are external: a session acts until it expires, its role is deleted or a policy
  of the role denies it (`Usable`). A policy takes effect when it is put. The model leaves out the
  limit on the size of a role's inline policies; a call that hits it is a failed call.

### NamedBinding and the code

* `objects` are the requests whose role binding (Kubernetes) or role assignment (Azure)
  exists; the code names both after the request (`bindingName`, `deterministicAssignmentID`),
  which `Name` says. `Same(r)` are the requests that one object serves: Azure keeps one
  assignment for a principal, role and scope, and answers 409 to a second one. `Standing` is
  what administrators have assigned there themselves, which is a conflict too (`Assigned`).
* `call[c]` is one Grant or Revoke. `GetBinding` and `CreateBinding` are the two steps of
  Kubernetes' Grant, `Lookup` and `CreateAssignment` those of Azure's, `Delete` is the one
  call of both Revokes. A conflict at Azure is a success, an `AlreadyExists` at
  Kubernetes an error, as in the code; a create or a delete may have its effect and fail.
* A Revoke needs a token, so it follows a Grant that returned one. `OutsideDelete` is an
  administrator. `ended` and `removed` are histories.
* What two Azure requests for the same access do to each other is in the model: the second
  Grant succeeds without an assignment of its own, and the end of the first takes the
  access from the second. `GrantGivesAccess` and `RevokedLeavesNothing` say what holds
  nevertheless, and `KeepsContract` maps only the requests that share with nobody, administrators included.
* The contract lets any call fail, also with an `AlreadyExists`; section 5 says where that differs
  from the provider interface.

### Server and the code

* `proc` goes through the phases of `runServe` and `Server.Start`: migrations, the pool,
  the assembly up to the last goroutine, serving; after a signal `GracefulStop`, then the
  HTTP server's `Shutdown` with its 30 seconds, then the pool's `Close`. An error at any
  place ends the process at once (`Exits`). `Restart` is the supervisor.
* `call[c]` is a call of a client, `kind[c]` how it has come: native gRPC, through the
  REST gateway (whose connection to the gRPC server the signal closes: `Cancel`), or to the
  MCP endpoint of the HTTP server. `call[c]` tells in the end whether it returned or what
  cut it short.
* `sweep` and `locked`: with the context cancelled the release of the advisory lock sends
  nothing (`requests.go` 310), so the pooled session keeps it until the process exits or the
  connection breaks (`StillLocked`). `schema` is the mark of a migration that was cut.
* `Signal` and `Fail` together are bounded by `MaxEnds`, the model's bound.

### Notifications and the code

* `job[<<n, e>>]` is the goroutine that `Dispatcher.Notify` starts for a notifier and an
  event. Slack, webhook, SIEM by JSON and mail are `Posters`: one request, any result; `Forwarded`
  is the event filter of a webhook or the SIEM.
* A server in `stalled` keeps its connections open and neither reads nor answers: `Post`,
  `Dial` and `Write` wait for it, a syslog notifier with its mutex held. `Stalling` are the
  notifiers whose server may, which are mail and syslog: the client's or the dispatcher's time limit
  ends the requests of the others. A stall ends when the server goes on, or when it goes down.
* A syslog notifier holds its mutex (`holder`) from `Lock` until it `Returns`, over its dial
  and its writes; a connection (`writer`) outlives its event, is `broken` once the server
  has gone down, and a write on a broken one may fail or go unnoticed, as over TCP. `Exit`
  drops what the process has not delivered: nothing waits for these goroutines.
* `log/syslog` connects again by itself once within a write; the model leaves that to the
  write, which succeeds or does not. `met` is a history.

`AwsSession` is not shown to implement `ProviderContract`: a revocation denies
the older sessions of the role too, those of other requests among them. That is what the
comment of `Revoke` says it does, and the contract's effect on one request alone does not hold of it.

## 3. Runs

| Run | Instance | Shows |
|---|---|---|
| `races` | 1 request, 3 calls of any kind, 2 sweepers, 1 failure of any kind | sole owner, decided and single grants, break-glass requests alerted, access accounted for, revocations only of recorded grants, truthful and complete trail without duplicates and with approvals before grants, implementation of `Lifecycle` |
| `sweeps` | 2 requests, 2 calls (creations with any tier, approvals by approvers and the agent, revocations), 2 sweepers, 1 failure of any kind | exclusive sweeps; resolution of approvals, expiry and end of access (liveness) |
| `expired_access` | 1 break-glass request, 1 provider failure | an expired row whose access stays (finding) |
| `break_glass_alert` | 1 break-glass request, 1 approver, no failure | a break-glass request that is granted before its alert (finding) |
| `audit_chain` | 4 appends, 3 attempts each | one unbroken chain, no entry twice, none given up without contention, implementation of `AuditLog` |
| `policy_changes` | 1 replica, 2 RPCs, 1 failure or crash | whole swaps, checked writes compile, a call that returns is in effect unless overlapped; the replica's policies converge to the table (liveness) |
| `gcp_binding` | 2 requests, 3 calls, 2 tries, 1 outside edit | no edit lost, bound once, nothing left by a revocation, retries justified, implementation of `ProviderContract` |
| `aws_session` | 3 requests, 2 roles of one name in 2 accounts, 4 calls, 2 seconds | a revocation in the own account ends its session for good, and no newer one |
| `aws_account` | 2 requests in 2 accounts, 2 calls, 2 seconds | a session of another account that its revocation leaves usable (finding) |
| `aws_revoked` | 2 calls, 2 seconds | a session that its own revocation does not deny (finding) |
| `named_binding` | 1 Kubernetes request, 4 for Azure of which 2 ask for the same and 1 for what an administrator has assigned, 4 calls | grants give access, revocations leave nothing, implementation of `ProviderContract` for requests that do not share |
| `server` | 2 calls (one gRPC, one by gateway or MCP), 1 webhook that forwards one call's events, 1 syslog server, 1 outage or stall, 2 signals or failures | a signal cuts no gRPC call, events are given up only for an outage met; the lock comes free, the process serves again, notifications end unless their own server stalls for good (liveness) |

Why the bounds are enough. Requests share only the sweep lock, a sweep's list and
the audit log, so races over a request need one request, and sweeps need two. Every
handler touches a row at most three times; three calls let a third actor move the
row between any two steps of a second one that overtook the first. One failure at any place is what separates the
partial outcomes; two are covered by the proofs, which have no bound.

Three attempts and four appends let each append be overtaken as often as it takes to give
up, and by one more. Replicas of the policy engine share only the table, so races of two calls need
one replica, on which their reloads and the sync overlap. Convergence needs no second one: a
call's own reload may fail, or be overtaken by one that read the table earlier, and from then
on the replica hears of the change by its sync alone, as every other replica does. The table holds a helper and
a policy that uses it, the least that can fail to compile together though each change was
checked; the inputs use the helper, replace, disable and retype it. In `gcp_binding` two tries
and three writers (two calls and an administrator) let a call be overtaken until it gives up.
In `sweeps` two calls take an approval through its evaluation and rollback, to the agent or through
the automatic tier while another handler, a sweep or a failure is on the same request or on the other
one; break-glass takes the steps of the automatic tier from `SelfApprove` on, and denials and
escalations leave no approval. That an approval always has a handler or a failure behind it is proved
for every operation (`ApprovalNeverAbandoned`). In `aws_session` four calls are two grants and their revocations, or one grant revoked three
times, and two ticks put a second between any two steps of one of them; sessions last two or
three seconds, so some outlive the clock and some do not. In `named_binding` two requests that
share an access, with four calls, are granted and both revoked in any order, or granted
again after a revocation; the third Azure request shows that they leave others alone, the
fourth meets an administrator's assignment.
In `server` two calls give two jobs to each notifier, so one waits for the mutex of the
other; two ends let a process be signalled and fail during its shutdown, or stop twice; one outage
breaks a connection that an earlier event has left, and its recovery lets the retry succeed; a stall,
instead, lets the server stop, go on, or go down while one event holds the mutex and the other waits.
A mail server that stalls holds up its own notification and no other, which needs no instance.

A deadlock is a state with no step: the tickers of the sweepers and of the policy sync
never stop and a server sweeps or starts again for ever, so the instances with them have
none and it is checked there. In `audit_chain`, `gcp_binding`, `named_binding` and the AWS
runs every call may end, and nothing is left to do.

### Fairness

`FairSpec` assumes weak fairness of each handler that has started and of each
replica's sweeper, and nothing of callers, of failures or of time. A started handler
is a goroutine that Go keeps running, its database and provider calls return
(with an error if they must), and the sweeper's ticker fires for ever
(`RunExpirySweeper`). Weak fairness is enough: an enabled step of a handler stays
enabled until it is taken, and one replica is always able to take the lock.

`FairSpec` of `PolicyEngine` assumes weak fairness of each replica's own goroutine: the ticker of
the sync fires for ever (`server.go` 279) and a server that is down is started again by its
supervisor. Nothing is assumed of callers, failures and crashes.

`FairSpec` of `Server` assumes weak fairness of the process's own progress (`runServe` and
`Start` run on, one step after the other), of its supervisor (`Restart`), of the end of a sweep, of
the end of each handler, and of each notifier's goroutine: it runs on where it can, and a request of a
`Poster` ends by the client's time limit or the dispatcher's. A send, a dial or a write to a server
that stalls is no step that fairness could force: it waits until the server goes on or down, of which
nothing is assumed. Not of `ShutdownTimeout`, which a handler that ends in time forestalls,
and not of clients, sweeps, signals, failures, outages, stalls or recoveries. That the handlers end
is needed because `GracefulStop` waits for them without a limit.

## 4. Proofs

`RequestWorkflowTypes!TypeCorrect`: `TypeOK` is inductive with the facts that tie a
call's step to its request (a handler that runs has a request and an actor).

`RequestWorkflowProofs`: `SoleOwner` and `SingleGrant` are not inductive alone. The
invariant `OwnInv` adds what a step of a handler says of the row (an owner's row is
APPROVED), that two owners of one request are the same call, and how far the count
of grants is for each step and state: none while the row is PENDING or the owner has
not reached its grant, one once it passed it. A transition moves a row only from the
state it names, so an owner's row can be moved by the owner alone; each action is a
step of the proof, and `Transition` is handled once as a lemma. From `OwnInv` follow

* `SoleOwnerAlways`: an APPROVED row has at most one handler that may act on it,
* `GrantedOnce`: the provider grants a request at most once, and
* `WorkflowImplementsLifecycle`: every step is a step of `Lifecycle` or stutters.

On it rest the invariants of the other theorems, each in a section of its own:

* `SweepsAlwaysExclusive`: `SweepInv`, a replica in a sweep has the lock or a lock session was
  lost. The lock is taken when free and freed by its holder only.
* `GrantAlwaysDecided`: `DecInv` says for each step of an owner who the approver in its row is
  and what has been decided by then. An owner's row keeps its approver, since only its owner
  moves it.
* `BreakGlassAlwaysAlerted`: `AlertInv` says that a break-glass row has been alerted, has its
  creator still before the alert, or was hit by a failed insert or a stopped handler, and that an
  approver `break-glass` is the creator's, which comes after the alert.
* `ApprovalNeverAbandoned`: `OwnedInv` says that an APPROVED row has a handler that will act on
  it or a failure behind it; the transition to APPROVED and the steps that leave it are the only
  ones to look at. It is the safety half of `ApprovalResolves`; that the handler goes on is
  fairness.
* `AccessAlwaysAccounted`: `HeldInv` says that access without an ACTIVE row is in the hands of
  the handler that records or revokes it, or hit by a failure; a sweep keeps it because of
  `SweptInv`: what a sweep is about to mark EXPIRED was granted, and the provider has revoked it
  or failed on it. A granted row never goes back (`GrantedStays`). `AccessInv` adds that whatever
  has access was issued once (`AccessCounted`), and that behind an EXPIRED row, which only a sweep
  writes (`OnlySweepsExpire`), it is there by a provider failure.
* `RevokesAlwaysFollowGrant`: by the same `SweptInv`, and by what `TruthInv` says of a handler
  that revokes, the row is past its grant; `OwnInv` then leaves no handler before or in it.
* `AuditAlwaysTruthful`: `TruthInv` says of each handler that the entry it goes to log is
  borne out by its row. `RowStep` says once what a step can do to a row and `TrailStep` what
  it can do to a trail; an entry that a row bears out is still borne out after a `RowStep`
  unless an approval is taken back, and then none was logged yet.
* `AuditAlwaysOnce`: `OnceInv` says that a handler or a sweeper that is due to log an entry of
  a kind is the only one, and that nothing of the kind is logged. When it becomes due the row is
  in a state (`Before`) that no such entry and no such handler bears.
* `AuditAlwaysInOrder`: the property is inductive with `TruthInv`. Who appends an approval still
  owns the row, which is then APPROVED and bears out no entry of a grant (`InOrderAppended` is
  the step on sequences). No other two kinds are ordered: RevokeRequest may log its revocation
  before the approver logs the issue, and the approver before the creator logs the creation.
* `AuditAlwaysComplete`: `CompleteInv` says that each entry a spared request's state asks for
  (`Story`) is logged or owed by somebody. A step pays or hands on the debt (`PromiseKept`), the
  step that moves the row takes the new one on (`NextDebts`), and at rest nobody owes anything.

They hold for any number of requests, calls, replicas and failures. They assume
`IdentityAssumption` and that an RPC runs once.

`AuditChainProofs`: `ChainInv` says what an open transaction knows of its snapshot: it is
part of the log, its last row is the one the hash was read from, and the new row's id is
above its ids. A commit happens only when the snapshot is the whole log, which turns these
facts into `ChainAlwaysUnbroken` and `AlwaysAppendsAtTheEnd`. `AlwaysWrittenOnce` needs that
the entry of a call still running is not in the log, `OnlyGivenUpWhenOvertaken` that each
conflict adds one row to those committed since the call began. `ChainImplementsAuditLog` maps
each step to a step of `AuditLog` or a stutter: by `ChainInv` the row that is committed has the
greatest id and the hash of the one before it, so the last hash, read as a list, grows by its
entry. Any number of appends, any
`MaxAttempts` (`AttemptsAssumption`).

`PolicyEngineProofs`: `TypesAlways`; `PolicyInv` ties what a thread has read to the version of the table:
as long as the version is the one a call checked, the table is the one it checked
(`CheckedWritesCompile`); what a reload has built compiles and is no older than the
version when it began (`SwapAlwaysWhole`). For `AlwaysEffectiveUnlessOverlapped` `EffectOK` says
that no reload of the replica that still runs has read the table before the write of a call
that was not overlapped, and that the queries are no older than that write once its own reload
has installed them: later reloads read later versions. Any table, any
`Uncompilable` sets under `CompilableAssumption` and `ConstantsAssumption`.

`GcpBindingProofs`: `GcpInv` says that while the ETag a call has read is the policy's,
what it has read is the policy, so its write changes its own request's bindings alone. From it
follow `NoEditEverLost`, `AlwaysBoundOnce`, `OnlyGivenUpWhenOvertaken` and
`GcpKeepsContract`: each step is a step of `ProviderContract` or stutters, the effect
falling on the write or, when there is nothing to do, on the read. `RevokedAlwaysLeavesNothing`
is inductive with `TokenOK`, that a Revoke has the token of a Grant of its request that has
returned: a write adds a binding of its own caller's request alone (`BindingsGrow`), and a Grant
that can still write for a revoked request is a second one.

`AwsSessionProofs`: `AwsInv` says that the denial a finished revocation has put is still there
while the role it was put on is, with the time of its token, and that an issue time is no earlier
than the time in its Grant's token. The role it was put on is the session's only in
`HomeAccount`, which is what the first theorem assumes. From it follow `AlwaysRevokedInTime`,
`DenialAlwaysFinal` and `NewerAlwaysUnaffected`.

`NamedBindingProofs`: `NamedInv` ties each call's step to the provider of its request, and
`ended` to the objects: what a Revoke has ended has no object and no Grant that runs. That
`Same` is an equivalence makes a conflict mean that one of its requests has the object, or
that an administrator has assigned the same (`GrantAlwaysGivesAccess`). `NamedKeepsContract` maps each step on a request that shares with
nobody to a step of `ProviderContract`, the rest to a stutter.

`ServerProofs`: `CallsInPhase` says that a running call pins the process to the phases that
serve it, which gives `SignalNeverCutsCalls`. `Holders` says that the goroutine that holds a
syslog notifier's mutex is the only one past it, and `Meetings` that a holder whose server is down, or
whose second connection is broken, has met an outage: with `JobsOfCalls` (a call has no jobs before
it notifies) they give `FailuresAlwaysMeetOutages`. Any number of calls, notifiers, signals,
failures and outages under `ConstantsAssumption`.

Some theorems have no run of their own. `AlwaysAppendsAtTheEnd` is about the ids that an auditor
reads by; a step that broke it would break `ChainUnbroken` or `ImplementsAuditLog` as well. The
type invariants of `PolicyEngine` (which has one row per policy name among its types),
`NamedBinding` and `Server` are proved; the inductive invariants rest on them.

All safety properties of the passing runs are proved. Only model-checked: liveness
(`ExpiredIsSwept`, `ApprovalResolves`, `AccessEnds`, `ReplicasConverge`, `LockComesFree`,
`ServesAgain`, `NotificationsEnd`), which is out of reach of the prover.

## 5. Findings

1. *Access after expiry* (`expired_access`). A failed revocation is logged, and the row goes EXPIRED
   all the same; no later sweep looks at it. ADR-011 has the sweeper list the bindings of
   Kubernetes by their label and delete the expired ones; no code does.
2. *Break-glass before its alert* (`break_glass_alert`). `createBreakGlass` inserts the request
   PENDING, logs it and then alerts. An approver or the agent may take it in between, and after a
   crash there is no alert at all; `BreakGlassAlerted` says that there is no other way.
3. *Sessions of other accounts* (`aws_account`). The AWS `Revoke` keeps only the name of the role and
   works in the account of jitsudod's credentials. With a scope that is another account it denies the
   sessions of a namesake there, or finds no role and reports success, and the session stays usable.
4. *A session its revocation does not deny* (`aws_revoked`). The AWS `Grant` reads the clock before it
   calls `AssumeRole`, and `Revoke` denies what was issued at or before that time, in seconds. A
   session issued in the next second keeps its access until it expires.

Remarks without a run, most of them on what the models allow and the properties therefore except:

* `mcp.go` (line 422) says that an escalated request "stays PENDING and is routed to the human approval
  queue". `AIApproveRequest` (`workflow.go` 371) looks at no tier, so the agent may approve any PENDING
  request, one that it has escalated among them; `RequestWorkflow` lets it.
* `api.go` (line 234) says that a new policy "takes effect immediately". A reload reads the table
  before it takes the lock (`policy.go` 52), so one that read before a write may install its queries
  after the writer's own reload, which then returns without being in effect until the next sync:
  the exception of `EffectiveUnlessOverlapped`.
* `api.go` (line 226) says that "a compile error never leaves the DB mutated". `CompileCheck`
  (`policy.go` 132) leaves the enabled version of a policy in the set when the proposed one is
  disabled, and does not look at the type that a policy leaves. The change is written, the reload
  fails, and no server starts until it is mended: `TakesOut` in `CheckedWriteCompiles`.
* `provider.go` (line 76) wants Grant to be idempotent and to return no error the second time. The look
  and the create of Kubernetes' Grant are two calls (`kubernetes.go` 143, 163), and when two Grants of
  a request overlap the second create fails with `AlreadyExists`. The workflow grants once.
* `notifications.go` (lines 44 and 50) allows a notifier "a few seconds" and gives it "a 10s deadline".
  The syslog notifier dials and writes under its mutex without one (`siem_syslog.go` 70), and `SendMail`
  has none (`smtp.go` 59): a server that stalls holds up its notifications, and those of syslog one
  behind the other, for as long as it does. `NotificationsEnd` excepts such a server.
* The header of `workflow.go` (line 8) and `SECURITY.md` (line 43) say that audit entries are written
  before the transitions. Every handler commits first and appends afterwards, and goes on when the
  append fails; `AuditTruthful`, `AuditInOrder` and `AuditComplete` say what the log is worth in this
  order.
* ADR-003 (line 26) says of the policies that every change is a recorded event; `UpsertPolicy`
  overwrites the row, and no policy call appends to the audit log.

## 6. Not modelled, and why

* **Reads** (GetRequest, ListRequests, GetCredentials, QueryAudit, policy lists and dry runs, the
  agent's reading tools, every provider's IsActive, which the server never calls): they change
  nothing. GetCredentials reads the row twice; what it returns is written once, with ACTIVE.
* **Policy evaluation.** Rego is a library; a verdict and a tier are any. Which modules
  compile together is a constant of `PolicyEngine`.
* **Principals.** One upsert a call. The last-seen time is shown and never used; the trust tier
  is an input of the evaluations, whose results are arbitrary here, also two that disagree
  because the tier changed between them.
* **Authentication.** Token verification is a library's; identities are given. One fixed token
  stands before the MCP endpoint.
* **API and MCP conversion**: protobuf and JSON-RPC in and out, validation of arguments. A
  refused call is a call that does not happen.
* **ValidateRequest of the providers**: a pure check of metadata and durations.
* **Azure's lookup caches** (`azure.go` 299): entries map names to identifiers for five
  minutes; one that is gone by then makes the creation fail, which `CreateAssignment` may always do.
* **`/readyz` while the process drains** still answers OK, so a load balancer may send calls
  to the HTTP server until it closes; `Accept` lets MCP calls in then.
* **The init command** writes a configuration file and the first policies, before any server runs.
* **Configuration, command line, client library, deployment files**: read once, or one RPC
  per command, or data. A client's retry is a new call.
