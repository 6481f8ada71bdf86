# A verification project for the Buren loan chatbot

The chatbot answers a customer's questions about their loans.  A question
enters through `POST /chat` or the Gradio page; a LangGraph agent lets a
language model call tools; the tools run in an MCP server, a child process of
the application, and read customers, loans and payments from PostgreSQL.  The
modules here model that program, TLC checks them on small instances, and TLAPS
proves the properties that matter most for every value of their constants.
Paths below are relative to `src/`.

## 1. Inventory

### Agent graph - `app/agent/{graph,nodes,state}.py`
*State*: one `AgentState` per invocation - `customer_id`, `messages` (append
only through `add_messages`), `tool_results` (a dict by tool name); inside
`call_tools` a local copy of the dict and a local list of messages.
*Operations*: `build_agent_tools`, `agent_node`, `call_tools`,
`_route_after_agent`, the compiled graph's step limit.
*Interacts with*: the model's API, the MCP client (one call awaited at a time).
*Hard*: batches of which one call fails, several calls of one tool, loops
without an end, how the arguments of the model and of the server are merged,
invocations interleaved on one event loop.
*Correct when*: every tool call of a response is answered before the model is
asked again; the dict says what the conversation says; the answer is a response
without calls; results are the customer's own and from exposed tools, for a
model that keeps to the schemas bound to it; it ends.

### MCP client and lifespan - `app/services/mcp_client.py`, `app/main.py`
*State*: `_exit_stack`, `_client`, `_tools`; the lifespan's `AsyncExitStack`;
the child process.  *Operations*: `start`, `stop`, `all_tools`, `call_tool`;
the lifespan's start-up and unwinding.  *Interacts with*: every invocation of
the agent, the MCP HTTP application's own lifespan, uvicorn and Gradio.
*Hard*: a start that fails or is cancelled half way, `stop` awaiting while
calls run, a child that dies unnoticed, or that is up and never answers (a call
has no timeout), a killed process.
*Correct when*: a live child always has someone who closes it, the fields
agree, serving implies connected, leaving the lifespan gives everything back.

### Services over the loan book - `app/services/{loan,analytics}_service.py`, `app/database/models.py`
*State*: the tables `customers`, `loans`, `payments`.  *Operations*: reads and
arithmetic only.  *Hard*: several statements under READ COMMITTED, of which
the sidebar's read the customer twice, two copies of the open-loan filter, zero
income, rounding, midnight.
*Correct when*: an answer is made of committed data of its own time window, in
the order it was read, and the numbers shown side by side agree when nothing was
committed in between.

### MCP server - `app/mcp_servers/server.py`
Six tools, two prompts, two resources, a logging middleware; one session per
tool call, no state of its own but the auth that is built at import.
*Correct when*: a tool says "not found" only of what was missing, and its
answer is of what was committed while it ran.

### Chat endpoint - `app/api/routes/chat.py`, `app/api/deps.py`, `app/database/session.py`
*State*: `get_agent`'s cache, the connection pool.  *Hard*: `get_agent` is
synchronous and runs in a thread pool, the request's session keeps its
connection during the whole agent run, shutdown.
*Correct when*: connections come back on every path, no request runs an agent
that knows no tools, a reply carries only its own question's results, and every
question ends whose own tool call is not left unanswered for ever.

### Seeding - `app/database/seed.py`
*State*: the database; for one customer the types left under their caps, the
loans and payments made up so far.  *Hard*: two commits per reset, concurrent
seeders, crashes in between, the month arithmetic of the generated data.
*Correct when*: the committed database is empty or one run's whole batch, a run
without `--reset` leaves it alone, nobody waits for ever; and in the data a
loan's status, its dates and its payments tell one story.

### Container boot - `entrypoint.sh`, `app/database/wait_for_db.py`
*State*: each launch's command and attempt; the database's tables and rows.
*Operations*: wait (60 attempts), `alembic upgrade head`, seed, `exec uvicorn`;
`set -e` ends a launch at the first that fails.
*Hard*: containers that start together on a new database, a database that comes
late or stops between two commands, a kill anywhere, a reset by hand meanwhile.
*Correct when*: a container that serves finds loans, of containers that start
together one serves, the others fail only on what one of them has written, and
every launch serves or is over.

### Schema migrations - `alembic/env.py`, `alembic/versions/`
*State*: tables, indexes and enum types, and the revision, all changed in one
transaction.  *Hard*: several processes, kills, and enum types that dropping a
table leaves behind.
*Correct when*: the revision tells what is there, and upgrade and downgrade can
follow each other for ever.

### Gradio UI - `app/ui.py`
*State*: per browser, the chat history, the chosen customer, the sidebar; on the
server, the line of events of each function.
*Operations*: load, choose a customer, type, submit, click a suggested question.
*Interacts with*: `get_agent` and the agent, the services.
*Hard*: events of one page overlap, and each works on the inputs it was sent with.
*Correct when*: the sidebar comes to be the chosen customer's, an exchange gets
lost only to one that overlaps it, and every question is over some day.

### OAuth wrapper - `app/mcp_servers/oauth_provider.py`
*State*: registered clients and codes in memory, one static token.
*Hard*: expiry, single use, lost replies, restarts between authorize and
exchange, another token after a restart.
*Correct when*: a code is good for one token response, to its client, in its
time; and a connector that goes on trying ends up with the token.

### HTTP deployment of the MCP server - `mcp_service/server.py`, `app/main.py`
*State*: which settings each program was started with.
*Hard*: two gates that must agree, auth built once at import, settings that
change without a restart.
*Correct when*: the tools answer who has the token, and nobody else.

### Settings - `app/config/settings.py`
Read once per process; those that choose a gate are part of the deployment.

## 2. The modules

| module | models | state and actions |
|---|---|---|
| `AgentGraph` | agent graph | one function per `AgentState` field and per local of `call_tools`; `AgentNode` is `agent_node` with the route after it; `SendCall`, `ToolReturns`/`ToolRaises`, `ReturnFromTools` are the awaits of `call_tools`; `OutOfSteps` is LangGraph's step limit |
| `McpClient` | MCP client, lifespan, child | the three fields, the local `exit_stack` of a running `start`, the lifespan's stack; one action per await of `start`, `stop` and the lifespan, the child's exits, `call_tool` |
| `ChatService` | POST /chat and the UI's questions over both | `INSTANCE`s of `AgentGraph` and `McpClient`; dependencies, `get_agent`'s cache, the pool, the endpoint, the end of the session |
| `ChatContract` | abstract: what a client of POST /chat may rely on | `Ask`, `Reply`, `Lose` |
| `Seed` | overlapping runs of the seed script | the committed rows, each run's deleted and inserted rows, its next statement; one action per statement and commit |
| `SeedHistory` | abstract: what seeding does to the committed database | `Wipe`, `Fill` |
| `SeedData` | what one run makes up for a customer | types under their caps, statuses, then loan by loan its dates and payments; every draw is a choice; the result is a book of `LoanBook` |
| `Boot` | containers that start over one database | each launch's command; `Reach`/`Miss`, `ReadVersion`, `CreateTables`, `CommitTables`, `CountCustomers`, `EndSeed`; its runs of the script are an `INSTANCE` of `Seed` over the same variables; kills, a reset by hand, a database that stops |
| `Migration` | upgrade and downgrade, statement by statement | the committed objects and the revision, each run's script and next statement |
| `LoanBook` | tables, selections, arithmetic | operators only |
| `LoanReads` | the tools and the sidebar against commits | the commit history; each reader's operation, next statement and what it has read; the sidebar's four statements are `ReadProfile`, `ReadLoans`, `ReadIncome` or `DropDtiLine`, `ReadDebts` |
| `UiSession` | pages of the UI | what the components show; each listener's event with the inputs it was sent with; the server's line per function; `turns` records how each question ended and what it overlapped |
| `OAuth` | the provider, the SDK's handlers, connectors | `_clients`, `_codes`, `_token`, the clock; what each connector holds; what was issued and granted |
| `Deployment` | who may reach the tools over HTTP | the settings now and at the start of each program, the last request |
| `AgentGraphProofs`, `McpClientProofs`, `ChatServiceProofs`, `SeedProofs`, `BootProofs`, `LoanBookProofs`, `McpAccessProofs`, `UiSessionProofs` | the theorems | |
| `MC...` | constants, and bounds that are formulas, for TLC | |

How they compose.  `ChatService` shares no variable between its two parts
except through its own actions: `SendCall(r)` is a step of `AgentGraph` and of
`McpClient` at once, because `call_tools` awaits `mcp_client.call_tool`; so are
`ToolReturns` and `ToolRaises`.  Everything else is a step of one part that
leaves the other alone.  `ChatContract` is what `ChatService` is shown to
implement (`KeepsContract`), `SeedHistory` what `Seed` is (`KeepsHistory`), and
`Boot`'s steps over the rows are `Seed`'s by definition, so that what is proved
of `Seed` holds of it.  `LoanReads` reads a database that is emptied and
filled in single steps; that it may is what `KeepsHistory` says.  `Boot` creates
the tables in one step; that it may is the theorem `SchemaIsAtomic`.

The sidebar's session (`app/ui.py:83-88`) reads the customer twice.  SQLAlchemy's
session refers to its objects weakly, and `get_customer_profile` keeps the
schema object only, so `calculate_dti`'s `session.get` sends a SELECT of its
own; the ratio it leads to may be of an income that was committed after the one
printed above it, and if the customer has gone the line is left out.

What an action is.  Between two awaits a coroutine runs alone on the event
loop, so everything up to the next await is one action.  Code in threads
(`get_agent` for a request), in other processes (the seed script, alembic, the
MCP server, PostgreSQL) and in the browser gets one action per statement or
event that others can observe.  Data is abstracted to what the properties tell
apart: a tool result is the tool, the customer it is about and the version of
the books it saw; the rows one run of the script writes to a table are one
element; a question is its number on the page.

Operators named "Variant" in a module stand before the definition they vary and
nothing else uses them.  Each is a slip one could make in that place of the
code; PROJECT.json says which property each one breaks.

## 3. The runs

| run | question | bounds, and why they are enough |
|---|---|---|
| `agent` | An invocation of a model that keeps to the schemas bound to it, or of one that asks for anything: whose data, is the conversation well formed, do the results say what it says, does it end? | Two customers, so that a wrong owner can be told apart; a tool of the allowlist, one outside it that goes by loan id, and a name the server does not have; four nodes and two calls in a response: a full batch, a failed one, a batch after a batch, one tool twice.  Invocations share no state, so `OneSpec` has one per behaviour; a call has at most one argument (`ModestModel`) |
| `mcp_client` | start, stop, the lifespan and calls under failures, kills and a server that never answers | Two processes, so that something could be inherited; one caller that uvicorn waits for and one that it does not; the HTTP endpoint mounted, so that the exit stack has both entries |
| `chat` | Requests from start-up to shutdown: pool, agents, replies; does every question end whose own call is answered? | Two requests and a question of the UI on one database connection: a request waits for another's, a UI question outlives the requests; one tool call suffices for every interleaving of a call with shutdown.  `SubjectsSpec` fixes whom each asks about, one about another customer than the two others; the second request's model asks for no tool, as it cannot have calls in flight together with the first one's anyway |
| `seed` | Overlapping runs of the script | Two runs without and two with `--reset`, from an empty and from a seeded database: a winner, a loser and one more of each kind |
| `seed_data` | Do status, dates and payments tell one story? | `FewSpec`: one loan with every status, on days around short months, leap days and the end of the year, with days overdue on both sides of every rounding; two loans of a customer on a plain day, so that one can be overdue for the other.  A history of four months, where the code has twelve: longer and shorter ones than it, and a late tail as long as it |
| `loans` | Every tool and the sidebar on small books, while resets commit and midnights pass | `BooksSpec`: every book of two loans and two payments over all statuses, zero income and a ratio that ends in a half; from three of them four commits, so that a reset can empty and fill the database between any two statements of a reader, and once more; two midnights |
| `ui` | What sidebar and transcript show, what gets lost, does every question end? | Three questions, typed twice over or suggested: two that overlap and one that carries their exchanges on.  `SmallSpec`: a second page with a question of its own stands in the same lines, and two customers are chosen between on one of the pages while the other is untouched |
| `boot` | Who serves what, who fails and on whom, does every launch end? | Two launches and two resets by hand, a database from before or none, that comes late or stops; two attempts, the last and one before it |
| `oauth` | What is a code good for, and do connectors end up with the token? | Two connectors, so that codes and clients could be mixed up; two faults: a lost reply and a restart, in either order, or two of one kind; a clock of one tick on which a code of before is too old; sixteen draws, more than these faults can use up |
| `deployment` | Who gets to the tools? | Two tokens, the one in use and another; every setting of both programs, changed and restarted at will |
| `migration` | Does the revision tell the truth, can the cycle go on, does nobody wait in a circle? | Three processes: a winner, a loser, and one that goes the other way |

`agent_model_args` ends in a violation of `NeverModelControlled`, what a
docstring says: "injecting `customer_id` server-side (never model-controlled)"
(`app/agent/nodes.py:7-8`).  The merge at `nodes.py:129` gives the model's own
`customer_id` precedence.  The bound schemas do not offer that parameter, and a
model that keeps to them cannot reach this: `OwnData` (run `agent`, theorem
`Own`).

Observations that the models agree with and that have no run of their own:

- "Built once" (`app/api/deps.py:19-20`): two first requests can both miss
  `lru_cache` and build.  Both agents know the tools, which is `RequestsKnowTools`.
- "Only these MCP tools are reachable" (`app/agent/nodes.py:41`): `call_tools`
  (`nodes.py:127`) passes on whatever name a response holds.  With a model that
  names only bound tools it holds (theorem `Exposed`).
- A payment may be recorded as paid in the future, by its delay
  (`app/database/seed.py:201`), and the last payment of a late tail is due today
  (`seed.py:194-198`): `get_overdue_payments` lists it as 0 days overdue
  (`app/services/loan_service.py:95`).
- "Can't be overdue longer than the loan has actually existed"
  (`seed.py:158-160`): a month counts as thirty days there, so up to two days more.
- Of two questions of one page that overlap, the later answer takes the other's
  exchange off the screen (`app/ui.py:116-131`); `LostOnlyByOverlap` says that
  nothing else does.
- A restart forgets clients as well as codes (`oauth_provider.py:42-44`);
  connectors have to register again (`Unknown`).

### Deadlock

`boot`, `deployment`, `migration` and `ui` check for deadlock.  The others say
`CHECK_DEADLOCK FALSE`, because each of those systems may come to rest: all
invocations over, all launches or runs used up, every loan built, every
connector in possession of the token.

### Bounds in the modules

`RecursionLimit` is LangGraph's limit (the code leaves its default), `MaxCalls`
bounds the calls in one response, `MaxLaunches` the processes considered,
`PoolSize` is the engine's pool with its overflow (the code leaves SQLAlchemy's
defaults), `MAX_ATTEMPTS` is `wait_for_db`'s, `MaxPaymentHistoryMonths`
`seed.py`'s; `MaxCommits` and `MaxToday` bound `LoanReads`' commits and
midnights, `MaxTurns` a page's questions, `MaxNow`, `MaxFaults` and `MaxDrawn`
what happens in `OAuth`.  `Terms`, `Months`, `Since`, `OverdueDays`, `NumLoans`
and `Todays` are the draws `seed_data` considers, of those the code may make.
The theorems hold for every value.

### Fairness

- `AgentGraph`: weak fairness of each invocation.  The event loop is fair to
  ready coroutines, and the model's and the server's answers arrive or the call
  fails; nothing assumes that an answer is good.  That the MCP server
  answers is assumed here only, to ask whether the loop ends when every call does.
- `ChatService`: weak fairness of each task except while it waits for a server
  that is up: `call_tool` has no timeout (`mcp_client.py:78`), so a call may stay
  unanswered for ever (`Unanswered`).  A call on a server that has exited raises.
  `EveryQuestionEnds` is therefore about a question whose own call does not hang;
  other calls may hang as they like, with a connection of the pool in hand.  The
  thread pool runs what it is given, and the model's API is assumed to answer or
  to fail.
- `McpClient`: weak fairness of the lifespan's steps and of a child that sees its
  input closed.  Nothing makes a process start, shut down, or a child die, and no
  call has to end.  `ShutdownCompletes` begins where the lifespan unwinds:
  before that uvicorn waits for its requests, and one that hangs keeps it waiting.
- `Seed`: weak fairness of each run's next step.  It is enough although runs
  wait for each other's rows, because no two of them ever wait in a circle;
  `EveryRunEnds` is that claim.
- `Boot`: weak fairness of a launch that has started and of each run of the
  script; what is under way when the database stops fails.  Nobody has to start
  a launch, nor to start or stop the database.
- `UiSession`: weak fairness of the server's answers to load, change and
  questions and of the browser's clearing; the user need not do anything.  The
  agent answers or fails: a question that hangs (`mcp_client.py:78` again) would
  keep those behind it in its line, which `QuestionEnds` does not deny.
- `OAuth`: weak fairness of each connector, which goes on trying.  `Connected`
  says that this suffices once faults and waiting are over.

## 4. What is proved

`McpClientProofs`.  `McpInv` fixes, for every place the lifespan can be, what
is on its stack, which fields are set and who holds the child.  None of the
properties is inductive alone: `ChildHasOwner` needs to know that the stack is
not empty while the fields are set, and `EndsClean` that an empty stack means
that `stop` has run or `start` has failed.  From the same invariant, a lifespan
that shuts down never meets an exit it cannot run (`ShutdownNeverSticks`), and
each of its steps brings its end nearer (`ExitsRunOut`).

`AgentGraphProofs`.  `LoopInv` adds to `TranscriptOK` and `ResultsAgree` what
`call_tools` holds half way: its local messages answer the first calls of the
last response, and its local dict is what the conversation will say once they
are appended.  The lemmas about sequences say how `WellPaired` and
`LatestAnswers` extend when a response, or a whole batch, is appended.  `Own`
and `Exposed` are about the invocations in `Followers`, whose model keeps to its
schemas; their invariant `OwnInv` follows a call from the response to its
answer.  An invocation has a budget of `RecursionLimit` rounds of a response and
its calls (`StepsAreFew`), and everything it does is paid from its own
(`StepsRunOut`).

`ChatServiceProofs`.  `RunsMcpClient` and `RunsAgentGraph` show that every step
of the composition is a step of each part or leaves it alone, so the parts'
theorems hold in it and need not be proved again.  `ChatInv` then relates the
parts: an agent built while the process serves knows the tools, because nobody
can ask before; a request in progress keeps the process serving, which is
uvicorn's doing (`Shutdown` is marked external); a running invocation is about its task's customer.  `Implements` shows that every step is
one of `ChatContract` or leaves what a client sees unchanged, if the requests
are among `Followers`: the reply's results are `Own`'s.

`SeedProofs`.  `SeedInv` says that whoever has deleted something holds the
payments, so nobody else has (`DeletesOK`); that whoever has inserted found the
database empty and is alone (`InsertsOK`); that the rows there are come from a
run that is done, and that those from before are gone when a run means to
insert (`WrittenOK`); and that while the database is empty someone is still to
fill it (`FillerOK`).  The lemmas `DeleteStep`, `FlushStep` and
`CommitInsertsStep` are where locks, foreign keys and the primary key are used.
The same facts show that transactions never wait in a circle
(`NobodyWaitsInACircle`): whoever holds rows has deleted some, and then nobody
else holds any, or has inserted its own, and then only its commit is left.
`StatementsRunOut` counts what a run has still to do.

`BootProofs`.  Every step is one of `Seed` or leaves its variables alone, by the
way `Boot` is written, so `Seed`'s invariant holds in it, and what is left is to
follow each launch from the tables it saw to the rows its script found or
wrote: a launch that serves has seen loans committed, and only a reset takes
them away.  `AttemptsRunOut` counts down its attempts, its migration and its
statements, which no other launch, reset or stop of the database adds to.

The same module proves `Migration`.  What its properties say is kept only with
what runs under way have seen: the revision a run read is still the committed
one unless another has committed since (`FreshOK`), whoever has executed a
statement runs from the committed revision, because the first object it named
exists at one revision only (`WriterOK`), and of the open transactions one at
most has executed any, because the others wait for that first object or are
refused on it (`OneWriter`).  So the objects a commit leaves are those of its revision
(`CommitEffect`), a refused run was overtaken, and of those that wait each waits
for the one that writes, which waits for nobody.  `SchemaIsAtomic` is a
refinement: to everyone else a run is one step from nothing to everything or
back, of a specification stated there, whatever is refused or killed.

`LoanBookProofs`, first part.  Each reader's invariant remembers the commit that
each of its statements saw, at or after the one it began on: the loans are of one
of them, the income of one and the debt of a later or equal one.  A sidebar's
chain has four (`Chain`), from the profile to the debt, and ends at the third if
the customer is gone there.  `DtiNearest`
needs that a debt is a natural number, for every finite set of loans:
`SubsetInduction` is induction over the finite subsets of a set, stated with a
set in place of a predicate and derived from well-founded induction, and by it
the community modules' fold over a set gives one sum and a natural one.  The rest
is Euclid's division and what Python's `round` does with it (`Rounded`).

`LoanBookProofs`, second part: `SeedData`, by Python's calendar.  Months are
numbered through; `NextMonth` says that the first of the next month is a
month's days later, over February, leap years and the end of the year, and
`MonthsDoNotOverlap` that a later month begins after an earlier one has ended.
`ShiftedDate` says what `add_months` does in these numbers, `BackAndForth` where
a payment's day lies that is reached by going back from today and forth again:
at most three days before today, when the months agree.  With that,
`BuiltLoanFits` shows all that is claimed of one loan and its payments, for any
day, term, elapsed time and days overdue, and `SeedDataInv` carries it through
the steps.  The slack is real: a month may have 31 days where the script counts
30, and the rounding to half a month pays for it up to the 120 days it allows
(`TailOfLoan`).

`McpAccessProofs`.  A code in `_codes` was issued by this start to that client and
was never exchanged; `CodeOnce` and `GrantsJustified` follow, whatever is lost,
restarted or late.  For `Deployment`, `DeploymentInv` says
that the last reply came from a program still running, with the status its
settings at start give (`ReplyOK`), and that the service of its own never runs
without auth; `McpStatuses` lists what the gates of the two programs answer.

`UiSessionProofs`.  The sidebar's part is inductive by itself, with what holds
before the first load.  For the transcript, each question on its way carries a
history that rises to its own turn, any two on their way overlap, and an
exchange that nothing overlapped is in the transcript and in every history on
its way (`Carried`): so whichever answer comes next puts it on the screen again.

The theorems hold for every set of tasks, customers, tools, runs, launches,
pages and connectors, and rest on the named assumptions on the constants only:
`AgentAssumption`, `McpAssumption`, `ChatAssumption`, `SeedAssumption`,
`BootAssumption`, `ReadsAssumption`, `OAuthAssumption`, `UiAssumption`,
`SeedDataAssumption` (the days are days of the calendar, a customer gets a loan
and a loan a month of history at least); `Migration`'s and `Deployment`'s rest on
none;
`ChatServiceProofs!Implements` also on `Http \subseteq Followers`.  TLC
evaluates the named ones on every run.  A property that a theorem states and no
run checks (`TypeOK` of each module, `ExposedOnly`, `WholeBatch`,
`OnlyResetDeletes` and others) was model-checked before it was proved.

Model-checked only: liveness under fairness (`EveryInvocationEnds`,
`ShutdownCompletes`, `EveryQuestionEnds`, `EveryRunEnds`,
`LaunchesEnd`, `QuestionEnds`, `Connected`), which TLAPS does not reach.  For
`EveryInvocationEnds`, `ShutdownCompletes`, `EveryRunEnds` and `LaunchesEnd` the
safety they rest on is proved: a measure that every step lowers
(`EveryStepIsSpent`, `EveryExitIsSpent`, `EveryStatementIsSpent`,
`EveryAttemptIsSpent`), and for locks and exits that somebody can go on.  Left
to TLC is the step from there to `~>`, which needs `ENABLED` and induction over
the measure.  Every invariant and every refinement that a run checks is proved.

## 5. What is not modelled

- The text of prompts, messages and errors, the prompts and resources of the
  MCP server, and the logging middleware: no property is about them.
- The amounts of money the seed script makes up, and names and labels.
- Refresh and revocation of OAuth tokens, which do nothing here, and the PKCE
  check, which is the SDK's.
- `alembic`'s offline mode, which prints SQL.
- PostgreSQL, LangGraph, FastAPI, FastMCP and Gradio, but for what the code
  relies on; definitions that stand for them are marked external in
  PROJECT.json.
- The images and start files (`Dockerfile`, `docker-compose.yml`, `run.sh`,
  `mcp_min/`), beyond what `entrypoint.sh` does.

## 6. Plan

1. `UiSession` with `ChatService`: the page's questions over the pool and the
   agents, in place of an agent that answers or fails.
2. `Boot` with `Migration`: a downgrade by hand while containers start.
3. Proofs: measures for `EveryQuestionEnds`, from those of the agent and the MCP
   client, and for `QuestionEnds`.
