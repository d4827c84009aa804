# The login server: TLA+ models, checks and proofs

This directory verifies the login server under `src/LoginServer`: a Windows
server that accepts JSON requests over TCP (log in, register, change a
password, ask for a level, a deadline, permissions), answers them from a MySQL
database, and pushes out a client whose account is logged in elsewhere, and
the library its clients are built with. Only `LoginServer/`, `LoginVerify/` and
`README.md` of the repository are its own code, about 4,400 lines;
`include/` holds the third-party headers of rapidjson and MySQL. There are no
tests.

Paths below are relative to `src/LoginServer/LoginServer/` unless they say
otherwise. The sources are GBK encoded; quotations are translated.

## 1. The system

| Component | Source | State | Operations |
|---|---|---|---|
| Network engine `CIOCPModel` | `IOCPModel.h/.cpp` | the completion port, the accept contexts of the listen socket, a context per client (operation, buffer, byte counters, business object), the list of contexts, the worker threads | `_WorkerThread`, `_DoAccpet`, `_DoFirstRecvWithData`, `_DoFirstRecvWithoutData`, `_DoRecv`, `PostWrite`, `PostRecv`, `_PostAccept`, `HandleError`, `_RemoveContext`; `Start`, `Stop`, `_DeInitialize` |
| Business object `CClientParse` | `ClientParse.h/.cpp` | user, user id, "logged in twice" flag and last result of one connection; static: the map from users to clients and its lock, the pool | `Run` and its handlers, `GetReturnValue` |
| Connection pool `CObjectPool`, `CLock` | `object_pool.h`, `Lock.h/.cpp` | a linked list of free connections, a counter, an event, a lock | `Create`, `GetFree`, `Recycle` |
| Database | external | tables `user`, `user_block`, `saler`, ... | SQL queries |
| Process | `LoginServer.cpp` | none | starts the engine, then loops for ever |
| Client library `CLoginVerify` | `../LoginVerify/CLoginVerify.*` | a socket, `clientState_`, the threads of `KeepAlive` | `InitEnv`, `Login`, `Register`, queries, `KeepAlive`, `ResetPassWord`, `cleanEnv` |
| MD5 `Md5Encode` | `../LoginVerify/md5.*` | none | `Encode`, `FillData` |
| Logger | `logger.*` | one stream | logging |

**How they interact.** A worker thread takes a completion from the port. When
it is received data, the thread calls `Run` of the business object in the
connection's context, copies its result over the request with `GetReturnValue`,
and posts the send; when the send completes, another thread (or the same one)
posts the next receive. Handlers take a database connection from the shared
pool, run one to four queries and give it back. A login writes the shared map
and marks the client it displaces; that client learns of it when its own
connection asks (`CS_RELOGINTHREAD`, every five seconds from a thread of the
client library, on the socket its caller uses as well).

**What is hard here.** Requests of different connections run in parallel and
share the map, the pool and the database; `GetFree` tests the list before it
takes the lock; a login is two queries and two critical sections; the contexts
have no lock at all and rely on one operation being in flight per connection;
completions may fail, sends may be partial, posts may be refused, clients leave
at any moment; `Start` fails half way and releases what threads already use;
the client library receives on one socket in two threads, with requests that
have no boundaries and answers that bear no number. The full list, with source
lines, is `hazards` in `PROJECT.json`.

**What makes each component correct.**

- *Pool*: a connection has one user at a time; the list, its tail and its
  counter agree whenever the lock is free; the lock is always left; no working
  connection is lost; NULL is returned only when nothing was free.
- *Business object*: the map never names a client that is somebody else; a
  session is one account; of the clients logged in as one user only one is not
  told to go, and it is told because of a login as its user; what a reply says
  about the database is true; a password is replaced by who knows it; every
  request is answered, with its own result.
- *Engine*: a context has one owner; accepts are lost in one known way only; a
  connected client is never forgotten; every request is answered; only
  requests are handled as requests; `Stop` returns and releases nothing in use;
  a failed `Start` leaves no thread behind.
- *Server as a whole*: a business object is run by one thread at a time;
  connections suffice for the threads there are, and every reply is then the
  result of its own request.
- *Client library*: a call returns its own answer; `clientState_` tells the
  truth; a kick or a dead server is noticed.

## 2. Modules

| Module | What it is |
|---|---|
| `ConnectionPool` | the abstract pool: a set of free nodes and what each caller holds |
| `ObjectPool` | `CObjectPool`, a step per shared access; implements `ConnectionPool` |
| `ClientParse` | the business objects of several connections, composed with `ConnectionPool` and the database |
| `DeadLine` | the dates of an account, against the calendar |
| `AccountHistory` | the accounts as the days go by: `ClientParse` with `DeadLine`'s column EXP, the clock and the day of each registration |
| `IocpModel` | worker threads, port, sockets and clients |
| `LoginServer` | `IocpModel` composed with `ClientParse` |
| `ServerLifecycle` | `Start`, `Stop` and `_DeInitialize` against the worker threads |
| `LoginVerify` | the client library: the caller and the threads of `KeepAlive` on one socket, the network, the server's side of it |
| `Md5Encode` | how a password is cut into the blocks MD5 digests, against the standard |
| `MCObjectPool`, `MCClientParse`, `MCAccountHistory`, `MCIocpModel`, `MCLoginServer`, `MCServerLifecycle`, `MCLoginVerify` | instances for TLC |
| `ObjectPoolProofs`, `ClientParseProofs`, `IocpModelProofs`, `IocpServiceProofs`, `LoginServerProofs`, `ServerLifecycleProofs`, `LoginVerifyProofs`, `AccountHistoryProofs` | theorems and proofs |

Operators whose comment begins with "Mutant" are plausible bugs of the
definition below them; no behaviour uses them. `PROJECT.json` says which
property each of them breaks.

### ObjectPool

Variables carry the names of the members. `GetFree` is `GetFreeCheck` (the
unlocked test of the head), `GetFreeCount` (the unlocked test of the counter),
`GetFreeSignalled` or `GetFreeTimeout` (the wait of 1000 ms on the manual-reset
event, which nothing resets), then the critical section: `GetFreeUnlink`,
`GetFreeUncount`, `GetFreeDetach`. `Recycle` is `RecycleLink`, `RecycleCount`
and `RecycleWalk`, once per iteration of its loop. The head and the counter are
read outside the lock, so each of their writes inside it is a step of its own.
`Dead` are the nodes whose connection to MySQL failed at start (`SqlConNode::
Init` sets `pSqlCon = NULL`): the handlers take them and return without
`Recycle`. The constructor's order of allocation is any order of the nodes.
A wait ends by timeout at any time while the event is not set.

The refinement to `ConnectionPool` lends a node when `GetFree` unlinks it and
has it back when `Recycle` leaves the critical section. A dead node therefore
leaves the pool for good, which the abstract `Drop` says too.

### ClientParse, DeadLine and AccountHistory

One set of variables per `CClientParse`, plus the map, the tables and the pool.
`Run` takes the next request of a client and either answers at once
(`RunWithoutDatabase`) or goes to the pool (`RunToDatabase`). Each query and
each critical section is one step, named after the handler and the query
(`LoginSelectName`, `LoginSelectPassword`, `RemoveLoginState`,
`UpdateLoginState`, ...); a query may fail at any time. `UpdateLoginState`
includes the assignments of `Login` right before it, which touch only members
of the same object. `Finish` is "assign the result, then Recycle";
`ReturnEarly` the return when there is no node or no connection, which leaves
the previous result in place.

Data: users, passwords and ids are model values, results are the literal codes
of the source or the id; salers, levels, dates and permissions answer anything.
`UniqueName` says whether the database refuses a second account of one name,
since the schema is not in the repository; the proofs hold for both values.
`Empty` is the empty name. `m_userName` holds it before the first login, and
requests may hold it as well, since `Register` and `Login` accept it: a client
that has logged in as `Empty` counts as not logged in (`ClientParse.cpp:252`,
`:549`, `:596`, `:643`), so that its next login as another user does not call
`RemoveLoginState` and leaves the entry of `Empty` in the map. `MapNamesItsClient` and
`KickedByItsUser` say what holds in spite of it, and section 3 what does not.
`DeleteSelfLoginState` is not modelled: it is called by the destructor of a
context, and contexts are never deleted.

In `ClientParse` the deadline answers either way. What it answers is `DeadLine`:
`GetDefaultExp`, the number a date is turned into, and the comparison. The days
between two dates are counted by the leap years before them (`DayNumber`).
`AccountHistory` puts the two together. It adds the date of the machine (`today`,
which `Tick` moves on between any two steps) and column EXP, which `RegisterInsert`
fills (`Enter`) and `BeyondDeadLine` answers by (`Judge`). `born`, the day of each
registration, and `overtaken`, whether another client has replaced a password
between the two queries of a `ResetPassWord`, are history variables. That a row's
EXP is written by `Register` alone is what the server does; whoever administers
the database may do otherwise.

### IocpModel

The external part is the clients (`Connect`, `Send`, `Leave`) and Windows
(`TakeClient`, `CompleteAccept`, `CompleteRecv`, `CompleteSend`): `AcceptEx` is
posted with a receive buffer, so it takes a client at once and completes when
the client has sent something or has left. `posted` and `queue` say where each
context is: in a socket operation, or in a packet on the port. A worker thread
takes a packet (`HandleError`, `ClientLeft`, `RecvDone`, `SendDone`,
`AcceptDone`) and goes on to the handlers, each of which is a step:
`DoFirstRecvWithData`, `DoFirstRecvWithoutData`, `RunClient` (the business
part of `PostWrite`), `PostWrite`, `PostRecv`, `PostAccept`.

`Faults` chooses what may go wrong: clients that reset (`reset`), other errors
(`abort`), operations that cannot be posted (`post`), partial sends (`partial`).
A buffer holds nothing, a request or a reply. All that a client has sent when a
receive completes is one request (the stream has no message boundaries).

### LoginServer

The worker threads of `IocpModel` and the objects of `ClientParse`. What is one
step `RunClient` in the engine is here `Run`, as many steps of `Handle` as the
request has, while the other threads go on, and `Reply`, which is `RunClient`
of the engine and `GetReturnValue` of the object at once. The engine knows
nothing of the business, and the business nothing of the threads: that only
one thread runs an object, and that at most as many connections are in use as
there are threads, is true of the composition alone. The rest of a reply that
is run as a request is no JSON object, or empty.

### ServerLifecycle

`main` is the thread that calls `Start` and `Stop`, one action per object it
creates or releases. `_DeInitialize` may run twice, nested
(`_InitializeListenSocket` calls it, and so does `Start` when that fails), so
`returnTo` says where it returns. A worker is reduced to what it uses: the
event, the port, the lock of the context list (`HandleAccept`) and the listen
context (`_PostAccept`). `WaitForThreads` is `WaitForMultipleObjects`, which
fails at once for more than 64 handles or a NULL one, and whose result is not
looked at. Using what is gone may crash, as undefined behaviour may.

### LoginVerify and Md5Encode

The caller's thread and the threads of `KeepAlive` share `clientSocket_` and
`clientState_` without a lock. Each write of them is a step of its own, and so
are most reads; `Check` reads both at once (`CLoginVerify.cpp:503`, `:507`),
`ReceivePoll` takes the socket of `setsockopt` and of `recv` at once (`:527`,
`:528`), and `Connect` connects and writes `clientState_` at once. What
other threads may do between those two accesses (close the socket, write the
state) the model has them do before or after; the loop or the receive ends as it
would have. A connection keeps the order of messages and not their boundaries:
`Serve` takes some of what has arrived for one request, `Arrives` some of what
has arrived for one reply. The receive timeout that a thread of `KeepAlive`
sets is one of the socket, so the caller has it too. `watched` and `mixed` are
history variables: has `KeepAlive` started a thread since `InitEnv`, and on
which sockets has the caller called while a thread of `KeepAlive` ran, or given
up a call.

`Md5Encode` has `FillData` and the blocks `Encode` makes of its result, one
symbol per byte for what the byte is; the rounds on a block are left out.

## 3. Runs

| Run | Instance | Shows |
|---|---|---|
| `pool` | 3 threads, 3 nodes, 1 dead | the list is one chain with the right tail and counter, nodes have one user, the lock is left, `ConnectionPool` is implemented |
| `clients` | 2 clients, 2 users and the empty name, 2 ids, 2 nodes | map, sessions, pool, accounts and kicks are consistent while both register and log in under the empty name and as one user, and one of them is a third user as well |
| `poll` | 2 clients that log in as one user, 2 nodes, 1 dead | at most one of the clients of a user has not been told to go, the other is told by its own poll; requests are answered |
| `accounts` | 2 clients, 1 account, 3 passwords, 2 nodes, 6 days from 2023 to 2025 | the deadline answers that an account lasts a year from the day another client registered it; a password that the request does not name is replaced only when the other client put it there between the two queries |
| `engine` | 2 threads, 2 accepts, 2 clients, all faults | a context has one owner |
| `engine_live` | 2 threads, 1 accept, 2 clients, resets | only requests are run; connected clients are not forgotten; an accept is lost to a reset only; requests are answered unless silent clients or resets have taken every accept |
| `server` | 2 threads, 1 accept, 2 clients, 2 nodes and one that failed at start, partial sends | an object is run by one thread; the pool is never found empty, so every reply but the one that meets the failed node is the result of its own request |
| `verify` | 2 sockets, 1 thread of `KeepAlive`, 2 calls; passwords up to 200 bytes | foreign answers and false kicks only where calls are mixed; the end of the thread can be seen; `Login` returns; a dead server is noticed, across a reconnection too; a kick is noticed once the program stops calling; the blocks MD5 digests are the standard's, except at 56 bytes |
| `lifecycle` | 3 workers, 2 accepts, all faults | `Stop` returns and releases nothing in use; a failed `Start` ends its workers |

Violations, each of a statement made in the repository (`findings` in
`PROJECT.json` quotes it):

| Run | Statement | What the code does |
|---|---|---|
| `kick_lost` | `src/README.md:9` accounts push each other out | switching users erases the entry another client has written (`ClientParse.cpp:255`) |
| `false_relogin` | `../LoginVerify/CLoginVerify.h:43` `CLIENT_RELOGIN` is "logged in again" | any answer that starts with 1 is taken for it, also one to another call |
| `start_fails` | `IOCPModel.cpp:203`, `LoginServer.cpp:22`: `Start` reports that it failed | it releases everything twice and reads an array that is gone |

**Disagreements that have no run**, because the model already states what the
code does, or because one reading shows them:

- `IOCPModel.cpp:457` posts ten accepts "to work with"; an accept that fails
  is never posted again (`IOCPModel.cpp:836`). `AcceptLostToReset` says
  precisely when.
- `IOCPModel.cpp:130-133`: after a partial send the server is to "go on
  sending", but `PostWrite` runs the business on the rest of the reply.
  `RunIsGivenARequest` is false with `partial` among the faults.
- `ClientParse.h:91` announces "the result of the business class"; a request
  that gets no connection (`ClientParse.cpp:203`), or whose type has no case in
  `Run` (`:107`), is answered with the result of the request before it.
  `ReplyIsOwn` says when that does not happen.
- `ClientParse.cpp:254` is to "clear the login state of the previous user"; it
  does not when that user has the empty name (`:252`), so that the next login
  under the empty name marks a client that may be somebody else by then. This
  is why `KickedByItsUser` allows the empty name and `MapNamesItsClient` leaves
  it out.
- `ClientParse.cpp:522` compares the password in the database with the one that
  was sent, but the UPDATE (`:539`) is another query: of two clients that change
  one password at a time the second replaces a password that was never
  compared. `ReplacedUnlessOvertaken` says precisely when.
- `../LoginVerify/CLoginVerify.h:9`: `KeepAlive` starts "a thread that checks for
  a repeated login". A program that goes on calling on that connection may have
  every poll merged with a call, or receive the answer to it
  (`CLoginVerify.cpp:528`), and then its user is never told. `KickedIsTold` is
  false of such a program, hence its condition `StopsCalling`.
- `object_pool.h:185`, `:188`: `GetFree` returns NULL at once where its comment
  announces a wait.
- `ClientParse.cpp:171`: a second login as the same user on one connection
  marks that very client.
- `ClientParse.cpp:539`, `:541`: the result of a failed UPDATE is overwritten
  by success.
- `object_pool.h:70`, `IOCPModel.cpp:5`: the pool has 4 connections, the engine
  two threads per processor, so `EnoughConnections` promises nothing on a
  machine of three processors.
- `IOCPModel.cpp:725`: contexts are never deleted because they are never
  listed.
- `IOCPModel.cpp:845`: a worker thread ends at any unexpected error.
- `IOCPModel.cpp:234`: with more than 64 threads, or one that could not be
  created, `Stop` does not wait (`WaitWaits` in `NothingAfterRelease`). When
  posting an accept fails in `Start`, everything is released while workers may
  already serve.
- `../LoginVerify/CLoginVerify.cpp`: `CLIENT_DISCONNECT` is never set (`:514`
  sets `CLIENT_CONNECTED`); a query whose send fails makes a string of NULL
  (`:239`); `KeepAlive` tells nobody that its thread was not created (`:558`).
- `../LoginVerify/md5.cpp:319`: for passwords of 56 bytes `FillData` adds
  nothing, so they all have one hash. `PaddingIsStandard` says for which
  lengths the blocks are right.

**Bounds.** Interference in the pool and in the map needs two actors; the third
thread (`pool`) and the third client (`kick_lost`) let one act between two
others. Three nodes give a list with a head, a middle and a tail, and fewer
working nodes than threads let the list run empty. One node in `kick_lost`
makes `GetFree` fail, too. `Ids` bounds registrations: when no id
is left an INSERT fails, as it may anyway. In the engine two clients and two
accepts let contexts be exchanged; `MaxReply = 2` is the smallest reply that
can be sent in two parts; `MaxInbox = 1` lets a client send again while its
reply is under way. Each client connects once: a new connection gets new
contexts, so it is another element of `Conns`. In `engine_live` and `server`
there are fewer accepts than clients so that an accept has to be posted again.
`server` uses that threads, clients and working nodes are alike (symmetry; there
is no liveness in that run, which has 1.4 million states); it has as many working
nodes as threads, without which `EnoughConnections` and `ReplyIsOwn` claim
nothing, and one dead node, which either client may meet first. In `clients` each
name is one account, and two clients log in under two names at a time; with the
two ids one name is registered besides the account there is. In `accounts` the six
days are the ends of February in the leap year 2024 and the days a year before and
after them, so that accounts are asked for at the age of 365, 366 and 367 days,
across a 29th of February, from one and to one that does not exist; two nodes let
two clients change the password at a time. In `verify` two sockets
are one connection and the next, and two calls are one whose answer is late and
one that meets it; after its two calls the program has stopped calling, so that
`StopsCalling` holds there and `KickedIsTold` is checked for what the two calls and
the polls may take from each other. A thread of the first connection that
still runs while another watches the second takes two threads, whose state
space (4.6 million states) is too large for liveness: the safety theorems of
`LoginVerifyProofs` cover any number of threads, the liveness properties are
checked for one.
Three workers in `lifecycle` end
in three ways at once: by the event, by an exit packet, by an error;
`MaxWait = 3` is the 64 of Windows. 200 bytes of password are three blocks and the
borders between them.

**Deadlock** is checked in the runs of the pool and the business objects. In
`engine`, `engine_live` and `server` the clients connect once, and when all
have left the server rightly waits for ever; in the runs of the client library the program may have
made its calls and the server owes nothing; in `lifecycle` everything has been
released.

**Fairness.**

- `ObjectPool!FairSpec`: only a thread inside the critical section keeps
  running; it waits for nothing there.
- `ClientParse!FairSpec`: a worker thread inside `Run` goes on. It waits for
  queries, which end with a result or an error, for the pool, whose wait has a
  limit, and for critical sections of a few instructions. `Run` itself has no
  fairness: clients need not send anything.
- `PollingSpec` adds that every client polls again and again, as the thread
  of the client library does (`../LoginVerify/CLoginVerify.cpp:486-552`).
  It is strong fairness because the other requests of that client may disable
  the poll for a while.
- `IocpModel!FairSpec`: threads that can move do; Windows completes what it can
  complete; no packet stays on the port for ever while others are taken
  (strong fairness per context: the port is a FIFO queue). Nothing is assumed
  of the clients, which may connect and say nothing for ever; `AcceptEx` with a
  receive buffer lets them keep the accepts, and `RequestsAnswered` says so.
- `LoginVerify!FairSpec`: the threads of `KeepAlive` go on, and so does a call
  the program has begun; the program need not call, and the server need not
  answer. `LoginReturns` therefore rests on the timeout `Login` sets.
  `KickedIsTold` has the condition `StopsCalling`: without it the program may take
  every answer to a poll, with all fairness met.
- `ServerLifecycle!FairSpec`: threads that can move do, except that `Stop`
  need not be called.

## 4. Proofs

The theorems hold for any finite or infinite set of threads and clients, any
finite set of nodes, and any requests, accounts, faults and bounds allowed by
the named assumptions (`ObjectPoolAssumption`, `ClientParseAssumption`,
`IocpAssumption`, `LifecycleAssumption`, `LoginVerifyAssumption`,
`LoginServerAssumption`, `Md5Assumption`, `DeadLineAssumption`,
`AccountHistoryAssumption`). These say that the kinds of values
are distinct and the bounds are numbers; where threads are counted they also say
that there are finitely many (`LifecycleAssumption`, `LoginServerAssumption`,
and `LoginVerifyAssumption` for the threads of `KeepAlive`). Each inductive
invariant was checked by TLC on an instance before it was proved.

- **`ObjectPoolProofs`**: `TypeCorrect`, `FreeListConsistent` (`ListConsistent`),
  `ExclusiveUse` (`OneUserPerConnection`), `ChainAlways` (`ListIsChain`) and
  `PoolRefinement` (`ImplementsPool`). `ListConsistent` only speaks of
  moments when the lock is free, so it is not inductive. The invariant `IInv`
  follows the list through the critical sections: the lock is held exactly by
  the thread whose place is inside one (`LockMatchesPc`), what a thread holds
  fits its place (`NodesAreOwned`), and the nodes of the list are a window
  `q[lo] .. q[hi]` of some sequence of nodes (`ListIsWindow`, `Chain`), with a
  counter that is one too high inside `GetFree` and one too low inside
  `Recycle`. `GetFree` moves `lo`, `Recycle` moves `hi`, and the sequence need
  not be renumbered. The same formula with a window that starts at 1 is
  `ListIsChain`, which TLC checks and `ChainAlways` derives by renumbering. That
  the window is the set of nodes a walk
  from the head meets, and that its length is that set's cardinality, needs
  the theorems on finite sets and well-founded relations.
  `PoolRefinement` maps every step of `GetFree` and `Recycle` to a step of
  `ConnectionPool` or to a stutter: the step that advances the head is `Take`,
  the one that leaves `Recycle` is `Return`, a test that finds the list empty
  and a wait that times out are `TakeNothing`, which is only allowed when no
  node is free. For the wait the invariant alone is not enough. `RInv` adds
  `WaitingFindsNone`: until the event is signalled for the first time, a thread
  waits only while every listed node is still being given back, that is, while
  it counts as lent. So what is proved about `ClientParse` over the abstract
  pool rests on what `object_pool.h` does.
- **`ClientParseProofs`**: `TypeCorrect`, `MapCorrect`, `SessionCorrect`,
  `RegistrationCorrect`, `ConnectionsKept`, `KickCorrect`, and `OneSession` under
  the assumption `OneRole`. The empty name may be among the users: `MapCorrect`
  leaves out its entry, and `KickCorrect` allows for it. The invariant says, besides those
  properties, what is true at each place of a handler (`InPlace`): what it
  holds, which request it handles, that the row a login has read still bears
  the name (names of accounts never change), and that a client about to leave
  its old user is not the client of the new one in the map. `OneSession` is
  conditional because the property is false without it (`kick_lost`);
  `../LoginVerify/CLoginVerify.h:4` documents one object per login role.
- **`IocpModelProofs`**: `TypeCorrect` and `OwnerCorrect` (`OneOwner`), with all
  faults. `OneOwner` alone is not inductive: handling an accept brings a second
  context, the client's, into the thread's hands, and it has to be nobody's.
  `ClientsMoveOn` adds this: a client is in the backlog, or on one accept
  context, and while its first request has not been handled its own context is
  untouched.
- **`IocpServiceProofs`**: what the engine owes to clients, each under the
  restriction without which it is false. `RequestsOnly` (`RunIsGivenARequest`,
  without `partial`): the buffer and the counters fit the operation in flight
  (`ContextFits`) and the thread (`ThreadFits`), which needs `OneOwner` to know
  that nobody else writes them. `AcceptsCorrect` (`AcceptLostToReset`) and
  `ServedCorrect` (`ClientServed`, both without `abort` and `post`): a packet
  without data tells the truth about the client (`Truths`: it has left in good
  order, or reset), so what goes out of play belongs to a client that is gone
  (`Service`). `ClientServed` is strengthened there: an accept stands for its
  client only until the client's own context is in play.
- **`LoginServerProofs`**: `ImplementsEngine` and `ImplementsBusiness`, by which
  the theorems above are theorems about the server. From both together follow
  `OneRunCorrect` and `ConnectionsSuffice`: an object in the middle of a
  request is run by some thread (`RunsFit`), by one only because of `OneOwner`,
  so the nodes in use inject into the threads, and when a thread asks for one
  there is one left. `OwnResult` (`ReplyIsOwn`) goes on from there: a handler
  that got a working connection has assigned `m_strResult` before
  `GetReturnValue` copies it (`AnsweredAt`), so an earlier result is sent only by
  one that met a connection which failed at start. It keeps that connection, and
  since nodes are lent once (`LentOnce`) nobody else ever gets it. In a server
  whose connections all work every reply is thus its own. The business
  objects alone cannot promise this.
  `SessionsOnServer`, `OneSessionOnServer` and `ServedOnServer` say of the server
  what was proved of its parts.
- **`ServerLifecycleProofs`**: `TypeCorrect` and `ReleaseCorrect`
  (`NothingAfterRelease`). The invariant says what exists in each phase
  (`ObjectsExist`), how the two paths through `_DeInitialize` differ (`Paths`),
  that an accept is in one place, and that every worker has ended once `Stop`
  has waited (`WorkersEnded`).
- **`LoginVerifyProofs`**: `TypeCorrect`; `EndCorrect` (`EndIsVisible`),
  inductive as soon as one adds that a socket being connected is not watched;
  `OwnAnswer` (`OtherResultOnlyIfMixed`) and `ToldByServer`
  (`ToldOnlyIfKicked`). Requests and answers bear no number and the stream has
  no boundaries, so that an answer is one's own can only follow from what else
  may be on the way. The invariant `AnswersOK` says so for every connection that
  is not mixed: while the caller waits, no thread of `KeepAlive` runs and there
  is at most one message on the way, the call or its answer (`CallIsAlone`);
  between calls there are no more messages than threads that wait for one, none
  therefore once all have ended and the next call may begin (`NothingLeft`,
  which counts the waiting threads, hence their finite number); while threads
  poll, every message is a poll or its answer, and the answer 1 is only given
  after a second login (`PollsWhilePolled`). A thread that shuts a socket down
  may leave an answer in it, so these speak of sockets that can still be used.
  For `Md5Encode`: `PaddingCorrect` (`PaddingIsStandard`) for passwords of
  every length, by arithmetic modulo the 64 bytes of a block, and `HashCorrect`
  (`HashIsStandard`). TLC checks the same up to 200 bytes.
- **`AccountHistoryProofs`**: `YearCorrect` (`AccountLastsAYear`) for any years.
  A comparison of the numbers is one of year, month and day
  (`NumbersCompareDates`), also when the deadline is the 29th of February of a year
  that has none; a day after the deadline comes more than 365 days after the
  registration, any other at most 366. That the closed formula for the number of a
  day counts the days one by one is the lemma `DaysAreCounted`. The numbers are
  mathematical ones: `SYSTEMTIME` ends with the year 30827, whose dates fit an
  `int`. From this `DeadLineCorrect` (`DeadLineIsAYear`) for what `BeyondDeadLine`
  answers, whatever the clients do and however the days go by: every row is as old
  as its EXP says, and none is from a day to come (`BornInv`). `ChangeCorrect`
  (`ReplacedUnlessOvertaken`) under `NamesAreUnique`, without which the UPDATE, which
  goes by the name, replaces passwords that were not compared at all: between
  the two queries the one row of that name has the password compared, or another
  client has replaced it (`ChangeInv`). It holds with any number of clients that
  change one password.
  A step of `AccountHistory` is one of `ClientParse` or none
  (`HistoryInvariance`), so the invariant of `ClientParseProofs` holds here too.

Only model-checked are the liveness properties (`LockReleased`, `TwoSessionsEnd`,
`EveryRequestIsAnswered`, `RequestsAnswered`, `LoginReturns`,
`DeadServerNoticed`, `KickedIsTold`, `StopReturns`, `FailedStartEndsWorkers`),
since liveness under fairness is out of the prover's reach.

Every other property of the passing runs is stated by a theorem.

## 5. What is not modelled

Not modelled: the headers under `include/`, which are not this program and are
nine tenths of the repository's lines; the texts of messages and logs, JSON,
SQL text and character sets; memory (result sets that are never freed); the
rounds of MD5 (arithmetic with sines, nothing to enumerate); the length of a
reply, which `GetReturnValue` cuts at the end of the buffer; the logger, whose
stream all threads share; `Push`, `Pop` and `GetStat` of the pool (never
called); `DeleteSelfLoginState` (called by destructors that never run);
`WAIT_TIMEOUT` in `HandleError` (the wait has no limit); a second call of
`Start` after a failed one.

`RunClient` knows one effect of clearing the buffer again after a partial send
(`memset` of the full length from the middle of the buffer): `m_nSendBytes`
behind it may become zero. What it does to the other members behind the buffer
is left out.
