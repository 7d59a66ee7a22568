# A verification project for the DIAL server

DIAL lets a phone discover a television in the local network and launch
applications on it.  The repository holds a DIAL server in C for Linux
(`src/server`) and a port of it to C++ and Windows (`src/main`).  This directory
holds TLA+ modules for the parts of the server that are concurrent or keep
state, TLC configurations that check them on small instances, and proofs checked
by TLAPS that hold for every instance.

Everything here is read off the code.  Comments in the modules name the
functions; `PROJECT.json` maps every definition to the lines it stands for.

## The system

```
  SSDP multicast --> quick_ssdp.c --(own web server: dd.xml)--+
                                                              |
  HTTP clients ----> mongoose.c: master thread --> ring --> worker threads
                                                              |  MG_NEW_REQUEST
                                                              v
  main.c, embedding program --register/unregister--> dial_server.c (ds->mux)
                                                       |         |
                                          callbacks    v         v
                                   main.c, nf_callbacks.c     dial_data.c, url_lib.c
                                   (fork, /proc, signals)     (files, strings)
```

| Component | State it keeps | Operations | What makes it correct |
|---|---|---|---|
| Thread pool (`mongoose.c`) | `stop_flag`, `num_threads`, ring `queue` with `sq_head`/`sq_tail`, one mutex, three condition variables | `mg_start`, `mg_stop`, master loop, `produce_socket`, `consume_socket`, worker loop | each accepted connection reaches exactly one worker, in order; nobody sleeps while there is work; the context is freed after the last thread; `mg_stop` returns |
| HTTP connection (`mongoose.c`) | request buffer, `request_len`, `data_len`, `content_len`, `consumed_content` | `read_request`, `mg_read`, `discard_current_request_from_buffer`, parsing | a body is read once and never past its end; only a negative Content-Length can break the lengths |
| DIAL service (`dial_server.c`) | registry `apps` with state, payload, DIAL data and CORS list; `mux` | `request_handler` and its handlers; register, unregister, get_payload | lock discipline; a launch was admitted by a list of its application; answers agree with what the application does, as far as it could be looked for |
| Callbacks (`main.c`, `nf_callbacks.c`) | `run_id`; the processes themselves | start, hide, stop, status | at most one Netflix process; a stop ends what a start began |
| DIAL data (`dial_data.c`) | one file per application | store, retrieve, free | what was acknowledged is what is read, unless a write failed |
| URL library (`url_lib.c`) | none | decode, encode, parse | results fit their buffers; decode inverts encode |
| SSDP (`quick_ssdp.c`) | addresses, names, a second web server | `run_ssdp`, `get_local_address`, multicast loop, dd.xml | every search is answered, once, with the port that really listens; whoever is answered can launch |
| Options (`main.c`) | static buffers | option pairs, `runDial` | the last value given is what controllers see; values fit |
| Windows port (`main/*.cpp`) | as above, plus plugins (window handle) and tray icon | as above | as above |

Interactions: the web server calls `request_handler` on a worker thread, several
at a time; the handlers serialise on `ds->mux` and call the callbacks with it
held; the callbacks call `DIAL_get_payload` back without a lock; `mg_read` and
the responses go back into the web server while the lock is held; the embedding
program registers applications from its own thread, before and (the API allows
it) after `DIAL_start`; `run_ssdp` starts a second web server, whose threads read
the statics that the main thread fills, and never returns.

What is hard here: condition variables signalled with and without the mutex, a
stop flag shared without a lock, a ring whose pointers wrap, a lock that is
released and taken again between a check and its use, callbacks and network
reads under a lock, applications that start and end by themselves, and saves
that can end the process or fail without anyone noticing.  `PROJECT.json` lists each of these under "hazards" with
its line and the properties that watch it.

## The modules

| Module | Models |
|---|---|
| `ConnPipeline` | abstract: an accepted connection waits in a bounded first-in first-out queue, is served by one worker and closed |
| `MgPool` | `mg_start`, `mg_stop`, `master_thread`, `produce_socket`, `worker_thread`, `consume_socket` |
| `MgPool_proof` | proofs about `MgPool`, and that it implements `ConnPipeline` |
| `DialServer` | `dial_server.c` with the callbacks and the DIAL data as it sees them |
| `DialServer_proof` | proofs about `DialServer` |
| `MgConnection` | `process_new_connection`, `read_request`, `get_request_len`, `mg_read`, the discard |
| `MgConnection_proof` | proofs about `MgConnection` |
| `DialStore` | `dial_data.c` at the level of its file, with crashes and failing writes |
| `DialStore_proof` | proofs about `DialStore` |
| `AppProcess` | the callbacks of `main.c` and `nf_callbacks.c` and the processes they search, start and stop |
| `AppProcess_proof` | proofs about `AppProcess` |
| `Discovery` | from the command line to the launch: `main`, `runDial`, `DIAL_start`, `quick_ssdp.c`, and the controllers that search, read the description and launch |
| `Discovery_proof` | proofs about `Discovery` |
| `UrlText` | `url_lib.c`, how `mongoose.c` parses the head of a request and decodes and cleans its URI, and how `dial_server.c` matches origins |
| `UrlText_proof` | proofs about `UrlText` |
| `WindowPlugin` | `plugin.cpp`, the YouTube plugin of the Windows port, and the windows it looks for |
| `WindowPlugin_proof` | proofs about `WindowPlugin` |
| `MCMgPool`, `MCDialServer`, `MCMgConnection`, `MCDialStore`, `MCAppProcess`, `MCDiscovery`, `MCUrlText`, `MCWindowPlugin` | symmetry, requests, lists, applications, pids, hosts, command lines and characters for TLC |

### MgPool

Variables have the names of the fields of `struct mg_context`; `wpc`, `mpc` and
`api` are the program counters of the workers, the master and the application
thread; `client` and `accepted` are the sockets the threads hold.  A condition
variable is the set of the threads that wait on it; a signal removes one of
them, any one, and a thread that was removed continues when the mutex is free.

A region under the mutex is one step when all it reads is written under the
mutex.  `stop_flag` is not, and the master broadcasts `sq_full` without the
mutex; so a worker that found the queue empty keeps the mutex into a second
step, `CondWait`, and both the stop request and the broadcast can fall between
the two.  `mg_start` increments `num_threads` in a step after the thread was
created, because the thread may already run.

The environment may refuse to create any thread, wake a waiting thread without
a signal, and let `accept` fail, with or without a client that waits (`AcceptFails`:
the receive timeout, or an error such as EMFILE).  Requests are one step (`Process`).

### DialServer

`mux` is the owner of `ds->mux`, `apps` the registry, `proc` what each application
really does, `file` its DIAL data on disk.  Each thread has a program counter
whose values name what it is about to do: check the origin, run a handler, read
the body, call a callback, parse or save DIAL data.  `reply` is the last response,
and whether the search before it could read `/proc`.  `seen` is an auxiliary
variable: the lists of origins that the application of a request has had since
the request came.

A request carries what the code branches on: the route, the method, the
application, whether there is a Host header, the origin, whether it comes from
the local host, and what the body is like (short, exactly as long as the payload
array, longer, or with a rejected byte).  Origins are matched with set
membership; `ends_with_in_list` itself is in `UrlText`.

Callbacks return what the reference callbacks can return in the state the
application is in; applications of kind "partner" stand for callbacks that
implement hide.  `isAppRunning` says "not running" when it cannot open `/proc`
(`main.c:154`), so a status may be wrong (`Refreshed`), and `netflix_start` may then fork
beside a running instance; `AppProcess` has the detail.  Reading a body may return a
prefix of it, as `mg_read` does when the client closes or the receive timeout passes.
Saving DIAL data may exit the process, as `store_dial_data` does when it cannot open its
file; or a write fails, which nobody looks at: the file is "damaged" and the answer is
200 all the same.  What is read back is not what was sent (`ReadBack`: turned round and
cut into words), or nothing when the file cannot be opened.

The check of the origin releases the lock, and the handler takes it again: in between
the application may be removed and registered with another list, and the code launches
all the same.  `LaunchWasAdmitted` says what is left: the approval comes from a list
that the application has had while the request was served.  That the list at the launch
is obeyed is not claimed, and is not true.

### MgConnection

One worker, which serves connections one after the other with the same buffer.
The variables are the lengths of `struct mg_connection` and the locals of `mg_read`.
A byte is `<<connection, position>>`; so the buffer shows where each of its bytes
comes from, and a lost, repeated or foreign byte shows in what the handler got
(`out`).  For the scan of the head a byte has a class: carriage return, newline,
other control character, other.  `recv` returns any number of the bytes that the
client sent, or nothing.  The verdict of `parse_http_request` and the value of
Content-Length are arbitrary.  A handler may call `mg_read` several times, as its
interface allows, although the two handlers of `dial_server.c` call it once.

Two things in the code are less strict than one would think.  The scan for the blank
line (`mongoose.c:489`) goes on behind a control character, and forgets it when it finds
the line: a head with such a character is refused only if the blank line comes in a
later piece.  So how the bytes are cut does matter, to these heads; `FramingIndependent`
says that it matters to no other, and in what way.  And `strtoll` takes any number: after
a negative Content-Length other than -1 the assertion of `mg_read` fails (`ReadAborts`), or
`memmove` is told to move the buffer by a distance outside it (`DiscardLeavesBuffer`).  The
discard makes the length an `int`, and one below the range of an `int` may become
positive there (`AsInt`, with the width `IntBound`).  What follows is undefined, and `pc` is
"broken"; `BrokenByLengthOnly` says that nothing else leads there.

`close_connection` reads what the client still sends, piece by piece (`Drain`).  A stream
is finite here; that a client may go on sending, and keep its worker, is not covered by
`EveryConnectionEnds`.

### DialStore

The list of one application in memory and in its file.  The file is read back
with `"%255s %255s"`, as words: a field is the sequence of words that it will be
cut into.  A save truncates, writes any prefix, perhaps up to the middle of a
word, and closes; the process may end between any two steps, or because `fopen`
failed.  `text` is what the save has to write: a write that fails takes any words out
of it, may leave a piece of one, and never takes back what is on the disk
(`WriteFails`).  The request is acknowledged all the same.  `Read` is what is found in the
file; the fields kept in memory are `Copies` of it, which have no terminator
(`dial_data.c:79`) and may be followed by whatever the memory holds (`Rest`).
`acked`, `torn`, `saving` and `lost` record what was promised to the client, whether the last
save was cut short, of which list, and whether one of its writes failed.  This is the save that
`DialServer` does in one step under the lock.

### AppProcess

`proc` is what the operating system has at each pid; `pc`, `op`, `app`, `todo` and
`found` are the callback that runs, one at a time since `ds->mux` is held.
`isAppRunning` looks at one entry of `/proc` per step, in any order, while processes
start and end; neither a zombie nor a child before `execv` matches.  A child that
ends is a zombie until `waitpid`, since nothing handles SIGCHLD; any other pid is
free at once and may be given out again.  A child whose `execv` fails stays as a
second server, which SIGTERM does not end.  `fork`, `execv` and, unless `ProcOpens`,
`opendir` may fail, and a SIGTERM for the server may end the wait of
`netflix_stop`; `disturbed` records the last two, which the properties exempt.
`run_id` starts as anything, since `malloc` does not set it; only `netflix_status`
reads it.  `since` and `mine` are auxiliary: the processes that have run the
application since the callback began, and whether the one found was a child.

Callbacks come in any order here; `DialServer` has the order in which the handlers
call them.  The parameters of a launch, and what a second server serves, are left
out.

### Discovery

`mpc` names the next step of the main thread; `After` is the order of `runDial`,
`run_ssdp` and `handle_mcast`.  `args`, `i` and `config` are the loop over the option
pairs and what it sets (the short and the long form of an option are one value);
`names`, `dial_port`, `my_port`, `ip_addr`, `hw_addr` and `send_buf` are the statics and
the local of `quick_ssdp.c`; `inbox` and `gBuf` are the multicast socket and the
datagram in hand.  `listening` holds the web servers that run: `mg_start` may fail
because a port is taken, and then the main thread goes on to use the context that
it did not get, and crashes (`NoContext`).  Every other failing call exits.  Once a
server listens, its threads answer while the main thread goes on, so `Fetch` reads
the statics as they are at that moment.  `get_local_address` walks over the
interfaces of `host`; each one is in a network, whose name also stands for its
hardware address, and `Move` gives the host a new address in a network.

A controller sends searches and other datagrams, of which none, one or two copies
arrive; it gets answers, or they are lost; it fetches dd.xml from an answer, perhaps
one from an earlier run of the server (`fresh` is FALSE); and it launches at the
address in the description.  `heard`, `desc` and `outcome` are what it got from each;
`sent`, `delivered`, `replies` and `failed` count.  The launch itself is in
`DialServer`: here it is only whether it arrives and finds the application.

A description can be fetched before `my_port` is set, and before any answer is
possible, because the second web server starts in the middle of `run_ssdp`.
`ServedAsConfigured` holds because everything a description shows is set before
that line; the mutant that starts the server before the names are copied breaks it.

Left out: values that are too long for their arrays (`setValue` copies without a
limit, and line 274 of `quick_ssdp.c` terminates `uuid` where it means `model_name`),
the paths of the Netflix options, and the macOS variant of `get_local_address`.

### UrlText

Texts are sequences of character codes; each function is an operator, and the only
action adds a character to the text that the properties look at.  A C string ends
at its first NUL, which an escape can put into a URI.  `smartstrcat` and `xmlencode`
keep count of the bytes they write.  Of an entity only the length matters, so its
name is spelt with the character it stands for.  A field that `sscanf` does not
reach is `Unwritten`; what `malloc` left there is not looked at.  The parser of the
head works with words and what is left behind them instead of pointers and NULs.
`skip_quoted` is modelled without its quote character, since both callers pass 0.
`get_header` finds a name in any case; `request_handler`, which looks for the origin itself
(`dial_server.c:515`), knows two spellings only.

`HeadersParsed` builds a request from the text, with LF or CR LF at the ends of the
lines, and compares.  It claims nothing of lines without a colon or with nothing
before it: there the parser takes the next line into the name, or stops.  Nor of
lines with a CR of their own, where the parser ends the value; the alphabet of the
run has none, the theorem is about any alphabet.
`OriginsMatched` is about `is_allowed_origin` for one registered application: an origin that
starts with http, https or file is admitted when it ends with a word of the list.
And it says which lists are open to every origin: the empty one, and one with a space at
an end or two in a row, because each is an empty part for `ends_with_in_list`.  The
origins are a parameter (`Origins`); the theorem is about any.

`BodyParsed` holds for bodies of well-formed pairs, and for a name that does not
stand anywhere before its pair.  Outside of that the code does other things:
`parse_param` finds a name inside another one (`"a"` in `"ba=1&a=2"`), a token without
an equals sign leaves its value unwritten and has no room for the NUL of its key.
`PathIsClean` promises no `"/.."`; that no slash is doubled, as the comment at
`mongoose.c:504` has it, is not true: `"/../a"` becomes `"//a"`.

### WindowPlugin

`windows` is what the desktop has for each handle: whether the window is open,
shows the title of the application, and who opened it.  `wnds` and
`spAppYouTubeWindow` are the globals of the plugin; `pc` is the step of the callback
that runs (one at a time, under the lock of the server, which the port has too).
`EnumWindows` is one step.  Chrome opens the window of a start at any time after
it or never, titles come and go, the user opens and closes windows, and a window may
disregard WM_DESTROY.  Not modelled: a closed window's handle that is given to
another window, which the plugin could not tell from the first.

Three auxiliary variables name what the properties speak of: `foreign`, the windows
that a start found and that were not the plugin's; `steady`, those that have had
the title since the callback began; and `launched`, the window of the last start
when it alone came to have the title before the sleep was over.  When it was not
alone, or came late, the plugin may manage a window of the user, or none; a start
reports success all the same.

## What TLC checks

| Run | Instance | Shows |
|---|---|---|
| `MgPool` | 2 workers, 2 connections, ring of 1, thread creation may fail, 1 spurious wakeup; 48 375 states | `TypeOK` (ring pointers stay in range), `NoUseAfterFree`, `ThreadCount`, `NobodySleepsForNothing`, that the pool implements `ConnPipeline`, `ServedUnlessStopped`, `BusyWorkersExit` |
| `MgPool_lost_wakeup` | 1 worker, no client | violated: `MgStopReturns` |
| `DialServer` | 2 threads, 2 applications, 2 requests out of 14 kinds, 2 registrations, 2 CORS lists; 327 240 states | `TypeOK`, `LockDiscipline`, `LaunchWasAdmitted`, `DataSaved`, `NeverDeniesRunningApp`, `EveryRequestAnswered` |
| `DialServer_cors` | one list that does not fit | violated: `CorsListHonoured` |
| `DialServer_payload` | | violated: `PayloadIsString` |
| `MgConnection` | buffer of 5, 2 connections, 6 streams, 6 lengths, an int of -8 to 7, 2 reads of 1 or 3 bytes; 32 926 states | `TypeOK`, `BrokenByLengthOnly`, `BodyInOrder`, `FramingIndependent`, `AnswerFitsStream`, `ReadsComplete`, `EveryConnectionEnds` |
| `DialStore` | 6 lists, 2 saves, 2 restarts; 1.7 million states | `TypeOK`, `AckedSurvives`, `DamageIsOnePair` |
| `AppProcess` | 2 pids, 3 callbacks, 2 starts by the user, all failures; 200 808 states | `SearchComplete`, `SignalHitsItsTarget`, `StopIsFinal`, `NeverBesideRunning`, `EveryCallbackReturns` |
| `AppProcess_relaunch` | 2 pids, 2 callbacks, no failure | violated: `OnlyOneNetflix` |
| `Discovery` | 2 controllers in 2 networks, 6 command lines, 3 hosts, 1 datagram of each controller in up to 2 copies, 1 failure of `recvfrom`, 1 new address; 92 664 states | `ServedAsConfigured`, `LaunchAfterDiscovery`, `NoUnsolicitedReply`, `SearchesAnswered` |
| `UrlText` | values up to 5 of 9 characters, URIs up to 7 of 7, bodies up to 7 of 6, header lines up to 8 of 5, lists of origins up to 6 of 4, compared with 96 origins; 1.9 million texts | `TextSurvives`, `BufferFits`, `PathIsClean`, `BodyParsed`, `HeadersParsed`, `OriginsMatched` |
| `WindowPlugin` | 3 windows, 4 callbacks; 2.5 million states | `ForeignSpared`, `LaunchedIsManaged` |

**Bounds.**  A ring of 1 with 2 connections fills, blocks the master and wraps both
pointers (a ring of 2 with 3 connections, 366 639 states, shows the same and takes
several minutes with the temporal properties).  Two workers are enough for one to
take the signal meant for the other.  For the service, a violation of the lock discipline needs two threads, and an
interference between check and launch needs one request plus a removal and a
second registration with another list (`MaxRegistrations` is 2); the second
request of a thread finds what others left behind.  A buffer of 5 has room for
heads that end inside it, at its last byte (a blank line may be three bytes
long) and not at all, and for two body bytes, so that a read takes some from the
buffer and some from the socket; the second connection meets what the first left
behind.  The lengths are none, a body within the buffer and one longer than what is
sent, a negative one that moves the buffer by a negative distance or not, depending on
the head, and one below the range of an int.  Two saves and restarts give a longer list
after a shorter one, a shorter after a longer, a crash in each, and a save after a
restart (three of each, 4.6 million states, show the same).  Two pids let the search pass one
process while another starts or ends, and let a pid be given out again while a stop
holds it; three callbacks are a launch, a second launch or the reaping of the
first, and a stop.  Seven characters are `"/%2e%2e"`, or two pairs of parameters.  Three
windows are one of the user, one of a start and one that either may open; four
callbacks are two starts with what comes after each.  For `Discovery`, two controllers
in different networks are one beside the host and one that is not, or that becomes
its neighbour with another host; the hosts have a loopback before the first other
interface, two others, and only a loopback; the command lines have repeated,
missing, unknown and invalid options.  Two copies of one search are enough for an
answer too many, and one failing `recvfrom` for the datagram before it to be taken
again.  Eight characters are two header lines and a third that no longer fits in
`MaxHeaders`.  The type invariants of `AppProcess`, `WindowPlugin` and `Discovery` are
proved and not run.

`MaxSearches`, `MaxErrors`, `MaxMoves`, `MaxInbox`, `MaxCalls`, `MaxUserStarts`, `MaxRequests`, `MaxRegistrations`,
`MaxSpurious`, `MaxConnections`, `MaxReads`, `MaxPosts`, `MaxRestarts` and `MaxLength` are the only
bounds on behaviours.  The proofs
below cover all other sizes.

**Fairness.**  `FairSpec` is weak fairness of each thread: the scheduler runs
every thread that can run, and `accept`, reads and callbacks return; and strong fairness
of accepting a client in `MgPool`: `accept` does not fail for ever while a client
waits.  `accept` returns because the listening socket has a receive timeout
(`mongoose.c`, `set_ports_option`) that accepted sockets inherit; in `MgConnection`
it is the fairness of the worker, for which `recv` may always return nothing.  In
`AppProcess` a process that got SIGTERM ends, because `execv` gives signals their
default action back; no other process is assumed to end.  In `Discovery` only the
main thread is fair: it is scheduled, and `recvfrom` returns when a datagram is
there; whether a call fails is open.  Nothing is
assumed of clients, of the user, of the application that may call `mg_stop`, or
of spurious wakeups.  No fairness of a lock is needed: each model has finitely
many requests or connections, so a thread cannot be overtaken for ever.

### Where code and text disagree

* `mongoose.h:109` says `mg_stop` "blocks until all Mongoose threads are
  stopped".  It can block for ever.  `MgPool_lost_wakeup`: a worker tests
  `stop_flag`, the application sets it, the master leaves `accept`, broadcasts
  `sq_full` and waits for the workers, and the worker goes to sleep.  The code has
  two more ways to the same end, which `MgPool` contains: the master waits for a free slot, the workers
  see `stop_flag` and leave without taking anything, and nobody signals `sq_empty`
  any more; and the master thread could not be created, since `mg_start` ignores
  the result.  The program itself never calls `mg_stop`, since `run_ssdp` does not
  return; programs that embed the service do.
* `dial_server.h:137` promises that the list of origins restricts the
  application; a list of 256 characters or more is dropped, and an application
  without a list is open to every origin (`DialServer_cors`).
* `dial_server.h:170` promises a terminated string; `netflix_start` gets an array
  that was never written, or one filled to the last byte (`DialServer_payload`).
* `nf_callbacks.c:58` says that Netflix "should never be relaunched"; a second launch
  before the first child has called `execv` finds nothing and runs it twice
  (`AppProcess_relaunch`).

## What is proved

All proofs are checked by TLAPS with the SMT, Zenon and PTL backends, for any
finite set of workers or threads, any ring size above 0, any requests, lists and
applications, any command lines, hosts and controllers.  The assumptions are the named ones of the modules (`PoolAssumption`,
`DialAssumption` and so on): the sets
are disjoint where the code's are, and requests and lists have the form the code
branches on.

`MgPool_proof` proves the invariant `Inv` inductive.  `TypeOK` alone is not, as
head and tail only stay in range because the ring is never overfull and the
wrap moves both; the other parts say that the master waits on `sq_empty` only
while the queue is full and on `cond` only while it joins, that only a worker in
its wait is in `sq_full`, that sleeping workers and a non-empty queue exclude
each other unless another started worker is awake, and that `num_threads` is the
number of live workers up to the one `mg_start` is about to count.  From it:
`PoolTypes`, `FreeAfterJoin`, `CountExact`, `NoLostWakeup`.  The module also proves
`PoolImplementsPipeline`: the ring read from tail to head is a sequence, producing
appends to it, consuming removes its head whether or not the pointers wrap, and
all other steps leave it alone.

`DialServer_proof` proves `Inv` inductive: a thread holds the lock exactly while it
is between lock and unlock, and its application is registered then (`LockInv`);
what was read was accepted (`BodyInv`); the list an application has is among those
that the requests for it have seen (`SeenInv`), since every registration adds its
own; so what the check looked at was one of them, and stays one of them when the
application is registered again before the launch (`VetInv`); memory and file differ
only while a thread is about to save, or after a write has failed (`DataInv`,
`SaveInv`).  From it: `ServiceTypes`, `LockDisciplineHolds`, `LaunchesWereAdmitted`,
`DataIsSaved`, and the action property `RunningAppsAreFound`.

`MgConnection_proof` first proves about the scan that a head found in some bytes
is the head of everything that starts with them (`HeadStable`), also when a control
character precedes it; that a scan finds -1 only where there is such a character
(`Malformed`); and that it depends on nothing else (`HeadAgrees`).  The inductive invariant then says where the bytes
are: all that was received while the head is read (`HeadInv`), the body in its place
behind the head while the handler runs, and that the socket is read only when the
buffered part of the body is used up (`ServeInv`, `CallInv`).  From it, for any buffer
size, any streams, any lengths and any int that can hold the size of the buffer:
`ConnectionTypes`, `BreaksByLengthOnly`,
`BodiesAreIntact`, `HeadsAreFramed`, `AnswersFit`, `ReadsAreComplete`.

`AppProcess_proof` takes any set of pids and any number of callbacks.  The part that
makes the invariant inductive is `SearchInv`: what has run the application since the
callback began is among the entries that were not looked at yet, because an entry
that was passed did not match then, and a process cannot come to have run it all
the time.  `ProcessStepInv` says once what a step of a process must keep (the parent
of every process, and the application of every child) and is used for `Exec`, `Die` and `UserStarts`; for
`Die` it holds because a child leaves a zombie.  From it: `ProcessTypes`,
`SearchesAreComplete`, `SignalsHitTheirTarget`, `StopsAreFinal`, `LaunchesAreAlone`.

`WindowPlugin_proof` takes any windows and any number of callbacks.  `ForeignSpared`
speaks of two steps only; what holds in between is that foreign windows are in `wnds`,
which is never cleared, and that the remembered window is not foreign (`Kept`).  From
it: `PluginTypes`, `PluginSparesForeign`.  `LaunchedStaysManaged` needs three more
facts (`LInv`): windows are numbered by starts already made, the current start has at
most one window, and after its snapshot `wnds` has every window that kept the title but
not the window of the start.

`Discovery_proof` takes any command lines, hosts and controllers.  Its properties speak of
what controllers hold, which outlives the state it was made from; the invariant
`IInv` says what the main thread has done at each step: every option has the last
value before `i`, and so at the end the one that `Given` defines (`Configured`); the
servers that listen (`Started`); that `ip_addr` is that of the first interface that is no
loopback, together with its hardware address, or none of a controller's network
(`Located`); and that the answer has all of it (`Composed`).  `Answered` joins the two
sides: only a controller beside that interface is heard, has a fresh answer or a
fresh description.  From it: `TypeCorrect`, `EveryoneServedAsConfigured`, `DiscoveredCanLaunch`.
`RepliesAreSolicited` needs a second invariant, `Counted`: for each controller the
answers, the failures of `sendto` and the searches that still wait in the socket are
together at most the searches that have arrived.  The number of those that wait is
the cardinality of a set of places in the queue; `PendingAppend` and `PendingTail` say
how it changes, the second by the bijection that moves every place down by one.

`DialStore_proof` takes any words and any lists that clients may send.
`StoreInvariant` says what is on the disk at each step, unless a write of the last save
failed: the text of the acknowledged list while no save was cut short, and otherwise as
much of the last save as got there; the list in memory is the acknowledged one, or a
copy of what was read, or empty.  That a failing write takes nothing back is
`FailureKeepsDisk`.  What is left is about the text of lists of single words: it is read
back as the list turned round (`ReadPrinted`); when it was cut anywhere, what is read behind
the first pair is the beginning of the list turned round (`ReadOfCut`); and the copy of a
list without its first pair is a copy of the rest (`TailOfCopy`).  From it: `StoreTypeOK`,
`AcknowledgedSurvives`, `DamageBounded`.

`UrlText_proof` is about texts of any length over any characters of 1 to 255
(`TextAssumption`), where the run has texts of up to eight characters.  The only
invariant that the specification itself needs is the type (`TextsAreTyped`); the rest is
about the functions, and most of them are recursive.  Three arguments carry the module:

* A text is read by a function whose value at `i` is made of its value at a later
  position (`urldecode`, `url_decode`, the cleaning of a path, `Tokens`) or of the value
  before (`xmlencode`, `FlattenSeq`, `parse_http_headers`).  Such a function is a CHOOSE, so
  first one must be shown to exist: `UnrollExists` and `IterateExists` do that, or the
  proof gives the function itself (`DecodesCode`, `HeadersTaken`).
* A claim for all positions is shown by looking at the least or the greatest one for
  which it fails; < on the naturals is well founded (`NatMin`, `NatMax`, `CountUp`,
  `CountDown`).
* A sequence that was put together is described by what stands where (`Stands`,
  `FlattenedParts`, `TokensInPlace`, `BufferParts`), so that a parser can be followed from
  position to position (`LineTaken`, `RequestTaken`, `ValueFound`).  The tokens of a text that
  has no empty ones, with their separators, are the text again.

From them: `PathsAreClean`, `BuffersFit`, `OriginsAreMatched`, `TextsSurvive`,
`BodiesAreParsed`, `HeadersAreParsed`.  The last one was first stated without a condition on
CR; the proof did not go through for a line with a CR in it, and the property now says
so.

Every safety invariant and every action property of the passing runs has a theorem.
Only model-checked are the liveness properties, since TLAPS proves neither fairness
nor ENABLED (`ServedUnlessStopped`, `BusyWorkersExit`, `EveryRequestAnswered`,
`EveryConnectionEnds`, `EveryCallbackReturns`, `SearchesAnswered`), and the violations, which
are examples.

## Not modelled

* The C++ port of the server (`src/main/mongoose.cpp`, `dial_server.cpp`, `dial_data.cpp`,
  `url_lib.cpp`, `quick_ssdp.cpp`).  It does not run: `main` returns before it creates the
  service (`main.cpp:170`).  Its differences from the Linux code are listed below.
* `main.cpp` and the tray icon: reading of a configuration file, dialogs, and a
  class that only the test program `test.cpp` uses.  No state that later steps depend on.
* `DIAL_stop` in the program: it stands behind `run_ssdp`, which never returns.
  `mg_stop` itself is in `MgPool`.
* `LinuxInterfaces.c`: the server calls none of it.
* Values of options that are longer than their arrays, NULL arguments, and what follows
  once a negative Content-Length has broken a connection: undefined behaviour of the build.
* A context that `mg_start` returns without a master thread or without workers, in
  `Discovery`; `MgPool` has both.
* A pid that `netflix_status` waits for although `run_id` was never set
  (`nf_callbacks.c:78`): no property covers what it reaps.
* Sending: `mg_write` gives up when `send` fails, and nobody looks at the result.
  The text of responses, and logs.
* What a child serves whose `execv` failed: it returns into the code of the server
  (`main.c:169`) with copies of sockets and locks.

What could still be added: a proof of what a stop leaves behind in `MgPool`, and a
composition of `MgConnection` with `DialServer`, in which a body arrives in pieces
under the lock.

The Windows port has the same control flow in the modelled functions.  It
differs in these points: `SO_RCVTIMEO` does not make `accept` return there
(`AcceptTimesOut` is FALSE: a stop waits for a client), the lock is a
`std::mutex` that is not destroyed by `stop`, and callbacks do not get the server.
