# A verification project for a Vim configuration

The repository is a `~/.vim` directory: configuration, some hundred editor
plugins, the scripts they run, and VimClojure, which talks to a Java virtual
machine that stays resident behind the editor. Vim plugins run to completion in
one thread. Three parts have a core logic of their own, and these are modelled in
TLA+, checked with TLC, and proved about with TLAPS:

* the **resident JVM**, whose correctness depends on the order of events: the
  Nailgun server (`src/src/com/martiansoftware/nailgun`), what it exchanges with its
  client (`src/ngclient/ng.c`), and the Repl registry of VimClojure, which its nails
  share (`src/src/de/kotka/vimclojure/repl.clj`);
* the **highlighting by ctags**, `mktypes.py` with `ctags_highlighting.vim`, whose
  state is in files that outlive a script that fails or is killed;
* **Sparkup**, `sparkup.py`, which expands `ul#nav>li.item-$*3` into HTML: a parser
  that builds a tree with lists of its nodes shared between its loops.

## The system

    :UpdateTypesFile --> mktypes.py --> ctags --> tags --> types_<suffix>.vim --> every open buffer
    the line         --> sparkup.py --> the line's HTML
    Vim --system()--> ng (client) ==TCP==> NGServer thread --run(socket)--> NGSession --> nail
                                            |    ^ take()                      | give()
                                            |    +------- NGSessionPool <------+
                                            +-- shutdown(): ng-stop nail, embedder, shutdown hook

| component | state | operations | what is hard | what makes it correct |
|---|---|---|---|---|
| `NGSessionPool` | array, `poolEntries`, `done` | `take`, `give`, `shutdown` | `give` tests before it locks; `shutdown` drains while sessions return | entries are different idle sessions; nobody idle is outside; at most `maxIdle` |
| `NGSession` | `nextSocket`, `done`, lock; thread | `run(Socket)`, `shutdown`, thread loop | hand-over by `wait`/`notify`; interrupts; exceptions leave the loop | no lost wake-up; every connection served once; ends when told |
| `NGServer` | `shutdown`, `running`, listening socket, session on deck, JVM-wide streams and security manager | thread loop, `shutdown(exitVM)`, hook | `shutdown` at any time, by several threads, also from a nail and from the hook | stops; JVM exit completes; nails finish; clients are answered |
| `NailStats`, `AliasManager` | counters per class, alias map | start/finish of nails, `getNailStats`, alias commands | unsynchronized reads, `nailShutdown()` under the lock | counts return to 0; snapshots |
| wire protocol (`NGInputStream`, `NGOutputStream`, `NGConstants`, `LongUtils`) | bytes remaining, end of input, locks of the streams | chunks of arguments, stdin, stdout, exit | chunks split anywhere, threads that print, several exit chunks, connections cut | every stream in order; the client acts on the first exit chunk |
| client `ng.c` | socket, end of stdin, the chunk it receives | `select` loop | partial `recv`, one thread that sends and receives, sockets reset | copies all output, ends, with the status of the nail |
| Repl registry (`repl.clj`) | ref `*repls*`, id counter | `start`, `stop`, `with-repl` | transactions that `commute` | a Repl is used by one evaluation; stopped Repls stay stopped |
| Vim side of the Repl (`autoload/vimclojure.vim`) | history, depth, id | `<CR>`, up, down, `,close` | long sequences of keys | history shows what was entered |
| `mktypes.py` | the files `tags` and `types_*.vim`; options, keywords to come, the line that is filled | `main`, `CreateTagsFile`, `CreateTypesFile` per language | failures and kills between truncation and writing; a table that lacks a kind; lines that must not be too long | a complete run repairs every file; no word is lost; the right group wins |
| `ctags_highlighting.vim` | words and groups each buffer shows | `UpdateTypesFile[Only]`, `ReadTypes`, autocommands | old words stay until a line of the file clears them | a buffer that reads a whole file shows nothing older |
| `sparkup.py` | tokens, elements, carets, last elements, dictionaries of the dialect | tokenize, parse, render | nested multiplications, `<` with several carets, dictionaries shared by tokens | one tree; as many elements as multipliers say; numbers without gaps; balanced output |
| `repeat.vim`, AutoComplPop, snipMate, VimSokoban | tick; options; tab stops; undo list | mappings and autocommands | state saved in one callback, used in another | repeat of the right command; options restored |
| other plugins, syntax, colors, docs, data | display, none | | | not modelled (see `PROJECT.json`) |

## The modules

| module | models |
|---|---|
| `NGSessionPool` | `NGSessionPool.java`: the state of the pool and one operator per critical section (`Pop`, `Push`) and unsynchronized access (`PoolFull`, `poolDone`, `SetPoolDone`). Without a `Next`: the threads are elsewhere. |
| `NGSession` | `NGSession.java`: the monitor (`HandOver`, `SetDone`, `ClearAndNotify`, `ObtainSocket`, `WaitForSocket`, `EndThread`) and the loop of a session thread from its socket to its return to the pool. Extends `NGSessionPool`. |
| `NGServer` | `NGServer.java`: the server thread, `shutdown`, its callers, and the hook; composes all of it into `Spec`. Extends `NGSession`. |
| `NailService` | the abstract specification: what clients are promised, without threads. |
| `NGServerProperties` | the properties, the inductive invariant, the refinement mapping to `NailService`, and the fairness. |
| `MCNGServer` | instances for TLC: the bound on `Sessions` and the symmetry. |
| `NGServerProofs` | theorems and proofs: types, safety, the refinement. |
| `NGProtocol` | the chunks: `NGConstants.java`, `LongUtils.java`, the shifts of `ng.c`, decimal numbers and `atoi`. |
| `NGSocket` | external: one TCP connection, as two byte streams of bounded capacity. |
| `NGClient` | `ng.c` from its connection to its exit. Extends `NGSocket`. |
| `NGNailStreams` | the session thread from the request to `socket.close()`, the nail's threads, and their streams `NGInputStream`, `NGOutputStream`. Extends `NGSocket`. |
| `NGConnection` | composes client and session into `Spec`. |
| `NGConnectionProperties`, `MCNGConnection` | properties; an instance for TLC. |
| `NGProtocolProofs` | lemmas for all arguments: numbers and digits, headers, streams of bytes, sequences of chunks. |
| `NGConnectionProofs`, `NGDeliveryProofs` | theorems and proofs: types, printing and control; what arrives. |
| `Induction` | induction and recursion over the natural numbers, as statements about sets; concatenations. |
| `ReplRegistry` | `repl.clj` and the Repl nail of `nails.clj`: the map of the Repls, the counter of the ids, and nails that start, stop and run. |
| `ReplService` | the abstract specification: Repls with a status, without transactions. |
| `ReplRegistryProperties` | properties, inductive invariant, refinement mapping to `ReplService`. |
| `MCReplRegistry`, `ReplRegistryProofs` | instances for TLC; theorems and proofs. |
| `MkTypesLanguages` | the tables of `mktypes.py`: languages, extensions, kinds, priorities. |
| `MkTypes` | `mktypes.py`: one run of the script, step by step, and the files it leaves. Without a `Next`: somebody has to start it. |
| `CtagsHighlighting` | `ctags_highlighting.vim`: the commands, the buffers, the source files; composes all of it into `Spec`. Extends `MkTypes`. |
| `CtagsHighlightingProperties` | the properties of both. |
| `MCCtagsHighlighting`, `CtagsHighlightingProofs` | instances for TLC; theorems and proofs. |
| `SparkupDialect` | `HtmlDialect`: shortcuts, synonyms, short tags, required attributes. |
| `Sparkup` | `Parser`, `Token`, `Element`: from an abbreviation to the lines of the page. |
| `SparkupProperties` | properties, among them two independent readings of the result: how many elements the tokens alone ask for, and the tree read back from the page. |
| `MCSparkup`, `SparkupProofs` | words and abbreviations for TLC; theorems and proofs. |

Server, connection and registry meet in one place: `NGNailStreams` is what a
session thread does between `BeginNail` and `CloseSocket` of `NGSession`, and a nail
of the registry is what it executes between `BeginNail` and `EndNail`. They
share no state, so that each is checked and proved by itself. The two scripts have
nothing in common with the JVM, or with each other, but the editor.

### How state and actions correspond to the code

*A step* is what one thread does between two accesses to shared state that
another thread can order differently: a critical section, an unsynchronized
read or write, a blocking call. `pc[s]` is where session thread `s` is, `spc`
where the server thread is, and `sdpc[t]` where thread `t` is inside
`NGServer.shutdown()`. A thread that executes `shutdown()` inside a nail has
`pc = "stop"` meanwhile.

* `synchronized(lock)` of a session is one step, except for `wait`, which is
  the state `waiting`; `notify` is `Woken`. Only the session itself waits on its
  lock.
* `give()` is four steps, in the order of the code: test of `done`, test of
  `poolEntries`, locked store or `session.shutdown()`. The store is out of
  bounds if the array filled up since the test; the exception ends the thread,
  because the call stands outside of the `try` of `run()`.
* The pool's `shutdown()` holds the lock from `PoolShutdownLocks` to
  `DrainEnds` (`PoolLocked`): no `take` and no store comes between. It calls
  `session.shutdown()` with it, which is two steps (`done`, then the locked part).
* `take()` leaves a popped slot of the array as it is; so does `Pop`.
* `NGServer.shutdown`, the pool's `done` and `poolEntries` are read outside of
  locks and are not volatile, so a read may return an old value. The model needs
  no extra step for that, because such a read leads nowhere an early, then
  delayed read of the current value does not lead: a session that tested `done` or
  `poolEntries` may wait arbitrarily long before it acts on it, and the server
  thread may pass the test of `shutdown` just before the flag is set. A session
  acts on its own `done` inside its lock, which the writer takes afterwards.
* The exception paths of `NGServer.run()` (`BindFails`, `TakeFails`,
  `AcceptFails`) lead to line 391, with `sessionOnDeck` as it was: after
  `TakeFails` that is the session of the round before.
* `NGSession.run()` up to the nail is one step with three outcomes: the command
  is found, it is unknown (the client gets `EXIT_EXCEPTION`), or an
  exception leaves to the outer `catch` without closing the socket. The
  casts of `System.in` fail when `shutdown()` has put the original streams back.
* What a nail does is one of `NailOutcomes`; `EndNail` writes the exit status
  to the client and goes to `socket.close()`. `System.exit` is turned into a
  status by the `NGSecurityManager` and exits the JVM (`ExitVM`) after
  `shutdown()` has put the original security manager back.
* `socket[s]` is the local variable up to its last use, `accepted` likewise:
  what the thread will never read again is not kept.
* `FreshSession` numbers sessions in the order of their creation; which element
  of `Sessions` a thread gets is of no importance.
* The shutdown hook waits for at most five seconds; `HookEnds` may happen at
  any time of its wait. `main` registers it after it has started the server thread
  (`RegisterHook`), and a program that embeds the server never does, so the step may
  stay away; an exit of the JVM that finds no hook halts it at once
  (`HaltWithoutHook`).
* A session ended by an `InterruptedException` is `broken`, one that ended in
  any other way `dead`: the first may be in the pool, and on deck, without anybody
  having told it to end.
* External, modelled from how the code uses it: `Connect` (a client), `Signal`, and what
  the JVM does about both ends of itself, `LastThreadEnds` (it exits when its last
  non-daemon thread ended) and `HaltWithoutHook`.

For the connection, *a step* is what one thread does with one system call, or between
two locks:

* The two streams hold numbers from 0 to 255. A chunk is its five bytes of header and
  its payload, and it is sent as they fit: `send()` and `write()` take any room there is
  (`Fits`), and block when there is none. `recv()` without `MSG_WAITALL` returns
  what has arrived, with it everything asked for, or less at the end of the stream.
* The client is one thread. Its loop looks at the socket before it looks at its stdin;
  while it sends it does not receive. `cpc` is where it is. What it goes on to do after a
  `recv()` that returns 0 or -1 follows the C code: a short header is a broken
  connection (`RecvHeaderFails`), `recvToFD()` repeats, `processExit()` takes what it has.
  `exit.why` tells a short header of a socket that the server has closed (`"broken"`) from
  one of which the rest is still to come (`"split"`); to the client both are the same.
* A nail is any sequence of at most `MaxCalls` calls by its threads: print, read,
  `System.exit`. It ends by returning or throwing; the exception of
  `System.exit` leaves it or is caught. Threads the nail has started inherit its streams
  and may print when it has ended, until the JVM ends.
* `printing[t]` is a call of a `PrintStream` in progress, under the lock of that
  `PrintStream`: the chunks it has still to write. `println(int)` writes two, the digits
  and the end of the line. `write()` fills the header array of its stream before it takes
  the lock (`FillHeader`); all threads that print on a stream share the array (`header`),
  and `BeginWrite` sends it as it is by then. `holder` is the thread in the
  `synchronized (out)` of `NGOutputStream.write()`, `pending[t]` what it has still to put
  into the socket.
* `ReadHeader` relies on a socket's `InputStream` to return -1 again when it is
  read after its end; `readHeader()` does so, with an offset of -1. A read of a connection
  the client has closed may throw instead (`ReadFails`), in any state of the stream and again
  and again: TCP tells the reader of a reset or of an end, as the client had unread data or not.
* An end of the socket that is closed with input unread, or sent more afterwards, resets
  the connection, and any part of what it sent before may be lost (`Reset`). A
  client that sends after a reset gets `SIGPIPE` (`BrokenPipe`).
* `written` and `answer` are history: what was given to the streams, and the first exit
  chunk with what was printed before it.

For the registry, *a step* is the beginning or the end of a Clojure transaction:

* A transaction reads the values of its beginning (`CheckOutRead`, `StopTest`).
  `alter` makes it start again if the ref was committed to since
  (`CheckOutRetry`; `stale` has the nails whose values are no longer the latest);
  `commute` applies its function to the latest value (`StopCommit`, `Register`,
  `CheckIn`) and never conflicts. The transaction of `repl-id` reads nothing
  before it alters, and that of `start` and of the end of `with-repl*` only
  commutes: each is one step. That transactions work like that is Clojure's
  promise, not modelled; that a transaction gives up after ten thousand tries is
  left out.
* Of the state of a Repl (`*1`, namespace, line, ...) the model keeps which nails'
  evaluations have shaped it. `run` catches every `Throwable`, so that an
  evaluation that fails is one as well.
* An `-i` that is no number or a namespace that cannot be loaded ends the nail
  before it does anything (`ParseFails`).

For the highlighting, *a step* is one operation on a file or one turn of a loop of
`CreateTypesFile()`:

* Of a word only its length, the kinds of its characters, whether Vim reserves it,
  and its place in the sorted order matter. A line of a types file is its command,
  its groups and its words.
* ctags is external: it writes the tags it finds, or fails with the old file, no
  file, or the beginning of a sorted one (`RunCtags`, `TornTags`). The script does
  not read its return code.
* A file is emptied when it is opened for writing (`TruncateTags`, `OpenTypes`) and
  filled in one step, unless the script is killed (`Kill`) or raises an exception
  there (`CannotRewrite`, `CannotWrite`); then it has a beginning of its lines, the last
  line perhaps cut. A line of keywords that is cut keeps some of them (the first, in
  the model); `:syn clear` and the names of groups keeps any number of the first names, and if
  it keeps none it clears all syntax there is (`TornLine`, `ClearedFrom`).
* The order of the names in that line is the one of a dictionary of Python 2, a constant (`Order`).
  `:syn clear` stops at the first group Vim does not know. That is `CTagsImport` only, the one
  name `ctags_highlighting.vim` gives no colour, and it is the last one of its dictionary,
  so that nothing is missed; `OrderAssumption` says so.
* Vim waits for the script (`Reload` comes after its end, whatever the end was);
  CTRL-C ends both (`Interrupted`). Buffers read their types file in `Reload` and
  `EditFile`. The types files of one directory are modelled; the code also looks
  into the parent directory and the current one.
* The options that a user cannot reach from Vim with the variables of the plugin
  (`--do-not-check-keywords`,
  `--do-not-analyse-constants`) are not given; cscope and
  the recursion of ctags are left out. Patterns are written in the order of the names of
  their groups; the order within a group is left open.

For Sparkup, *a step* is one turn of a loop of the tokenizer or the parser:

* An abbreviation is a sequence of lexemes, separators and words. What the regular
  expressions of `Token._init_element` find in a word is a constant, `Core[w]`; what
  the code does with it, shortcuts and dictionaries included, is modelled. The
  theorems hold for every `Core`.
* A value is a sequence of pieces, because only `&` and `$` are ever replaced in
  it. The dictionaries of shortcuts are state (`dialect`): tokens refer to them as the
  code does, by reference, and what one word adds shows in others.
* Elements are in a heap, `elems`, in the order of their creation. `caret` and `last` are
  lists of indices. An `IndexError` of `self.caret[0]`, which `Router.parse` turns
  into a message, is `ParentFails`.
* Rendering is a recursive function, one step. Guides, the TextMate mode and the
  width of the indentation are left out.

## The runs

| run | instance | shows |
|---|---|---|
| `server_faults` | 2 connections, 3 sessions, 1 slot, every fault, every kind of nail | type correctness, `PooledAreIdle`, `OneHolder`, `NoOrphan`, `DeckIsReady` (ready, or ended by an interrupt), `NoLostWakeup`, `IdleLimit`, and that `NGServer` implements `NailService` (safety) |
| `server_stops` | 1 connection, every fault, every kind of nail, an embedding program | `ServerStops`: after `shutdown()` the server thread ends, and a socket that was open is closed; `ExitCompletes`: an exit of the JVM never blocks itself |
| `server_nails` | 2 connections, one of which may break off, 2 slots, `shutdown(false)` at any time or never, nails that return or call `System.exit` | `PoolConsistent`; `ImplementsFairService`: a server that is not stopping answers and closes every connection; `NailsEndOrExit`, `SessionsEndOrStrand` |
| `server_v_strand`, `server_v_drop`, `server_v_interrupt` | the smallest instance each | a comment of the code that the code does not keep, see below |
| `connection` | a client and a nail of 2 threads and 2 calls, 3 requests (one garbled), 2 bytes of stdin, streams of 9 bytes, buffers of 4; kills at any time | `StreamsInOrder`, `AnswerIsTrue`, and `ConnectionEnds`: the connection ends, but in the three ways listed below |
| `repl_registry` | 4 nails, each with any command; ids 1 and 2 may be named by clients | `OneEvaluation`, `NoEvaluationLost`, `CommandsEnd`, and that the registry implements `ReplService` |
| `repl_v_stop` | 3 nails | the error message of `stop`, which the code does not keep, see below |
| `mktypes` | 2 updates with either of 2 commands, 1 edit of the sources; 5 words, 8 tags in C, C++, C# and Python; every failure and kill; a buffer of C | a script that ends leaves the files the tags ask for (`FilesAsTagged`, `FilesUpToDate`), `NothingLost`, `LinesFit`, `PriorityKept`, `WrittenInOrder`, `OldColoursCleared`, and that every update ends |
| `mktypes_v_match` | one reserved word with two kinds, one command | a comment of the code that the code does not keep, see below |
| `sparkup` | every abbreviation of up to 5 lexemes over 7 words, and of up to 4 over 12; `expand-divs` or not | `TreeSound`, `CaretsLevel`, `CreatedAsSpecified`, `OutputNumbered`, `AttributesAsWritten`, `PageReadsBack`, `ErrorsExplained` |

**Bounds.** A client connects at most once, so the number of connections bounds
behaviours; nothing else is capped. A round of the server thread takes at most
one new session and ends with a connection, so `Cardinality(Clients) + 1`
sessions are all the program can create: the assumption of `MCNGServer` says
that the instances have them. `MaxIdle` is 2 or 3 instead of 10: with one slot
and two connections the array is empty, full and overflown, with two slots it is partly
filled as well; what holds for one slot is proved for any number. Connections are interchangeable, so the safety runs use
their permutations as symmetry (those that may break off among each other); runs with liveness properties do not. Deadlock
is not checked in any run: an idle server waits for clients who need not come,
a halted JVM stops, and so does a registry whose nails are done. In the
registry a nail gives out one id at most, so that `MaxId` is the number of nails
and excludes nothing. Four nails are one that starts a Repl and three that use
it: a check-out, another commit in between, and a stop; or two Repls and two
that use them.

For the connection, `MaxCalls` is the only bound on behaviours. The smallest chunk with
a payload has 6 bytes and the largest one here 10, so that 9 bytes hold a chunk, or one and a half,
and never the largest at once; 4 bytes of buffer take 5 bytes of payload in two passes.
Two calls are two threads that print at the same time, on one stream or on two, a
thread that prints while another exits, one that exits, catches it and exits again, or one that reads and prints. Status 257 is 1 in eight bits;
`EXIT_EXCEPTION` is 899 and becomes 131.

For the highlighting, `Starter` is 5 and `LineLimit` 18 instead of 512: the words are
so long that a line takes two of them, one, or is too short for one. They include
one that Vim reserves, one that is no keyword, and one with the C# kind
that the table of C lacks. Two updates are one that may fail anywhere and one that
finds what it has left; `MaxEdits` puts one change of the sources before or between them. The
tag of C#, the prototype and the destructor are absent at first, so that they come with that
change. One command has all options set, the other none and not all languages. For Sparkup, the
words have the multipliers 0, 1 and 2, `$` and `&`, a class added to a shortcut's dictionary,
shortcuts that are a page, default items of all three kinds (`ul+`, `dl+`, `table+`),
no name at all, and `!`; five lexemes nest two multiplications in a third, or end
with `<` after two of them. Both reach all their states in about two minutes.
Sparkup stops when it has rendered, a connection when it has ended, and so may Vim when nobody
updates: no check for deadlocks.

**Fairness.** `FairSpec` has weak fairness for the server thread, for each session
thread, for each started call of `shutdown()`, and for the hook: a
JVM runs every thread that can run. `main` need not exist, and the threads of an
embedding program need not end (`RegisterHook`, `LastThreadEnds`). For a session it includes
that nails end and that clients send their command or break off. It has no fairness for
connecting, for calling `shutdown()`, or for signals. A monitor that several
threads contend for would need more (Java locks are unfair), but the only one
of the server is the pool's, which a draining thread takes without ever giving it up in
between and which is held for one step by the others. In the registry, a nail's
transactions are executed and its evaluation ends; `CommandsEnd` shows that
retries end, too: others commit finitely often. On a connection, client, session, and
each thread of the nail in a call of its streams are scheduled, and every nail ends
(a nail that never ends is not the protocol's matter); nothing is assumed of what a nail
calls or of kills. The lock of the socket's stream is contended for, but only as often
as the nail makes calls. A script runs to its end, and Vim goes on when the script it
waits for has ended; no command need be given and nothing need be killed.

**Violations.** These runs state a comment of the code and TLC shows a
behaviour of the code that does not keep it.

* `server_v_strand`: a session stored between the drain of the pool and its
  own test of `done` waits for ever; its thread is no daemon, so an embedding
  JVM does not end. `SessionsEndOrStrand` shows that nothing else keeps a
  session from ending.
* `server_v_drop`: `NGServer.run()` shuts the session on deck down after its
  loop even if it has just been handed a connection, which is then dropped.
* `server_v_interrupt`: a nail may leave the interrupt flag of its thread set. The thread
  returns itself to the pool, its next `wait` throws, and it ends there; `take()`, which
  promises "an NGSession ready to work" (`NGSessionPool.java:78`), hands out the dead
  thread, and the connection it is given is never answered. `DeckIsReady` shows that this
  is the only way in which the session on deck is not ready, and `ImplementsService` that
  each such nail costs one connection at most.
* `repl_v_stop`: `stop` (repl.clj:87) tests `@*repls*` and then commutes. A
  check-out that commits in between is not noticed: `stop` returns normally
  although the Repl is "currently active", and the end of the evaluation puts the
  Repl back into the map, where it stays. It needs two clients of one Repl.
  `ImplementsReplService` holds all the same: its `Stop` is the step that removes
  an idle Repl, and a Repl that was removed never comes back.
* `mktypes_v_match`: "Specified highest priority first", and "highest priority should be
  last" (`mktypes.py:322`, `330`), because Vim shows the group it has read last. A word that becomes
  a pattern, as every reserved one does, comes behind all keywords, in the order of the names
  of its groups: `contains` as a function and a method of Python is shown as a method
  (`Function` comes before `Member`). `PriorityKept` shows that keywords do keep the order; a
  group that is not in the list at all comes behind those that are, and wins.
**Known exceptions.** Elsewhere a comment or a document says more than the code does, and a
property of a passing run states what is left of it and what it excepts.

* "The server will stop listening and its thread will finish" (`NGServer.java:267`).
  `shutdown()` before the server thread has bound its socket
  discards a `NullPointerException`; the thread then binds the socket, finds the flag, and
  ends with the socket open. `ServerStops` shows that the thread always ends, and
  that a socket which was open when `shutdown()` was called is closed.
* "Any running nails will be allowed to finish" (`NGServer.java:268`).
  `shutdown(false)` puts the original security manager back, and
  `System.exit` in one nail then ends the others with the JVM. `NailsEndOrExit` shows that
  nothing else keeps a nail from its end.
* "Exits the client if the nailgun server ungracefully shut down the
  connection" (`ng.c:210`). `recv()` returns what has arrived of the five bytes of a header; when
  that is less, the client ends in this way although the server is there, and its answer is lost.
  `AnswerIsTrue` shows that otherwise the client does so only where the JVM has ended or the
  socket was reset: a server that closes its end in order has put a whole exit chunk before it.
* The documentation lists C# (`ctags_highlighting.txt:317`). The expression for the files of C,
  `[ch]\w*`, takes `*.cs` as well. A C# kind that C does not have raises `KeyError`
  (`mktypes.py:265`, `UnknownKind`), and as C comes first, no file of any language is written.
* `:UpdateTypesFile` is there "to keep the generated files up to date"
  (`ctags_highlighting.txt:49-51`). Once a language has no tag left its file is not written, and
  shows the words of deleted code for ever. `FilesUpToDate` shows that the files of all other
  languages are up to date.
* Two sessions that see one free slot overflow the array of the pool, of which no
  comment speaks. The second ends by an `ArrayIndexOutOfBoundsException`, before the
  increment, so that the pool itself stays consistent.

A connection lasts for ever in three ways, and in no others (`ConnectionEnds`). The
protocol has no flow control, so that client and nail may send to each other until all
buffers are full, and neither receives (`BothSend`). A server that ends inside a chunk leaves the
client repeating a `recv()` that returns 0 (`Spins`). An entry of the environment
without `=` throws in line 218 of `NGSession.java`, outside of the `try` whose end closes the
socket, and the client waits (`Abandoned`). An answer may be lost even though it was sent,
in three ways (the reason for the conditions of `AnswerIsTrue`): the client takes part of a header
for the end; a session that closes its socket with input unread resets it,
and the client finds the stream cut, perhaps within the exit chunk, of which it then takes what
is there; or it sends to a connection just reset, and ends by a signal.

## The proofs

Theorems are for all values of the constants, finite or infinite, from the named
assumptions of the modules. For the server these are: `NoSession` and `NoSocket` are no
session and no connection, `MaxIdle` is a positive natural number, and the callers of
`shutdown()` are different threads. For the highlighting: tags are over the words there
are (`TagsAssumption`), projects are sets of tags (`ProjectsAssumption`), and `Order` has
the groups of each language, `CTagsImport` last (`OrderAssumption`). For Sparkup:
a multiplier is a natural number (`CoreAssumption`) and no word is a separator
(`WordAssumption`). For the connection: no thread is the
free lock, what is printed is between one byte and the longest Java array, statuses are 0
to 999 (`NailAssumption`); buffers hold at least a header and a byte, at most the largest
int (`CapacityAssumption`); a request is chunks of arguments, environment and working
directory, then the command, as `main` of `ng.c` sends them, each of which fits into the
buffers (`ClientAssumption`). All but `LengthRoundTrip` and `StatusRoundTrip`,
arithmetical facts, are safety properties of `Spec`.

| theorem | statement |
|---|---|
| `TypeCorrect` | `Spec => []TypeOK`; that `poolEntries` is within the array is part of it |
| `PoolCorrect`, `PooledCorrect` | `Spec => []PoolConsistent`, `Spec => []PooledAreIdle` |
| `WakeupCorrect` | `Spec => []NoLostWakeup` |
| `NoOrphanCorrect` | `Spec => []NoOrphan` |
| `IdleLimitCorrect` | `Spec => []IdleLimit` |
| `HolderCorrect` | `Spec => []OneHolder` |
| `DeckCorrect` | `Spec => []DeckIsReady`, for all `NailOutcomes` and `Faults` |
| `ServerImplementsService` | `Spec => ImplementsService`, for all `NailOutcomes` and `Faults` |
| `ReplRegistryProofs!TypeCorrect` | `Spec => []TypeOK` |
| `OneEvaluationCorrect` | `Spec => []OneEvaluation` |
| `NoEvaluationLostCorrect` | `Spec => []NoEvaluationLost` |
| `RegistryImplementsService` | `Spec => ImplementsReplService` |
| `TypesAlways` | `Spec => []TypeOK` of the highlighting |
| `NoWordIsLost` | `Spec => []NothingLost` |
| `EndedFilesAreAsTagged`, `EndedFilesAreUpToDate` | `Spec => []FilesAsTagged`, `Spec => []FilesUpToDate` |
| `ReadingClearsOldColours` | `Spec => OldColoursCleared` |
| `PriorityIsKept` | `Spec => []PriorityKept` |
| `LinesAlwaysFit` | `Spec => []LinesFit` |
| `FilesAreWrittenInOrder` | `Spec => WrittenInOrder` |
| `SparkupProofs!TypeCorrect` | `Spec => []TypeOK` of Sparkup |
| `OneTree`, `CaretsAreLevel` | `Spec => []TreeSound`, `Spec => []CaretsLevel` |
| `AsManyAsSpecified` | `Spec => []CreatedAsSpecified` |
| `AttributesAreAsWritten` | `Spec => []AttributesAsWritten` |
| `ThePageReadsBack` | `Spec => []PageReadsBack` |
| `NumbersAreAsSpecified` | `Spec => []OutputNumbered` |
| `ErrorsAreExplained` | `Spec => []ErrorsExplained` |
| `NothingIsAddedLater`, `TheTreeOnlyGrows` | `Spec => LostForGood`, `Spec => GrowsOnly`: once there is no caret, nothing is added; no step moves or renumbers an element |
| `LengthRoundTrip` | `FromArray(ToArray(n)) = n` for every length below 4 GB |
| `StatusRoundTrip` | `atoi(Decimal[n]) = n` for every natural number |
| `WritersExclude` | `Spec => [](OneWriter /\ OnePrinter /\ HeadersKept)`: one thread at most is inside a chunk, one at most in each `PrintStream`, and the header a thread has filled is still that of its chunk |
| `ConnectionTypes` | `Spec => []TypeOK` of the connection |
| `StreamsArriveInOrder` | `Spec => []StreamsInOrder` |
| `ClientsAnswerIsTrue` | `Spec => []AnswerIsTrue` |

**The argument.** None of the properties is inductive. `IInv`
(`NGServerProperties`) is: that the pool's entries are different and idle
needs that a session which stores itself is in nobody's hands; that a popped
session is idle needs that sessions outside of the pool and not on deck are
never idle (`NoOrphan`) unless shut down; that a wake-up is not lost needs
that a monitor holds a socket only between hand-over and pick-up
(`MonitorInUse`); that the session on deck stays the server's needs `DeckTaken`,
and that of a draining thread `VictimDone`, which in turn need that one call of
`shutdown()` at most is past the flag (`OneShutdown`) and that a nail is the
only thing a session in `shutdown()` is in (`NailInShutdown`).
`NGServerProofs` treats the pool as a set first (`PopFacts`, `PushFacts`),
then proves `IInv` step by step, one lemma per thread (sessions, server, callers,
the others).

`IdleLimit` follows from `NoOrphan` and `PoolConsistent`: the idle sessions are
in the pool, at most `MaxIdle - 1`, or on deck. `OneHolder` is inductive with
`TypeOK`. `DeckIsReady` needs a second invariant (`DoneIsFinal`): only a
shutdown and an interrupt set `done`, the one on sessions the server will never take,
the other in a thread that ends in the same step.

`ServerImplementsService` needs, beside `IInv` and `OneHolder`, that every accepted
connection is where the thread that will answer it looks for it (`InHands`): a pooled
session and the one on deck hold no socket that the hand-over could overwrite (`HandsFree`),
a thread has a local socket exactly while it serves one (`SocketInUse`), how far the
connection is follows from where it is held (`ConnPhase`), and the streams and the security
manager are only missing once `shutdown()` was called (`StopFirst`), so that what is lost
for want of them is lost by a stopping server. `NailService` counts the nails that left an
interrupt (`spoiled`): `Lose` takes one of them for each connection lost by a server that
is serving, and the hand-over to a `broken` session is that step (`HandOverServes`). `guarded` is
whether the hook is registered, without which the JVM may halt at any time. Lemmas say what the clients see of a
step (`UnseenStep`, `MoveStep`, `DropStep`, `LoseStep`, `AnswerStep`, `AbandonStep`,
`ClearedStep`); `SessionServes`,
`ServerServes`, `CallerServes` and `OtherServes` give every action its place among them.

For the registry `IInv` (`ReplRegistryProperties`) has the two properties and what
they rest on: `ReadIsCurrent`, that what a transaction has read is what is there
unless it is stale, so that the Repl it takes out is idle and has all
evaluations; `IdFresh`, that an id about to be registered is nobody's, which
needs that all ids come from the counter (`IdGiven`). `ReplsStarted` is for the
refinement only: it tells a stopped Repl from one that never was. The lemmas
`...Keeps` prove `IInv` action by action; `QuietSteps` are the actions
`ReplService` does not see, and each of the other four is one of its steps.

For the highlighting, `IInv` (`CtagsHighlightingProofs`) follows one script through its
files. `Balance` is the heart: what is in the lines, on the line at work, among the
matches and still to come is together what the language wants, and these four are
disjoint. `FreshSoFar` carries it from language to language (the files before `li`
are as the tags say), and `TagsOK` ties the tags to the sources while ctags has
not failed. Nothing is assumed of the files in between: a run that ends has written
them all anew, which is why any history of crashes is repaired. Three properties are
about torn files too and need invariants over all files at all times: `FilesOwned`
(a file begins with the line that clears its language's groups, is empty, or is a part of that line
and nothing else) for
`OldColoursCleared`; `Ordered` (keywords in the order of `Place`) for `PriorityKept`;
`AllFit` for `LinesFit`, which uses of `LineLength` only that it is a function of the
words. All three come to what a cut can leave of a file, which `TornFiles` says once.

`OldColoursCleared` is about files that have a word. One that was emptied, or cut off in its first
line, by a script that was killed clears nothing or a part: a buffer that reads it keeps old words
until it reads the file again after the next update, which repairs it (`FilesAsTagged`).

For Sparkup, `IInv` (`SparkupProofs`) has, beside the tree and the carets, why a list may be
empty (`EmptyExplained`). `Grown` says what `Element(token, parent)` makes of the heap
with its default items; `TreeGrows` proves once that this keeps the tree, and the other
actions leave the heap alone. `AttrsInv` relates every element to its token and the
dictionaries as they are after tokenizing. `CreatedAsSpecified` compares with
`SizesAfter`, a recursive function of the tokens. That such a function exists cannot be
had by induction over the tokens here, but the tokens come one after the other: that it
exists for the tokens read so far is an invariant (`SizesExist`), and from then on
`Counted` says that carets and last elements are as many as it says. The step for `<`
needs that the root is alone on its level (`RootOnTop`): otherwise several carets could
stay.

The other two are about the page, which a recursion over the tree makes and the property
reads with a recursion over lines. `Reads(reader, ls, end)` says that a reader who
reads `ls` ends as `end`; it can be put together (`ReadsBoth`), so that what the lines of an
element do to a reader can be said of any reader who stands in its parent (`Shows`): it
leaves the stack as it was and adds the element and all below it to what was seen, as a
`Forest` (parents before children, brothers in the order of their creation, each
child among the elements below its parent). `LinesOfAll` is the renderer as an equation
for a function from elements to lines; that it has a solution, and that the solution shows
forests, are inductions from the youngest element to the root (`LinesExist`, `AllShown`;
`Induction` is the module described below).
An element without name and tags shows nothing of itself, so this needs that the root is
the only one (`TagsInv`), hence that every shortcut of the dialect gives a name or tags
(`ShortcutsTagged`, which goes through the whole table). `NumbersInv` says what numbers are in
the order of creation: the element that gets the number `n` is the `n`th of its token
(`NumberedSoFar`, `AtWork`). The page is in another order; but the parents of two elements
of a token are one, or two elements of one token in the same order (`TokensInOrder`,
because all carets are of one token, `OneToken`), so that elements of a token are shown
as they were made (`ShownInOrder`).

For the connection the inductive invariant, `ConnectionInv` (`NGDeliveryProofs`), has five
parts. `PrintInv` adds to the two exclusions that a call of a `PrintStream`
writes all its chunks to one stream (`OneStream`) and that who is inside a chunk is in such
a call (`WritesPrinted`). `write()` fills the header array of its stream before it takes the
lock; the lock of the `PrintStream` makes up for it: a thread that has filled the array is the
only one in a call of its stream, so that the length in it stays (`HeadersKept`), and
what it begins to write is the chunk it prints (`ChunkOfFilled`). `TypeInv` adds to
`TypeOK` where the client is in a chunk it copies. `Control` says which side has closed its
end where it is (`Ends`), and that a session that has come to its answer has given it or is
about to (`Answering`).

`InputInv` and `OutputInv` say what is on its way. The bytes in a stream, with those a
writer has still to put into it or has lost (`lost`), are the rest of the chunk the reader
is in (`rem`), then whole chunks (`cs`), then, to the client, the first exit chunk and
whatever comes after it (`Ending`). What has arrived with what is in `rem` and `cs` is what
was sent (`ToServer`, `ToClient`). Chunks and places are found anew in every
state (`InputArrives`, `OutputArrives` are existential), because the split of the bytes is
nowhere in the state of the program; what the reader takes off the front is then the
header of the first chunk (`HeaderArrives`) or a part of `rem` (`Advance`), and what a writer
adds is a chunk at the end (`StreamAppend`), even when it then loses it. A session that
has written its answer has lost nothing before the end of the exit chunk
(`Answered`), which is why the client meets it, and why a socket closed in order never holds
less than a header (`HeaderIsThere`); the one stream that ends within a chunk
is one that was reset (`Cut`).

These lemmas are about `FlattenSeq` of chunks, `atoi` and decimal numbers, which are
recursive. `Induction` has what they need: the theorems of the library about induction
take an operator as a parameter, but that a set with 0 and the successors of its
elements is `Nat` follows without one from the least element of its complement, and
that a recursive definition over the numbers has a solution is a lemma about a set of
approximations (`RecursionTheorem`).

**Only model-checked**: the temporal properties beyond invariants and steps (`ServerStops`,
`ExitCompletes`, `NailsEndOrExit`, `SessionsEndOrStrand`, `CommandsEnd`, `UpdateEnds`,
`ConnectionEnds`, the liveness of the service): fairness and `ENABLED` are beyond TLAPS. Every
invariant of a passing run is a theorem.

## Not modelled

`NGServer.main()` and argument parsing; the statistics and `nailShutdown()`
calls inside `shutdown()`, which touch no modelled state; the Windows build of the client,
its command line, and errors of its own stdin and stdout; `read()` of a single byte by a nail
(which returns it with its sign, so that 255 looks like the end of the input) and reads by
several threads at once, which no lock keeps apart; chunks of 2^31 bytes and more; `OutOfMemoryError` outside of thread creation; restarts of a server
object (`run()` is called once). The characters of a Sparkup word and of a line of
`tags`: regular expressions over strings are out of reach of both tools. The
parts of the two scripts that only read options and print. The converters of snippets
and of the Cocoa documentation, scripts without a state that are run once by hand.
Everything else is in the plan or listed in `PROJECT.json` with the reason.

## Plan

1. *(done)* `NGSessionPool`, `NGSession`, `NGServer`, `NailService`; the
   inductive invariant and the safety theorems.
2. *(done)* `ReplRegistry`, `ReplService`: transactions on `*repls*`; proof of
   the invariant and of the refinement.
3. *(done)* `MkTypes`, `CtagsHighlighting`: the script, its files and the buffers,
   with crashes; proofs of all of its safety properties.
4. *(done)* `Sparkup`: tokenizer, parser, renderer; proofs of all of its properties.
5. *(done)* Proof that `NGServer` implements `NailService`.
6. `NailRegistry`: statistics, aliases and `nailShutdown()` under
   `allNailStats`, with nails that start and finish concurrently. Invariant: a
   class's `refCounter` is the number of sessions running it; hazards: lock
   order, unsynchronized `get`. Theorem: the counters.
7. *(done)* `NGProtocol`, `NGSocket`, `NGClient`, `NGNailStreams`: one connection, with
   streams that are split or broken anywhere; proofs that streams arrive in
   order and that the status is true.
8. `ReplBuffer`: history and commands of the Vim side, then composed with
   `ReplRegistry` for `,close`.
9. As far as it pays: `repeat.vim` (the tick), AutoComplPop (options saved and
   restored), snipMate (tab stops), VimSokoban (undo is the inverse of move).
