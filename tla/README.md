# WebFront in TLA+

WebFront is a C++20 header-only library that gives a program an HTML user
interface.  It embeds an HTTP server, upgrades connections of the page to
websockets, and carries log lines, scripts and function calls in both
directions between the C++ program and the Javascript of the page.

This directory holds TLA+ modules that model the library, configurations that
check them with TLC on small instances, and proofs, checked by TLAPS, of the
properties that matter most, for all instances.  `PROJECT.json` relates every
definition to lines of the source, lists the runs, the mutants that show that
each property can fail, the hazards the properties are for, and the theorems.

    tlc -config FrameDecoder.cfg MCFrameDecoder.tla        # a run
    tlapm FrameDecoderProofs.tla                           # the proofs

Contents: [the system](#the-system) · [modules](#modules) · [runs](#runs) ·
[what the checks found](#disagreements-between-code-and-text) ·
[fairness](#fairness) · [proofs](#proofs) · [limits](#what-is-not-modelled) ·
[what is left](#what-is-left)

## The system

One thread runs asio's `io_context`; everything that happens to a connection is
a completion handler on that thread, executed to its end before the next one
begins.  The application's own thread may start that thread (`openAndRun`) and
calls `stop()` or the destructor beside it.  There are no locks: what keeps the
program right is the order of handlers, and that of `stop()`'s calls among
them.

| Component | State | Operations | Talks to |
|---|---|---|---|
| HTTP server, connections, request handler (`http/HTTPServer.hpp`) | the acceptor, the set of connections; per connection a socket, a request, a response, a protocol | accept, read, write, stop; `handleRequest` | the parser, the file system, `onUpgrade` |
| HTTP request parser (`Request`) | the state of the automaton, headers; a static buffer for the method | `completeRequest`, `parseSomeData` | called by `Connection::read` |
| Websocket frame decoder (`FrameDecoder` in `http/WebSocket.hpp`) | a state, a partial header, a partial payload | `parse`, `reset` | called by `WebSocket::read` |
| Websocket (`WebSocket`) | a socket, `readBuffer`, `started` | `start`, `stop`, `read`, `write` | the decoder, `WebLink`'s handlers |
| Links (`weblink/WebLink.hpp`, `WebFront.hpp`) | table of links by id, the counter of ids, callables, handler of `onUIStarted` | upgrade, handshake, call, `addScript`, `jsFunction` | websockets, log sinks, application |
| Messages (`weblink/Messages.hpp`), `JsFunction` | a buffer of parameters | encode, decode | links |
| Logger (`tooling/Logger.hpp`) | a list of sinks | `log::info` ..., `addSink`, `removeSinks` | a sink per linked page: every line is written to all of them |
| Window and server thread (`BasicWF::openAndRun`, `stop`, the destructor; `frontend/*`) | a thread | start, join | the server |
| File system (`system/*FS.hpp`) | static data, read by chunks | `open`, `read` | the request handler |
| Encodings (`http/Encodings.hpp`) | none | SHA-1, base64, uri | the request handler |
| The page (`WebFront.js`, inside `system/IndexFS.hpp`) | the state of its link | handshake, calls, reaction to messages | external |

What makes the parts right, and hard:

* **Frame decoder.** TCP cuts the stream anywhere: inside a header, a payload,
  between frames, or not between them.  Every frame should reach the handlers
  whole, once and in order, and whatever the cuts no buffer may be overrun, no
  unsigned difference wrap and no byte reach two handlers.
* **Reads.** Both the constructor of `WebSocket` and `WebLink` call `start()`,
  so that two reads are outstanding on one socket with one buffer: the second
  may fill it before the first one's bytes were parsed.
* **Server.** Clients leave or reset at every moment, `stop()` is called by a
  handler or by another thread.  Each listed connection must have an operation
  outstanding (or nobody ever looks at it again), a socket that was upgraded
  must not be used twice, one client must not end the server for the others,
  and `stop()` must leave no connection behind.
* **Parser.** The characters of a method are collected in a buffer that all
  connections share, while their requests come in pieces.
* **Links.** Ids wrap, links stay in the table after their page has gone, UI
  objects outlive pages; log lines go to every page, over connections whose
  errors are logged; what is written to a page by handlers of other pages must
  not overtake the answer to its handshake.
* **Writes.** Several `async_write` are outstanding on one socket, which takes
  what it has room for; the buffers they point to belong to handlers that have
  ended; and a frame that grows keeps the header it was laid out with.
* **Window and server thread.** The program's thread opens windows, stops, joins
  and destroys while the server thread is in the middle of a handler.  Joining
  must end, and nothing may run on what was destroyed.
* **Codecs.** Values that do not fit declared types, an encoder of calls that is
  never reset, blocks and integers whose borders do not coincide, and the
  paddings of base64 and SHA-1.

## Modules

| Module | Models | Notes |
|---|---|---|
| `FrameChannel` | what `WebLink`'s handlers rely on | the abstract specification: payloads delivered whole, once, in order |
| `FrameDecoder` | `FrameDecoder::parse`, `reset`, driven by `WebSocket::read` | implements `FrameChannel` under conditions |
| `WebSocketReads` | `WebSocket::start`, `read`, and asio's completion of reads | two reads on one buffer |
| `HttpServer` | `Server`, `Connections`, `Connection`, `RequestHandler` | accept to upgrade, and `stop()` from two kinds of callers |
| `RequestParser` | `Request::completeRequest`, `parseSomeData` | all the connections that share the static buffer |
| `WebLinks` | `BasicWF`, `WebLink`, `WebSocket`'s writes and errors, log sinks, page | composes tables, sockets, logger and pages |
| `WebSocketWrites` | `Frame`, `WebSocket::write`, `writeData`, and asio's `async_write` | implements `FrameChannel` under conditions |
| `UiLifecycle` | `BasicWF::openAndRun`, `stop`, `~BasicWF` and the server thread | extends `HttpServer`: the composition of both threads |
| `FunctionCalls` | a `JsFunction` called again and again with one `msg::FunctionCall` | |
| `Parameters` | `encodeParameter`'s layout, `decodeParameter` driven by `cppFunction` | |
| `StaticFile` | `File::readData` and `RequestHandler`'s loop around it | |
| `Encodings` | `uri::encode`, `decode`, `base64::encode`, the padding of `sha1` | each beside its definition |
| `MC*` | values of the constants for TLC, symmetry | |
| `*Proofs` | theorems about the module of that name | |

**`FrameDecoder`.** The stream is a line of positions; a frame is the place it
starts at and the size of its payload.  The decoder's buffers always hold an
interval of the stream, so `payloadFrom`, `payloadLen` and
`headerBufferParser` are the buffers.  There is one action for each branch of
`parse`: `ParseWholeHeader`, `ParseHeaderStart`, `ParseHeaderRest`,
`ParseHeaderEnd` and `ParsePayload`, composed in `Read` with what
`WebSocket::read` does around it.  A header is what `parse` reads of it: the
size, the field that holds it, and whether there is a key (`Headers`).  A decoder
that lost the frame boundaries reads payload as a header (`HeadersAt`): it may
then be any of `StrayHeaders`, with a key or without, with a size in a field
longer than need be, or with one that `reserve` refuses, whose exception leaves
`run()` (`ReserveThrows`).  What a handler is given is a span of the announced
size, of which `got` bytes were received.
Unmasking is per byte and is left out, as is the opcode (that of a close frame
matters in `WebLinks`) and FIN: pages send whole messages, and `parse` does not
look at it.

**`WebSocketReads`.** asio performs the reads of one socket in the order they
were started, each as soon as there are bytes: the reactor of the POSIX back
ends goes on to the next queued read until one would block, and Windows has the
buffers of both reads at once.  So `ReadCompletes` asks for bytes and a pending
read, never for the handlers of earlier ones.  The content of `readBuffer` is
modelled by numbered bytes.  How the bytes come is chosen once per behaviour:
at will, or one buffer at a time (`paced`).

**`HttpServer`.** `op` and `done` stand for the one asynchronous operation of a
connection: which it is, and whether it is pending or its handler queued, and
with what result.  `Kernel` actions complete operations; a handler begins
(`HandlerBegins`) and has its effect in another step (`Handler`), since another
thread's `stop()`, which does not wait for it, may come between or return before
it.  The accept handler is cut between its test of `is_open` and the rest.  Only
one handler runs at a time (`handling`, `ioThread`).  `StopFromHandler` is one
action; from another thread (`StopThread = "main"`) it is one action per call:
`StopClosesAcceptor`, `StopOne` per connection, `StopClears`, `StopReturns`.
The handler of an upgrade runs `BasicWF`'s search for an identifier
(`IdSearch`): there are `IdSpace` of them, and with none left it never ends.
`OneThreadSpec` is what is left of the server when only handlers call `stop()`;
that nothing is left out of it is a theorem (`OneThreadRuns`).
`getMethodName` of an unknown method reads one past the end of an array: the
outcome is a choice between going on and the end of the program.

**`RequestParser`.** The automaton is a table of rows (state, characters, next
state), with characters in classes, `Accept` takes a row and `Reject` is
`BadRequestException`.  A chunk is parsed without interruption
(`ChunkStarts` ... `ChunkEnds`), and another connection may have its turn before
the next one.  The static buffer holds of each character only its owner.  The
table is that of a platform with signed `char`; where `char` is unsigned,
`isChar` holds for all, and bytes beyond ASCII are accepted in methods and names.

**`WebLinks`.** One action for the upgrade handler with its search for a free
id, one for each message a page may send, one each for a read and a write that
fail, before or after the socket was stopped.  What one handler writes is a
sequence of messages per page (`Write`), so that a log line is part of the
handler that causes it.  `UseUI` is the application: a handler of it may use one
UI object, any of those it was given, also of a page that has gone.  A function
that a page calls returns, throws `std::out_of_range`, which is answered like an
unknown name, or throws something else, which is logged (`ReceiveCall`).  Text
frames are answered (`ReceiveText`), though the page's script sends none.  Reads
that had completed with a message when the socket was stopped are handled after
that (`late`).

**`WebSocketWrites`.** A frame is the size it had when it was constructed, the
size it has after `addBuffer`, and how much the socket has taken.  asio tries
`async_write_some` at once if no other write waits for the socket and there is
room (`AsyncWriteSome`); a write that was taken in part goes on from its own
completion handler (`GoOn`), behind the writes that wait by then; the reactor
serves those in order (`Writable`).  All of that is asio's, marked external;
what the code decides is that it calls `async_write`, when, and with which
buffers.  `HandlerEnds` is the death of the buffers: `wire` records of each
part whether they were still alive.  The header of a frame dies with
`writeData`, before that, but within a handler nothing else is taken of a frame
once its `write` has returned.  When handlers write is chosen once per
behaviour (`pacing`): at will, only when everything has been taken (`alone`),
or only frames for which there is room and whose header fits (`roomy`).  Errors
of a write are in `WebLinks`.

**`UiLifecycle`.** The handlers of `HttpServer` run while `thread` is
`running`; the program's thread takes one step per call, and `stop()` one per
step of `HttpServer`'s.  An embedded window blocks until it is closed; the
system's browser returns when Enter is pressed, or throws, which leads to the
destructor.  `std::thread` stays joinable when its function has returned
(`ended`), so that `OpenAndRun` starts one only where there is none.
`Destroyed` is the end of the members, with whatever connection had slipped
through `stop()`.  `run()` ends behind the handler it is in; one that looks for
an identifier for ever (`Spinning`) is never behind.  An exception on the
server thread ends the program (`Alive`).  Requests arrive whole here, and
whoever leaves resets.

**`FunctionCalls`.** `buffer` holds of each byte the call that wrote it, `calls`
what was encoded, and what the header in the object was worth when the kernel
took it.  A call that finds no room in the 1024 bytes writes past the end: the
model stops before.  **`Parameters`** works on whole items, since each branch
of `decodeParameter` consumes one or nothing; `Receive` is a call of the page
with any values for a function of any declared types, `DecodeNothing` an item
that the declared type does not consume.  **`StaticFile`** numbers the bytes of a
file, and has one step per turn of `readData`'s loop.  **`Encodings`** has the
functions as operators and checks them on every text up to a bound; SHA-1 is
fed byte by byte, with a letter for what each byte is.  `MCCodecs` runs these
four side by side, one per behaviour.

## Runs

| Run | Properties | Instance | What it shows |
|---|---|---|---|
| `decoder` | `TypeOK`, `BuffersInBounds`, `SpansHalfReceived`, `ImplementsChannel`, `EveryFrameDelivered` | 4 sizes, 5 stray headers, reads of up to 16 bytes, limits 6 and 9; 2 frames cut anywhere, 3 frames cut as `Gentle` allows; 398890 states | wherever the stream is cut, also when the decoder has lost track, buffers are not overrun, no difference wraps, no byte is delivered twice, and at least half of each span was received; with gentle cuts, refinement of `FrameChannel`, and no frame stays behind |
| `decoder_premature` | `TrueMeansComplete` (violated) | 1 frame | see below |
| `reads` | `ParsedInOrder`, `NeverStale`, `ReadsBalanced`, `EveryByteParsed` | buffer of 3, 9 bytes that come in any portions; 24173 states | in order when the stream comes one buffer at a time; however it comes, bytes that are overwritten are replaced by later ones alone, both chains of reads go on and nothing is left in the socket |
| `writes` | `OneOperation`, `AloneStaysWhole`, `ImplementsChannel`, `EveryFrameTaken` | 3 frames of 4 layouts, a socket and chunks of 6 bytes, limits 2 and 4 | no rest of a frame is forgotten or written twice; alone, frames stay whole; with room, refinement of `FrameChannel`; every frame is taken in the end |
| `writes_outgrown` | `FramesDecode` (violated) | the same | see below |
| `http_io` | `TypeOK`, `OneOperation`, `HandedOver`, `ServerSurvives`, `StopClosesConnections`, `EventuallyDropped` | 2 clients, 3 kinds of requests and a malformed one, 1 identifier, `stop()` from a handler; 404188 states | no connection is forgotten; as far as the HTTP layer goes two causes at most end the server; `stop()` leaves open what was upgraded and one socket whose accept handler was queued; every connection is dropped or upgraded unless its own client holds it up |
| `http_shutdown` | `CleanShutdown` (violated) | 2 clients, the same requests, `stop()` from another thread | see below |
| `ui` | `UiTypeOK`, `AtMostOneSlipsThrough`, `GoneIsGone`, `JoinReturns`, `OnlyTheRunningHandlerGoesOn` | 2 clients, an upgrade and a malformed request, 1 identifier, 2 embedded windows or 1 browser; 663906 states | an accept handler between its test and its insertion is all that escapes `stop()`; joining ends, unless an upgrade finds no identifier; nothing runs on a destroyed server; after `stop()` the handler that was running goes on, and no other |
| `parser` | `TypeOK`, `HeaderThere`, `MethodIntact` | 2 connections, methods of up to 3 characters, 2 headers | a shared buffer is harmless for methods that come in one chunk; `headers.back()` is never used without a header |
| `links` | `TypeOK`, `AckFirst`, `ErrorsDieOut`, `OneLinkEach` | 3 pages, 2 ids, 1 call or text, with logging; 3450934 states | the Ack comes first, errors that are logged over failing connections die out, ids that wrap are not shared |
| `links_lost` | `LostClientReported` (violated) | 2 pages, 3 ids, no logging | see below |
| `codecs` | `ParametersStayPut`, `HeaderTellsCall` | 4 calls of 3 layouts in a buffer of 20 bytes | calls do not overwrite each other's parameters; what their headers are worth |
| | `DecodesBack` | up to 3 values of 6 kinds, for functions that declare these types or others | what a function gets is what the page passed, in order, up to the first boolean |
| | `ContentIsFile` | files of 0 to 9 and 13 bytes, integers of 2 bytes, blocks of 2, 3, 4 | no byte is lost or doubled at the borders of integers, blocks and file |
| | `UriRoundTrip`, `Base64Right`, `PaddingRight` | texts of up to 5 of 8 bytes, digests of 10 sizes around 55, 64, 119 and 128 | agreement with the definitions |

Why these bounds are enough.  *Decoder:* what matters of a size is its class
(7-, 16- or 64-bit length) and how it compares with what a read brings.  The
limits 126 and 65536 become 6 and 9, so that there are payloads of each class,
and one that is empty, that are cut at every byte; a medium payload of 8 has 16
bytes with its header, of which `Gentle` wants 14 in the first chunk; 16 bytes
per read hold more than the longest header (14) and less than the larger
frames.  Two frames suffice to lose the boundaries and three to get behind by
one and then by another.  The stray headers are an empty masked one, unmasked
ones, one with a longer field than its size needs, and one that `reserve`
refuses.  *Reads:* nine bytes for a buffer of 3 give full and partial reads,
and two of either kind in a row with a rest.  *Server:* connections interact
through the set, the acceptor and `run()` alone; two are one that acts and one
that suffers.  The requests are one per way through `handleRequest` and `write`
that connection handling tells apart; one identifier for two clients is one
upgrade that finds it and one that does not.  *Parser:* the two connections
share one buffer; three characters are one before, at and after the cut.
*Writes:* 6 bytes of socket hold a small frame with room left, or exactly one
of the middle sizes, and not the largest one, which is cut in two parts or
more; three frames are one that is cut, one that waits and one that could
overtake it; a page that reads 4 bytes frees room for a part.  *Ui:* two
windows are one that starts the server and one that finds it stopped; one
client can be caught between accept and insertion while another is served.
*Codecs:* one integer, one less and one more in files and blocks; texts of five
bytes contain an escape that is cut at each place, and each remainder by three;
the sizes of digests are those at which the padding changes; a buffer of 20
bytes takes one long call and a short one, or several short ones. *Links:* with
two ids and three pages ids wrap and run out; three pages are one that fails,
one that it is logged to, which fails in turn, and one that is fine.

Deadlock is not checked: each of these systems may come to rest (the page has
sent what it may send, `stop()` has returned, every client has been served).

Each property has a mutant: a variant of one definition, with a plausible bug
in that code, under which the same run violates the property.  They stand
before the definition they vary, marked `Mutant of`.

## Disagreements between code and text

Four runs show that something the repository states is not what the code does.

* `decoder_premature`: `parse` returns "true if the frame is complete"
  (`WebSocket.hpp:162`).  The test at line 206 compares the size of the chunk
  with what is missing *after* the chunk was appended.  A payload in three
  parts whose second one is at least as long as the third is delivered when
  the second arrives; the span has the announced size and reaches past the
  bytes that came.
* `writes_outgrown`: "A Frame decoded should retrieve the encoded parameters"
  (`test/MessagesTests.cpp:115`, with a frame that stays small).  The frame of a
  function call is constructed with 8 bytes of payload, a 2-byte header, and
  grows with its parameters; `addBuffer` (`WebSocket.hpp:145`) corrects the
  length, which from 126 on takes 4 bytes of header, but `buffers[0]` keeps 2.
* `http_shutdown`: "Ensure clean shutdown" (`WebFront.hpp:108`).  `stop()` on the
  destructor's thread closes a socket between the completion of a write and its
  handler, and the handler's `socket.shutdown` throws out of `run()`.
* `links_lost`: "Connection with client lost" (`WebFront.hpp:53`) is thrown by
  `addScript` when the link is not in the table; but nobody registers
  `WebSocket::onClose`, so that the `closed` event is never raised, links stay
  in the table, and `addScript` on a lost client returns normally.

Others are in the properties, as the condition under which something holds:

* Two frames that arrive in one read: what is behind the first is dropped
  (`WebSocket.hpp:188`, `290`).  `Gentle` excludes it; `ImplementsChannel` does
  not hold without.
* Bytes that arrive before the ones before were parsed: the second outstanding
  read overwrites `readBuffer` before the handler of the first has parsed it,
  however few bytes they are.  `paced` in `ParsedInOrder`.
* Nothing in the HTTP server times out: a client that sends half a request, or
  does not read its answer, keeps its connection.  `Held` in `EventuallyDropped`.
* With every identifier taken, the next upgrade looks for one for ever
  (`WebFront.hpp:100`), and neither `run()` nor `join()` returns.  `Spinning` in
  `JoinReturns` and `EventuallyDropped`.
* Two frames written before the first was taken: if it was taken in part, the
  second one's bytes may come in its middle.  `pacing` in `AloneStaysWhole`.  A
  rest is read from buffers whose handler has ended: `roomy`, in
  `ImplementsChannel`.
* A boolean parameter is never decoded (`Messages.hpp:337`): the item is neither
  assigned nor consumed, and so is nothing behind it.  The condition on
  booleans in `DecodesBack`.
* The header of a second call of a `JsFunction` announces the size of both, and
  once the calls fill 1024 bytes the next writes past the buffer
  (`JsFunction.hpp:24` resets the count alone).  `n = 1` in `HeaderTellsCall`,
  the guard of `Call`.
* `base64::encode` of a size that three divides ends in a `'\0'`
  (`Encodings.hpp:116`, `137`), and of less than two bytes does not end.  The
  library encodes 20 bytes: the condition of `Base64Right`.
* "Launch server only once or restart if previous thread ended"
  (`WebFront.hpp:167`): a thread that ended is still joinable; and where it was
  joined, by an embedded window that was closed, a new thread's `run()` returns
  at once, since `stop()` has closed the acceptor and nobody restarts the stopped
  `io_context`.  No handler answers the second window:
  `OnlyTheRunningHandlerGoesOn`.
* The default browser prints "Press Enter to close and stop the server"
  (`DefaultBrowser.hpp`), while `openAndRun` keeps the server (`WebFront.hpp:165`)
  until the destructor.  `UiTypeOK`, with `embedded`.

Met while modelling, with no property: `Header::isComplete` wants 14 bytes for
the 8-byte headers of medium frames (`WebSocket.hpp:84`), which is why `Gentle`
asks for 14; `FunctionReturn` inherits the `header()` of `FunctionCall` and is
sent with its command byte (`Messages.hpp:342`); the status line of every
response is written through one static string (`HTTPServer.hpp:213`);
`uri::encode` indexes its digits with a negative number for bytes from 128 on
where `char` is signed; a tuple counts itself and each of its elements as
parameters (`Messages.hpp:207`), as its tests expect.

## Fairness

* `FrameDecoder`: weak fairness of `ReadSome`.  The io_context runs the read
  handler as long as there is data, and each handler reads again.
* `WebSocketReads`: weak fairness of `ReadCompletes` (the kernel completes a read
  for which there are bytes) and of `Handler` (the io_context's thread runs).
* `HttpServer`: weak fairness of reads that have bytes or an error to report, and
  of writes whose connection was reset.  Any other write waits for the client to
  read, which no client has to do, just as none has to send the rest of its
  request; there is no timeout.  So `EventuallyDropped` is about each client
  apart: either it holds up its own connection for ever (`Held`), or the
  connection is dropped or upgraded, the server is stopped or dies, or an upgrade
  looks for an identifier for ever.  Weak fairness of handlers that have begun,
  and strong fairness of the accept handler and of the beginning of handlers: the
  queue of the io_context is FIFO, so that a queued handler runs, but it may be
  disabled again and again while others run.
* `WebSocketWrites`: weak fairness of the end of a handler, of completion
  handlers and of the reactor (the io_context's thread runs), and of the page's
  reads.
* `UiLifecycle`: weak fairness of the calls of `stop()`, of the join, of the
  accept handler, of handlers that have begun and of the end of `run()`, i.e. both
  threads are scheduled.  Nobody has to close a window or to destroy the object,
  and clients do what they like.
* `RequestParser`, `WebLinks` and the codecs: none; their properties are about
  safety.

## Proofs

Every theorem is for all values of the constants that satisfy the `ASSUME` of
its module: any sizes and limits (the limits of length classes need
6 <= SmallLimit <= MediumLimit, the read buffer at least 14 bytes), any buffer,
any finite set of clients, any set of connections, pages and ids, any layouts of
frames and calls, any lists of values and of declared types, any socket and
chunk size, any number of windows.

| Theorem | Run that shows it on an instance | Argument |
|---|---|---|
| `FrameDecoderProofs!TypeCorrect`, `BuffersStayInBounds`, `SpansStartReceived` | `decoder` | `SafetyInv`: `SpansHalfReceived` is not inductive by itself, since it says nothing of the bytes in the payload buffer; `Frontier` is the position before which all that was delivered lies, the start of that buffer or `pos` |
| `FrameDecoderProofs!GentleImplementsChannel` | `decoder` | `GentleInv`: with gentle cuts, frames are adjacent, and the decoder is at a known place in frame number `Len(delivered) + 1`.  A step of the decoder is `FrameChannel!Deliver` or a stutter, one of the page `Send` |
| `WebSocketReadsProofs!TypeCorrect`, `ReadsStayBalanced`, `NothingStaleIsParsed`, `PacedBytesInOrder` | `reads` (the last three) | `IInv`: `NeverStale` and `ReadsBalanced`, and that where a queued handler will look for a byte `readBuffer` holds it or a later one; `PacedInv`, on top: one buffer at a time is not yet taken, or completed by one read whose bytes are still in the buffer, or parsed |
| `HttpServerProofs!TypeCorrect`, `NoConnectionForgotten`, `UpgradeHandsOver` | `http_io` | `Inv`: what the operation and the socket of a connection say of its protocol; that a socket is accepted only while its accept handler is queued or runs, and one at a time (`AcceptedInv`); and, until `stop()`, that sockets are closed by their own handlers alone |
| `HttpServerProofs!OnlyTwoCausesEndTheServer`, `StopLeavesOneAccepted` | `http_io` | for `StopThread = "io"`: `EndInv`, on top of `Inv` |
| `HttpServerProofs!OneThreadRuns` | | as long as the server runs, nobody has called `stop()` (`UnstoppedInv`) |
| `RequestParserProofs!TypeCorrect`, `LastHeaderThere`, `MethodsIntact` | `parser` | the table's rows one by one (`RowFacts`); `TurnInv`: a connection that stands in its method and is not being parsed was interrupted there; `BufferInv`: what nobody disturbed is in the buffer, later in the method.  `Alone(c)` can only become false (`AloneBefore`) |
| `WebLinksProofs!TypeCorrect`, `LinksNeverShared` | `links` | `LinkInv`: a link in the table belongs to a page with a socket |
| `WebLinksProofs!ThreeReportsAtMost` | `links` | `BudgetInv`: errors reported, reads outstanding and whether the socket is started add up to at most 3 |
| `WebLinksProofs!AckComesFirst` | `links` | `AckInv`: until its handshake is handled nobody has a reason to write to a page, no sink and no UI object, unless its socket is closed and nothing reaches it |
| `WebSocketWritesProofs!TypeCorrect`, `WritesKeepOperation` | `writes` (the second) | `Inv`: `TakenInv` and `WireInv` say that what was taken of a frame is where its last part ends, `OneOperation` that the two queues hold each frame that is not whole once, `PageInv` where in the stream the page reads.  Every step that hands a frame to the socket goes through the lemma `AsyncStep` |
| `WebSocketWritesProofs!AloneWritesStayWhole` | `writes` | on top: when a frame is written alone, all before it are whole, so that a part is always one of the last frame |
| `WebSocketWritesProofs!RoomyImplementsChannel` | `writes` | with room a frame is taken whole by its `write`, while its buffers live: that step is `FrameChannel!Send`, a read of the page that ends a part `Deliver` |
| `UiLifecycleProofs!UiTypeCorrect`, `OneSlipsThrough`, `NobodyUsesTheGone`, `NoHandlerAfterStop` | `ui` | `UiInv`, on top of `HttpServerProofs!Inv` as long as the object lives: `AppInv`, what the program's place says of thread and server; `SlipInv`: once the acceptor is closed, an accept handler under way and an open socket that `stop()` will not reach exclude each other |
| `CodecsProofs!CallsTypeCorrect`, `ParametersUndisturbed`, `HeadersTell` | `codecs` (the last two) | `CallsInv`: frames lie one behind the other below the index (`Laid`), and the header in the object is the last call's but for the size (`LastTold`) |
| `CodecsProofs!ParametersDecoded` | `codecs` | `DecodeInv`: what is left in `data` are the items of a list w of values, and w, its tuples taken apart, is what is left of the passed values behind the decoded ones (`Remaining`); with the declared types either the types that are left are those of w (`Aligned`), or w begins with a boolean that stays (`Stuck`).  Decoding takes one value or one tuple off the front of w (`FrontSimple`, `FrontTuple`), because flattening two lists is joining the flattened ones (`FlattenJoined`) |
| `CodecsProofs!FileServed` | `codecs` | for blocks that are a multiple of the integer: `FileInv`: the index is the size of content and block, and the end is seen when it is reached (`PlaceInv`); a block begins at the border of an integer, so that its first byte loads one, or the file has ended; inside an integer the loaded one is the one that is read (`BytesInv`) |
| `CodecsProofs!UriRestored` | `codecs` | `FlattenPlaces` says where in the encoded text each byte's escape lies; `DecodesEscaped`, that one turn of `decode` takes an escape for its byte; then backwards from the end, `Rest` by `Rest` (`EscapesUndone`) |
| `CodecsProofs!DigestsEncoded` | `codecs` | a byte is its bits (`BitsOfByte`), a group of three bytes four digits of six bits (`DigitsOfGroup`); whole groups are placed by `FlattenPlaces`, and the last one is the definition's with the missing bytes as zeros (`LastCoded`) |
| `CodecsProofs!ShaPadded` | `codecs` | `ShaInv`: what was fed so far is what the definition has at that place (`MarksInv`), and each phase ends where the definition's does, whether a block has room for the length or not (`PhaseInv`) |

Only model-checked, on the instances above: the liveness properties
(`EveryFrameDelivered`, `EveryByteParsed`, `EventuallyDropped`,
`EveryFrameTaken`, `JoinReturns`), which need ENABLED and fairness; and the
violated statements, which need a counterexample, not a proof.  Every other
property of a passing run is a theorem.

The library's induction theorems take an operator, which the provers here
cannot instantiate.  What a fold (`FlattenSeq` in `UriEncode` and `Items`) or a
recursive function (`UriDecode`) returns is proved all the same, by induction
stated for sets: `NatInd` of `CodecsProofs` says that a set with 0 and every
successor holds all natural numbers, from the well-foundedness of `<`; and each
induction is the set of the numbers for which the claim holds.

## What is not modelled

Of the repository's 20288 lines of implementation 12752 are generated byte arrays
(`BabelFS.hpp`, `JasmineFS.hpp`, `ReactFS.hpp`), and most of the others belong to
the programs and back ends listed here, so that the share of lines the models
account for is small whatever is modelled of the library's own logic.

* *Networking back ends*: aliases of asio's types, and mocks.  What asio
  guarantees is assumed, at the actions that `PROJECT.json` marks external.
* *The page*: its Javascript is a compressed array in `IndexFS.hpp`; its part of
  the protocol is modelled from how the server uses it.
* *MIME types, hex dumps, path utilities, compiler support, type-erased
  functions*: stateless, or unused.
* *Embedded files*: generated data.  *CEF and the system's browser*: external
  programs; `CEF.hpp` is the glue that starts one.  `UiLifecycle` has what
  `openAndRun` sees of them.
* *The legacy server* in `src/webfront/`: no target of the build has it, and no
  header of the library includes it.
* Of the messages: nested tuples, texts of 65536 bytes and more, tuples of 256
  elements and more (their sizes are not cut here), and the length of a
  `TextCommand`, which is cut to 16 bits.  Of the file system: `NativeFS` and
  `Multi`'s search.  Of the encodings: SHA-1's compression function, which is
  arithmetic with test vectors, and the class `URI`, which nothing uses.
* Lifetimes of C++ objects that an application passes in (`cppFunction` keeps a
  reference to its callable), and the contents of texts and log lines.
* The iterator of `stopAll`, which another thread's handlers invalidate: the
  model iterates over a snapshot of the set (`toStop`), i.e. over one of the
  outcomes.
* A write that fails while another waits: `WebLinks` has errors with whole
  messages, `WebSocketWrites` parts without errors.

## What is left

All components with a behaviour of their own are modelled.  In order of what they
would add:

1. Errors in `WebSocketWrites`: a reset between two parts, with `stop()` called by
   the first error handler while other writes are queued.
2. `WebSocketReads` composed with `FrameDecoder`: the cuts that two reads on one
   buffer produce, as the segmentation of the decoder.
