# TLA+ models and proofs for ulxmlrpcpp

ulxmlrpcpp is an XML-RPC library: a client (`Requester`) and a server
(`Dispatcher`, `MultiProcessRpcServer`) that talk HTTP (`HttpProtocol`) over TCP
or SSL (`TcpIpConnection`, `SSLConnection`). This directory models a call on its
whole way: how a connection comes about, how requests and responses share it, how a
message is framed, what its header says, how its XML becomes values, which method
it finds, and which process of the server serves it. TLC checks the models on small
instances; TLAPS proves for every size the safety of the pool, the connection, the
exchange, the dispatcher, the SSL connection, the framing, the header and the parser:
every safety property that the runs check is also a theorem, but for `ReadAsWritten`.

All paths below are relative to `src/ulxmlrpcpp/`. `PROJECT.json` lists for
every definition that models code the lines it stands for.

## 1. Inventory

| Component | State | Operations | What makes it correct |
|---|---|---|---|
| `MultiProcessRpcServer` (`ulxr_mprpc_server`) | process pool, dispatcher, listening sockets until `start()` returns | constructor, `start`, handler loop, `terminateAllHandlers`, `waitForAllHandlersFinish`, destructor | one handler per client; a client is answered once; no client is left in a queue nobody reads; the pool really stops |
| `TcpIpConnection` (`ulxr_tcpip_connection`) | listening sockets (IPv4 and/or IPv6, shared and counted), peer data | `open` (IPv6, then IPv4), `accept` (select, then a blocking `::accept`), `stopServing`, socket options | `accept` does not starve a family; a failed `open` leaves nothing behind |
| `Connection` (`ulxr_connection`) | `fd_handle`, timeout | `read`, `write`, `close`, `setHandle` | `isOpen()` tells the truth after every error path |
| `SSLConnection` (`ulxr_ssl_connection`) | `theSSL` beside `fd_handle`, context | `open` with handshake, `accept`, `close`, SSL reads and writes | `theSSL` and the descriptor live and die together |
| `Protocol`, `HttpProtocol` (`ulxr_protocol`, `ulxr_http_protocol`) | header state machine, header fields, content length and what remains of it, credentials, cookies | `readRaw`, `connectionMachine`, `machine_switchToBody`, header composition, `checkAuthentication` | what is handed on is exactly the content, however TCP cuts the stream |
| `Requester` (`ulxr_requester`) | its protocol, one connection | `send_call`, `waitForResponse`, `call` | a call returns its own answer, and returns |
| `Dispatcher` (`ulxr_dispatcher`) | method registry, invocation counters, enabled flags | `waitForCall`, `dispatchCall`, `addMethod`, `removeMethod`, system methods | the method called is the one registered for the signature; nothing escapes the exception barrier |
| parsers (`ulxr_valueparse*`, `ulxr_callparse*`, `ulxr_responseparse*`, on `ulxr_xmlparse*`, `ulxr_expatwrap`) | stack of parser states that hand values to each other | start tag, end tag, character data | every parsed value is freed once and ends where it belongs |
| data types (`ulxr_value`, `ulxr_call`, `ulxr_response`, `ulxr_signature`) | typed values | conversions, `getSignature` | accessors respect the type; signatures agree between call and registry |
| `ulxr_except`, `ulxmlrpcpp` | error codes, process-wide flags | string helpers | – |

### How they interact

* The server's parent creates a `TcpIpConnection` that listens, gives it to an
  `HttpProtocol`, that to a `Dispatcher`, and forks. Every handler has a copy of
  all of these; the listening sockets and their accept queues are shared through
  the kernel. The parent then closes its own listening sockets (`stopServing`).
* A handler calls `Dispatcher::waitForCall`: `accept` if its connection is not
  open (it never is, see `FreshDescriptor`), then the read loop over `readRaw` and
  `connectionMachine`, feeding the XML parser. It dispatches the call, writes one
  response and closes. Four `catch` clauses write an error response if the
  connection is still open, and close.
* A `Requester` opens a connection if it has none, or uses the one it has, writes
  the request, runs the same read loop for the response, and closes.

### Where it gets hard

* Handlers race for clients between `select` and `::accept`, on two families.
* Handlers prefer IPv6, and each of their reads has a timeout of its own: others wait as
  long as clients keep coming on IPv6, or go on sending.
* `waitpid` can fail, and the server then forgets a handler that lives.
* Handlers can be killed at any point, or end by an exception out of a `catch`
  clause; nobody replaces them; `fork` can fail midway through the pool.
* `::close` can fail, after which `fd_handle` is stale but `isOpen()` is true.
* Reads and writes end by timeouts that leave the connection open, with half a
  message on it; TCP delivers the other half, or a late response, later.
* TCP may cut a message anywhere; content lengths may be wrong, missing, repeated
  or negative.
* Parsed values are passed on by pointer between the states of a parser, with a flag
  that says who deletes them, and exceptions may come between any two callbacks.
* Nobody asks whether the XML was complete when the content is.
* Names are written into the XML as they are.
* The dispatcher's table is copied at `fork`, and may be changed afterwards; it owns
  objects; `removeMethod` uses an iterator to what it has erased.
* `theSSL` lives beside `fd_handle`, and each of them may survive a failure without
  the other; a connection may stand on which no handshake ever begins; header fields,
  credentials and cookies outlive the call they were for.

The full list, line by line and with the properties aimed at each, is "hazards"
in `PROJECT.json`.

## 2. Modules

    HandlerService            abstract: what a server promises its clients
      ^ implemented by
    AcceptPool   <- MCAcceptPool             the pre-forked pool
      ^ AcceptPoolProofs                     types, safety, implements HandlerService
      ^ PoolClients                          clients without end, sending in parts: liveness
    RpcExchange  <- MCRpcExchange            one requester against the pool
      ^ RpcExchangeProofs                    types, order and place of messages, safety
    TcpConnect   <- MCTcpConnect             how a requester gets a connection
      ^ ProtocolProofs                       types, spoiled calls
    SecureCall   <- MCSecureCall             authenticated calls over SSL
      ^ SecureCallProofs                     theSSL, authorisation, credentials
    HttpFraming  <- MCHttpFraming            one message out of one stream
      ^ HttpFramingProofs                    exact delivery, conformance
    HttpHeader   <- MCHttpHeader             cookies and credentials, call by call
      ^ ProtocolProofs                       fields, credentials, cookies both ways
    XmlRpcValues                             values, calls, responses, signatures
      ^ XmlRpcXml                            their XML: its parts, and what it means
          ^ XmlRpcWriter                     getXml of nested values (recursive)
          ^ XmlRpcDocuments                  the grammar, and what a document says
          ^ ValueParser                      the parsers' callbacks
              ^ MessageParsing <- MCMessageParsing   one message through a parser
                  ^ MessageParsingProofs     types, ownership, ignored elements
                      ^ DecodingProofs       decoding, cut messages, leaks
      ^ Dispatcher <- MCDispatcher           the table of methods, forked
          ^ DispatcherProofs                 types, ownership, system methods

`MCMessageParsing` also extends `XmlRpcWriter`, whose recursive operators are kept away
from the modules with proofs, and `XmlRpcDocuments`, as `MessageParsingProofs` does; in
the proofs the documents are a constant. `ProtocolProofs` is about two modules that do not
interact; the specification of `TcpConnect` is called `ConnectSpec` to keep them apart.

`a ^ b` below it reads: `b` extends `a`; `<-` names the module that instantiates for
TLC. Operators named `X_Something` right before an operator `X` are variants of `X`
with a plausible bug; each property is known to fail when the variant named in
`PROJECT.json` ("mutants") takes the place of `X`.

### HandlerService

A connection is `idle`, `waiting`, `taken` or `done`; a handler holds at most one.
`Arrive`, `Take`, `TurnAway` (nobody listens any more) and `Finish`. A connection
never goes back, never changes hands, and is never held twice.

### AcceptPool

| Code | Model |
|---|---|
| parent in `start()`, `terminateAllHandlers()`, `waitForAllHandlersFinish()`, destructor | `parent`, `pool`, `startFailed`; `Fork`, `ForkFails`, `StartReturns`, `KillHandler`, `ReapHandler`, `WaitFails`, `LoopDone`, and the application's choice among `TerminateAllHandlers`, `WaitForAllHandlersFinish`, `Destroy` |
| the parent's copy of the listening sockets | `serverData` |
| accept queues in the kernel | `backlog[family]`; the last holder's end resets them (`EndConnections`) |
| handler loop | `pc`: `loop`, `select`, `accept`, `read`, `reply`, `close`, and in a catch clause `recover`, `recoverClose` |
| `waitForConnection` | `Select`: any queue with a client, IPv6 first |
| `::accept` | `Accept`, blocking on the family that `Select` chose; `AcceptFails` |
| `fd_handle`, and a `close()` that failed | `fd`, `stale` |
| `Connection::close` inside `read` (end of file) and `write` (EPIPE) | `ReadEof`, `SendBrokenPipe` through `CloseConn` and `CloseThrows` |
| exceptions with the connection open | `CallFails`, then `SendErrorResponse`, `RecoverClose` |
| an exception out of a catch clause, `_exit(1)` | `ExitHandler` |
| SIGKILL from the parent | `signalled`, `Killed` |
| responses on the wire | `tried`, `answered`, per connection |

`WaitFails` is the `waitpid` whose result nobody looks at: an interrupted call erases the
pid of a handler that lives (`forgotten`). Clients connect once, on either family, and may
hang up at any time. The properties:

* `FreshDescriptor` – a handler goes to accept with no connection in hand, so the
  branch of `waitForCall` that would read another call from an answered connection
  is never taken in the pool.
* `AnsweredOnce` – no client gets two complete responses, and nothing is written to
  it more than twice: the catch clauses answer only where the response failed or the
  descriptor is gone.
* `SomeHandlerReady` – handlers that lost a race block in `::accept` and are deaf to
  the other family, but never all of them on empty queues.
* `NoOrphans` – after `start()`, a client waits only where a handler lives.
* `NoSilentDrop` – a living handler lets go of a client only after trying to answer it
  or after the client closed.
* `ServiceSpec` – the pool implements `HandlerService`, with the peer state as status
  and the descriptor, unless stale, as holder.
* `DestroyedSignalled` – once the destructor has returned, every handler that still
  lives has been told to end, unless a failed `waitpid` has forgotten it. (It may still be
  serving: nobody waits for it, see section 3.)

### PoolClients

`AcceptPool` with clients that come for ever (a connection that is over is used again for
the next client) and send their calls in parts, `SendPart`. A handler reads a part and
reads on (`ReadPart`), or has the rest of the call (`ReadRest`), or its read times out or
fails (`ReadFails`); everything else is `AcceptPool`'s. The two liveness properties are
what can be said of a server that prefers IPv6 and times single reads:

* `TakenFinished` – a client keeps its handler for ever only if it goes on sending for
  ever: a silent one is timed out, and after a failure at any later point, a failing
  `close` among them, the handler lets go or ends.
* `WaitingServed` – a client waits for ever only if from some point on no handler is
  free (each has ended, reads from a client that keeps it, or is blocked in `::accept` on
  an empty queue), or if it waits on IPv4 while handlers go on taking clients from IPv6.

### RpcExchange

One application thread, one `Requester`, one connection at a time; each TCP
connection has a handler of its own, which is how the pool looks from outside
(`PoolClients` shows when a waiting connection gets one). Messages are whole, or
`Stump`s where a timeout cut them off, and queue up in each direction.

| Code | Model |
|---|---|
| `send_call` | `SendCall` (open or reuse, write all or up to a timeout), `SendBroken` (EPIPE) |
| `waitForResponse` | `ReceiveResponse`, `ReceiveGarbled` (a message read as the rest of another), `ReceiveTimeout`, `ReceiveEof`, `ReceiveReset` |
| `Connection::close`, and the paths that do not close | `CloseHandle`, `KeepHandle` |
| an application that calls `closeConnection()` after an exception | `CloseAfterThrow`, if `appCloses` (chosen at the start) |
| `startChildLoop`, one pass | `phase[j]`; `AcceptConn`, `ReadCall`, `ReadGarbled`, `ReadTimeout`, `ReadEof`, `Execute`, `CallFails`, `Reply`, `Recover`, `CloseConn` |
| closing with unread data | `reset` |

Properties: a wrong answer can only be a late one (`WrongAnswerIsLate`); no call runs
twice, no answer is returned twice and none for a call that has not run
(`AtMostOnce`); a handler never runs a second call on its connection
(`OneCallPerConnection`); with an application that closes after exceptions every
answer is the call's own (`OwnAnswer`); calls and handlers end (`CallsEnd`,
`HandlersEnd`). A statement of the headers does not hold (`MethodsResponse`).

An application that closes makes `NumClosing` calls, the other `NumCalls` (`Planned`).

### TcpConnect

The requester calls again and again; the host's servers come and go on each family
(`healthy`). The socket behind `fd_handle` is `connecting`, `established`, `failed`
(an error is pending), `dead` (unconnected, nothing pending) or `none`.

| Code | Model |
|---|---|
| `send_call`: `isOpen()` or `open()` | `SendCall` |
| `open`: `socket`, `setHandle`, `connect`, IPv6 first | `Attempt`, `NoSocket`, `OpenThrows` |
| `connectNonBlocking`: `select` | `SelectWritable` (no `SO_ERROR`), `SelectGivesUp` |
| `getpeername` | `GetPeer` |
| `Connection::write` | `WriteRequest`, `WriteTimeout`, `WriteFails` (closes on EPIPE only) |
| `waitForResponse` | `ReceiveResponse` |
| an application that closes after an exception | `CloseAfterThrow`, if `appCloses` |
| end of a connect, reset | `Resolve`, `Reset` |

`SpoiledAtMostTwo` – a socket that is lost, in `open` or later, makes at most two more
calls throw that do not even try to connect: one meets the pending error, after which the
socket is kept, one EPIPE, which closes it. `GetsThrough` – when the host is well again, so
are the calls, whatever the bad times have left in `fd_handle`. This needs an application
that does *not* close after exceptions: one that does throws the half-open socket away each time, and if to
connect takes longer than the timeout it never gets one. (Closing is what keeps late
answers out, `OwnAnswer` of `RpcExchange`, and what keeps calls unspoiled; the price is here.) One
statement of the headers does not hold (`FallbackTried`).

### HttpFraming

A stream is a sequence of tokens (line ends, blanks, header texts, content bytes).
`Read(n)` is `Protocol::readRaw` with any `n` that TCP may deliver; the `Machine...`
actions are the cases of `HttpProtocol::connectionMachine`, one round of its loop
each; `SwitchToBody` is `machine_switchToBody` with `determineContentLength`;
`Parse`, `EndOfChunk` and `Check` are the read loop of `waitForCall` and
`waitForResponse`. What a message means is stated separately on the whole stream
(`HeaderEnd`, `DeclaredLength`, `Content`, `Conforming`), and the incremental machine
is compared with that.

Properties: `DeliveredExact` (what is handed on is the declared content, however the
stream was cut), `ConformingDelivered` (a conforming message gets through),
`LoopEnds`. A message without `Content-Length` is not delivered, by end of file or
otherwise; its stream is among those of `framing`.

### XmlRpcValues, XmlRpcXml, ValueParser, MessageParsing

`XmlRpcValues` has the classes of `ulxr_value`, `ulxr_call`, `ulxr_response` and the
signatures as records with their operations; an exception is a result (`Exc`).
`XmlRpcXml` and `XmlRpcWriter` are every `getXml`, as a function to the tokens that
expat reads (opening tag, closing tag, text), with the two switches for pretty printing
and scientific doubles, and the conversions from text: `strtol`, which saturates at a
`long` of `LongWidth` bits, cut down to an `int` of `IntWidth` bits, `atof`, the five words for true. Text that goes through
`xmlEscape`, or has nothing to escape, is `Literal`; a name goes out as it is, `Raw`, and
becomes what expat makes of its markup (`Unquoted`): other characters, other elements, or
an error. `ValueParser` is the callbacks, each an
operator from a parser to a parser; `MessageParsing` feeds one message to one.

| Code | Model |
|---|---|
| `states`, a stack of `ValueState` | `parser.stack` |
| `ValueState::value`, `candel`, `mem_val` | `ptr`, `del`, `mem`; pointers are places in `parser.heap` |
| `new`, `delete` | `New`, `Delete`, which notes a second `delete` in `doubleFree` |
| `takeValue`, `takeName` and the overrides of members and arrays | `takeValue` over `StateTakesValue`, `MemberTakesValue`, `ArrayTakesValue`; `takeName` |
| `testStartElement` of the three parsers | `Opens(kind)`, `startElement` |
| `testEndElement` and `assertEndElement` of the three parsers | `endElement`, `ValueEnd`, `CallEnd`, `ResponseEnd` |
| `charData`, in pieces as expat likes | `ReadText(n)` |
| the parser's destructor, on return and on unwinding | `DestroyParser`, `Destroy` |
| the read loop's end | `EndOfContent`; `ParserResult` is `getMethodCall`, `getMethodResponse`, `getValue` |

`XmlRpcDocuments` says the same apart from the code: which sequences of tokens are
XML-RPC (`Grammatical`: element names and what may be in what, type tags and members'
order left free as the parser leaves them) and what such a document stands for
(`Meaning`, a recursive function over its elements: the name and the parameters of a call,
the value or fault of a response). It knows neither stack nor pointers, and does not care
in which pieces a text comes. Two habits of the code are in it, as they are part of what is
promised: an empty name that comes before its value is no name, and of two members with one
name the first counts (`addMember` inserts).

Faults of a message, at most `MaxFaults`: an element nobody expects (`InsertElement`,
inside the root element, as expat lets nothing follow it),
a content that ends before its XML (`EndOfContent`), an exception of the connection
(`ConnectionException`).

Properties: `Decoded` compares what is decoded with what the document says
(`Received` says where `getXml` is not one to one: void vanishes, a double is what
its numeral says, an integer has its width); `ReadAsWritten` with what was written, which
comes through if and only if no name has markup in it; `PrefixDecoded` says what a cut message is
taken for; `AcceptedUnderstood` that no message with an unknown element is accepted;
`NoDangling` and `FreedOnce` (with its part `DeletedOnce`) are about who deletes what. A comment about `candel` does
not hold in one case (`NoDoubleFree`).

### Dispatcher

| Code | Model |
|---|---|
| `methodcalls` of each process | `methods[p]`, keyed by name and signature, empty ones as `void` (`Key`) |
| objects of `make_method` | `live[p]`, `fresh`; `refused` notes those whose `addMethod` threw |
| `addMethod`, four kinds | `AddStatic`, `AddDynamic`, `AddDynamicThrows`; `setupSystemMethods` |
| `removeMethod` | `RemoveMethod` (any non-empty part of the overloads, an assumption: the iterator is invalid), `RemoveMethodCrashes` |
| `setEnabled` | `setEnabled` |
| `fork` in `start()` | `Start`, which copies table and memory |
| `~Dispatcher` | `Destroy`, `Free` |
| `dispatchCall`, system methods, exception barrier | `Dispatch`, `Responses`, `System` |

Properties: `WrappersOwned` – a registered wrapper is alive in each process and belongs
to one method, nothing is deleted twice, and only refused wrappers are lost;
`ListedIsCallable` – `system.listMethods` and `system.methodSignature` agree with what a
call finds; `AnswersAgree` – handlers that have not been outdated know the same methods.

### SecureCall

A requester over SSL makes calls for changing users; connects, handshakes, reads and
writes fail at every point.

| Code | Model |
|---|---|
| `fd_handle`, a failed `::close`, `theSSL` | `fd`, `stale`, `theSSL` (`none`, `handshaking`, `established`, `broken`) |
| `SSLConnection::open`, `createSSL`, `handshakeNonBlocking` | `Open`, `OpenThrows`, `CreateSSL`, `CreateSSLThrows`, `Handshake`, `HandshakeThrows` |
| the kernel completes a connect that `open` has given up | `ConnectedLate` |
| `SSLConnection::close` | `Closed` (frees `theSSL` after the socket), `CloseThrows` (does not come to it) |
| `setMessageAuthentication`, `userTempFields`, `sendRequestHeader` | `userTempFields`; `CallMethod`, `Compose` |
| `write`, `read`, responses 200 and others | `SendRpcCall`, `WriteThrows`, `ReceiveResponse`, `ReceiveRejection`, `ReceiveEof`, `ReceiveTimeout` |
| `SSLConnection::accept` of a handler, `resetConnection` | `AcceptConn`, `AcceptSSL`, `AcceptSSLThrows`; `ClearHttpInfo` |
| `waitForCall`, `checkAuthentication`, `rejectAuthentication`, catch clauses | `ReadCall`, `ReadThrows`, `Execute`, `Refuse`, `Reply`, `ReplyThrows`, `Recover`, `CloseConn` |
| an exception out of a catch clause: `_exit` | `HandlerExits` |

A TCP connection stands before anything is said on it, and may stay silent: `open` throws
after the kernel has connected or before it does, or `createSSL` throws. A handler that
takes such a connection waits in `SSL_accept` until the requester closes it.

Properties: `SSLWithSocket` – an SSL object never outlives its socket except where
`::close` failed, and none is found where one is to be made; `OpenHasSSL` – a call that
finds the connection open has an SSL object to write with (for an application that
closes after exceptions); `ExecutedAuthorised` – a call runs only with credentials the
server knows *and* that came with this very message; `OthersCredentials` – a call goes
out with another user's credentials only after a call for that user had thrown before
its header was composed; `CallsEnd`, `HandlerFreed`.

### HttpHeader

Both ends keep their `HttpProtocol` from call to call. Texts are sequences of atoms with
the separators that parsing looks for.

| Code | Model |
|---|---|
| `setClientCookie` | `setClientCookie` |
| `setMessageAuthentication`, `sendRequestHeader` | `CallMethod`: `Authorization`, `sendRequestHeader`, `AfterProxy` |
| `accept`, `clearHttpInfo`, `parseHeaderLine`, `setCookie` | `WaitForCall`: `Received`, `HeaderProps`, `setCookie` |
| `getUserPass`, `fromBase64`, `checkAuthentication` | the same names; a text longer than a line (`LineOctets`) is cut by its line feed |
| `getCookie`, the server's cookie, `sendResponseHeader` | `SendResponse`, `RejectAuthentication` |
| `waitForResponse` | `WaitForResponse` |

Properties: `CookiesOwn` and `CookiesReturned` (each client gets its own cookies back,
whoever called in between), `CredentialsJudged` (every call is judged by the credentials
it came with), `FieldsArrive` (which fields may be lost, and behind what).

## 3. Runs

| Run | Module, bounds | Question |
|---|---|---|
| `pool_safety` | `AcceptPool`: 2 handlers, 2 clients, both families, close and fork may fail, the pool may be stopped at any time | all safety properties and the refinement |
| `pool_liveness` | `PoolClients`: the same with clients without end that send in parts; the pool is not stopped | who may wait for ever, and who may hold a handler for ever |
| `exchange` | `RpcExchange`: 3 calls, 2 if the application closes | what can go wrong with answers, and what cannot; nothing waits for ever |
| `exchange_late` | 3 calls, the application does not close | a call returns another call's answer |
| `connect` | `TcpConnect`: both families, endless calls, applications that close and others | how much a lost socket costs; recovery |
| `connect_fallback` | the same | a header statement, refuted |
| `framing` | `HttpFraming`: 20 streams in all line-end styles, every way of cutting them up | exact delivery |
| `parse` | `MessageParsing`: 34 messages (calls, responses, a value, in two formats and as other implementations write them, with markup in strings and names), 2 faults, `int` of 4 bits and `long` of 5, text in pieces of up to 3 | decoding, ownership |
| `parse_abort` | the same | a comment about ownership, refuted |
| `dispatch` | `Dispatcher`: 2 handlers, 2 wrappers, 3 overloads of a name, 3 calls | ownership, agreement, the system methods |
| `secure` | `SecureCall`: 2 calls, a known and an unknown user, an application that closes | SSL, credentials, termination |
| `headers` | `HttpHeader`: 2 clients, one behind a proxy, one accepting cookies; 3 credentials, 4 cookie texts, lines of 7 octets | cookies and credentials |

**Why the bounds are enough.** Two handlers are the smallest pool with a loser of
an accept race, two clients and two families the smallest that lets the loser be
deaf to one while the other is served; the interactions of the parent are with each
handler alone. A client that comes back when it is done is as good as a new one, so two
connections are clients without end, enough for a stream on IPv6 that passes by one on
IPv4. What holds of the pool for safety is also proved for every size
(section 5), and so is the safety of `RpcExchange`, where one call that leaves
something behind, one that meets it and one after that with a fresh connection make
three; closing separates the calls, so two do. `TcpConnect` and `HttpHeader` need no
bound on calls: their state is finite with calls without end. In `HttpFraming` the
buffer (18) is longer than most streams, so header and content share a buffer in some
behaviours, and `Read` may also return a single token, so they are cut at every place in
others. In `MessageParsing` the messages nest arrays in arrays, structs in structs and
each in the other, and hold every type; two faults are one more than a message needs to
go wrong and one to abort it there. Four bits make an `int` that nine overflows, five a `long` that 99 does. Three kinds of
markup in names are refused, read as another character, and read as other members. Two of
the three overloads in `dispatch` have the same key, and two wrappers are one to
register and one to be refused. In `secure` one call leaves something behind and one
meets it; its safety properties are proved for every number of calls. Seven octets are a
line of base64 that one of the credentials fills, and one exceeds.

`CHECK_DEADLOCK FALSE` is there because the clients, the application, the calls or the
message of those models are finite: the systems do stop. `TcpConnect` and `HttpHeader` do
not, and their runs check for deadlock.

**Types.** Each module has one type invariant. It is proved (`PoolType`, `ExchangeType`,
`ConnectType`, `TableType`, `TypeCorrect`), or part of the proofs' invariants
(`FieldsType` and `SocketInv` for `SecureCall`, `Window` and its companions for
`HttpFraming`, `TypeInv` for `HttpHeader`).

**Facts about the constants.** `MCHttpHeader` assumes `CookiesUnderstood` (the table that
says what a cookie's text means agrees with `setCookie`) and `MCMessageParsing` assumes
`RootsExpected` (each document opens with the root of its kind), `AllGrammatical` (each
keeps to the grammar) and `AllMean` (each means what its elements say: so what `getXml`
writes of a value with plain names has that value, as `Received` puts it, for its `Meaning`); TLC evaluates
them, and the theorems that need them have them as hypotheses. `MCHttpFraming` likewise says which
of its streams conform.

**Fairness.** `PoolClients`: weak fairness of each handler's own steps and of `Start` is
the scheduler, the timeouts of single reads and writes (10 s by default,
`ulxr_connection.cpp:58`) and user methods that return; a call need never end, as
each part of it that comes makes a new read. `Accept` is strongly fair, as `AcceptFails`
competes with it (a process that is out of descriptors is so only for a time). Clients
need not come, send or hang up. `RpcExchange`: the
requester reads what there is to read, each handler is scheduled and times out. The
requester's timeout is *not* assumed to fire, so that `CallsEnd` shows that
requester and handler never wait for each other. `TcpConnect`: the
application calls again, selects and reads end by their timeouts, the kernel gives up an
attempt to connect at last, and `Attempt` is strongly fair, as `NoSocket` competes with
it. `HttpFraming`: the loop is scheduled and a read with nothing more to come fails (end
of file or timeout). `SecureCall`: the requester goes on (its connects and handshakes end
by their timeouts, but its timeout for a response is not assumed) and the handler is
scheduled; the kernel need not complete a connect that was given up. That `HandlerFreed`
holds rests on `AppCloses`: a client that neither speaks nor closes would keep a handler
in `SSL_accept` for ever.

**What the failing runs show.**

* `exchange_late`: after a timeout the connection stays open, `send_call` uses it
  again and takes the late response as the new call's. Closing the connection after
  every exception avoids it (`OwnAnswer`).
* `connect_fallback`: `select` reports a refused socket as writable, which
  `connectNonBlocking` takes for connected; `getpeername` throws and IPv4 is not tried. A
  host name with both families and a server on IPv4 only is out of reach in this way.
* `parse_abort`: a `MemberState` shares the struct of the state below it. When the first
  member ends, the struct state takes the struct back as one it may delete; the second
  member's state may delete it as well. If the message ends or the connection fails
  within that member, the destructor deletes the struct from both. Whole messages are not
  affected (`FreedOnce`).

**Divergences seen in the models without a run of their own.**

* `ulxr_tcpip_connection.h:160` promises an accept that does not block after
  `waitForConnection`; another handler may take the client in between.
* `terminateAllHandlers` forgets each handler as it signals it, so the destructor
  neither waits for them nor reaps them (`ulxr_mprpc_server.cpp:225`).
* `ulxr_mprpc_server.h:77` says that the destructor forces all handlers to stop; one that
  an interrupted `waitpid` has forgotten goes on (`ulxr_mprpc_server.cpp:235`).
  `DestroyedSignalled` is stated up to that.
* `accept` takes clients on IPv6 first (`ulxr_tcpip_connection.cpp:518`), and the timeout
  is that of each read (`ulxr_dispatcher.cpp:323`): a client on IPv4 may starve, and one
  that sends a little now and then keeps its handler. `WaitingServed` and `TakenFinished`
  are stated up to these.
* Names are written without `xmlEscape` (`ulxr_value.cpp:1275`, `ulxr_call.cpp:120`),
  although `ulxmlrpcpp.h:190` says that markup must be converted: a name with `<` makes a
  document the reader refuses, one with `&lt;` is read as another name, one with
  well-formed tags as other members. `ReadAsWritten` says that this is the only way in
  which what is written is not what is read.
* A superfluous line end that arrives with the content makes the remaining length
  -1, "unknown", and a complete message is not delivered (`ulxr_http_protocol.cpp:342`).
* A failed `open` leaves a descriptor without `theSSL`; an application that does not close
  comes to `SSL_write` with a null pointer (`ulxr_tcpip_connection.cpp:483`); hence
  `secure` has an application that closes.
* `SSL_accept` has no timeout (`ulxr_ssl_connection.cpp:408`); `HandlerFreed` is about
  peers that close after an exception.
* No line end follows `Proxy-Authorization`, which swallows the next field
  (`ulxr_http_protocol.cpp:451`); base64 of long credentials has line feeds in the header
  (`ulxr_http_protocol.cpp:646`); the server's cookie stays until the next is set
  (`ulxr_http_protocol.cpp:415`). `FieldsArrive`, `CredentialsJudged` and
  `CookiesReturned` are stated up to these.

## 4. Abstractions

Kernel and clients of `AcceptPool`, TCP in `RpcExchange`, OpenSSL in `SecureCall` and
libc's numerals in `XmlRpcXml` are external: modelled from how the code uses them (accept
queues, reset of queues at the last close, EPIPE after the peer has closed, reset when a
socket is closed with unread data, a handshake that needs both sides).

* `AcceptPool`: content, credentials and XML are not modelled; where an exception may come
  from them it may come at any time. Left out are the accept timeout (the pool waits
  without one), signals other than SIGKILL and the no-op hooks.
* `PoolClients` leaves out what a client sends after its call, which nobody reads.
* `RpcExchange` leaves out that `open` fails, which is `TcpConnect`'s subject, and that
  `close` does, which is `SecureCall`'s; what a message is that makes no sense as the rest of
  another is left to one action, as each of the ways to refuse it throws and leaves the
  connection open.
* `TcpConnect` lets an established socket take a whole request. It leaves out name
  resolution, socket options, and a `close` that fails inside `setHandle`.
* `HttpFraming`: a header text is one token, the content is counted byte by byte.
* `HttpHeader`: texts are atoms and separators. Calls that throw are `SecureCall`'s.
* `SecureCall`: requests are whole; the header has the one field that outlives calls.
* Parsing: a text is a sequence of atoms, a numeral one atom; expat is the tokens it
  finds, in any pieces, and sees to nesting. Values are copied deeply by the code, so they are
  plain values here except while a parser holds them by pointer. What expat makes of a name
  with markup is a table, `Unquoted`.
* `Dispatcher`: the invocation counters, which only the application reads, and the
  process-wide switch for pretty XML, which changes layout, are left out. What the invalid
  iterator of `removeMethod` does is undefined; the model *assumes* that the loop stops
  early, goes on or crashes, and no property speaks of what is removed.

## 5. Proofs

`tlapm` proves, for any set of handlers, clients, methods, wrappers, users, streams,
cookies, credentials and documents, any number of calls, any buffer, either or both
families, and applications that close after exceptions or do not:

| Theorem | Statement |
|---|---|
| `PoolType` | `AcceptPool`: `Spec => []TypeOK` |
| `PoolReady` | `Spec => []SomeHandlerReady` |
| `PoolNoOrphans` | `Spec => []NoOrphans` |
| `PoolFresh` | `Spec => []FreshDescriptor` |
| `PoolAnsweredOnce` | `Spec => []AnsweredOnce` |
| `PoolNoSilentDrop` | `Spec => NoSilentDrop` (a property of steps) |
| `PoolSignalled` | `Spec => []DestroyedSignalled` |
| `PoolImplementsService` | `Spec => ServiceSpec` |
| `ConnectType` | `TcpConnect`: `ConnectSpec => []TypeOK` |
| `ConnectSpoiled` | `ConnectSpec => []SpoiledAtMostTwo` |
| `ExchangeType` | `RpcExchange`: `Spec => []TypeOK` |
| `ExecutedAtMostOnce` | `Spec => []AtMostOnce` |
| `WrongAnswersAreLate` | `Spec => []WrongAnswerIsLate` |
| `ClosingGetsOwnAnswers` | `Spec => []OwnAnswer` |
| `HandlersReadOneCall` | `Spec => OneCallPerConnection` |
| `TableType` | `Dispatcher`: `Spec => []TypeOK` |
| `Ownership` | `Spec => []WrappersOwned` |
| `Agreement` | `MethodNotFoundError \notin FaultCodes => (Spec => []AnswersAgree)` |
| `Introspection` | `Spec => []ListedIsCallable` |
| `SSLOwnership` | `SecureCall`: `Spec => []SSLWithSocket` |
| `Authorised` | `Spec => []ExecutedAuthorised` |
| `OpenMeansSSL` | `AppCloses => (Spec => []OpenHasSSL)` |
| `Credentials` | `Spec => []OthersCredentials` |
| `Delivery` | `HttpFraming`: `Spec => []DeliveredExact` |
| `Conformance` | `Spec => []ConformingDelivered` |
| `FieldsFound` | `HttpHeader`: `Spec => []FieldsArrive` |
| `JudgedByItself` | `Spec => []CredentialsJudged` |
| `OwnCookies` | `CookiesUnderstood => (Spec => []CookiesOwn)` |
| `ComesBack` | `CookiesUnderstood => (Spec => []CookiesReturned)` |
| `TypeCorrect` | `MessageParsing`: `Spec => []TypeOK` |
| `PointersAlive` | `Spec => []NoDangling` |
| `NotDeletedTwice` | `Spec => []DeletedOnce`, the first part of `FreedOnce` |
| `Understood` | `RootsExpected => (Spec => []AcceptedUnderstood)` |
| `ReadAsSaid` | `AllGrammatical(Documents) => (Spec => []ReadingInv)` |
| `DecodedAsMeant` | `AllGrammatical(Documents) /\ AllMean(Documents) => (Spec => []Decoded)` |
| `PrefixAtWorst` | `AllGrammatical(Documents) /\ AllMean(Documents) => (Spec => []PrefixDecoded)` |
| `AllFreedOnce` | `AllGrammatical(Documents) => (Spec => []FreedOnce)` |

Assumptions: those the modules name on their constants (some handler, some family out of
v4 and v6, `NoConn` is no connection, some call, `NoUser` is no user, the flags are
Booleans, streams are sequences, in a document as many elements close as open, and the
like), and the hypotheses that stand in some theorems, each of which is needed:

* `AppCloses` in `OpenMeansSSL`: a failed `open` leaves a socket without `theSSL`, and an
  application that goes on with it writes to a null pointer (section 3).
* `MethodNotFoundError \notin FaultCodes` in `Agreement`: a worker may throw any fault
  code; if it throws that of an unknown method its callers cannot tell the two apart.
* `CookiesUnderstood`: what a cookie's text stands for is what `setCookie` finds in it.
  It connects the table that the properties use to the code's parsing.
* `RootsExpected` in `Understood`: a document with another root is ignored, or found
  incomplete, by a parser whose `isComplete` nobody asks.
* `AllGrammatical(Documents)` in the four on decoding: of two values in one `param` the
  first is leaked.
* `AllMean(Documents)` where a result is compared with `doc.means`: what a document is
  said to mean is its `Meaning`. It connects the constant that the properties use to the
  document's tokens.

**The pool.**

* `SomeHandlerReady` is inductive with the types alone: a handler that takes a step is
  ready afterwards or dead (`StepReady`), and nobody else's step takes its client away
  without becoming ready itself.
* `NoOrphans` follows from `SocketsInv`: once `start()` has returned well the parent
  holds no sockets, and whoever waits, waits at sockets somebody holds. The second
  part is what `EndConnections` keeps.
* `FreshDescriptor`, `AnsweredOnce`, `NoSilentDrop` and the refinement share one
  inductive invariant, `ServiceInv`: `PhaseInv` (a handler has a descriptor exactly while
  it serves, and a stale one only in a catch clause), `QueueInv` (queued clients wait,
  and are queued once), `HolderInv` (a held client is `taken`, or `done` if the
  descriptor is stale, and held once) and `BudgetInv` (how much may have been written at
  each point). `AnsweredOnce` alone is not inductive: it needs to know that a handler
  about to reply has written nothing (`Budget`), which needs that nobody else holds its
  client, which needs that queues hold no duplicates.
* `DestroyedSignalled` needs `StopInv`: who lives and has not been signalled is in the
  pool or forgotten, so that an empty pool leaves nobody else out.
* The refinement maps `Connect` to `Arrive`, `Accept` to `Take`, a close in either
  outcome to `Finish`, and the death of a handler to `Finish` or `TurnAway`;
  everything else is a stutter. That a failing `close()` already finishes the
  client is why the holder is `NoConn` when the descriptor is stale.

**The connection, plain and over SSL.**

* `SpoiledAtMostTwo` needs `SpoiledInv`: what the calls so far have cost depends on the
  socket they have left (`Cost`: nothing up to `failed`, one when `dead`), and an
  application that closes comes to every call without a socket (`Fresh`).
* `RpcExchangeProofs` has one inductive invariant for its three state properties. A call
  is in one place at a time: on its way up, held by a handler, on its way down, or
  returned; `PlacedOnce` says so for one connection, together with how often the call has
  run, and `ApartInv` that two connections share no call. `OrderInv` and `PlaceInv` say
  which calls and connections there can be at all. From that follows `AtMostOnce`. What is on
  the requester's own connection is the awaited call or one that threw (`LateInv`), hence
  `WrongAnswerIsLate`; and if the application closes, nothing of earlier calls is there
  (`CloseInv`), hence `OwnAnswer`.
* `SSLWithSocket` follows from `SocketInv`, which ties `pc` to the state of `fd` and
  `theSSL`, and `HandlerInv`, the handler's counterpart. `OpenHasSSL` needs `OpenInv`:
  an application that closes comes to each call without a descriptor, or with a stale one,
  which throws before `theSSL` is used.
  `ExecutedAuthorised` needs `CheckInv`: at the check, the field that is looked at is the
  first of the message that has just been read. `OthersCredentials` follows where fields
  can come from: each that waits, travels or has been executed is explained by its own
  call or by an earlier one that threw before its header was composed.

**The dispatcher.**

* `WrappersOwned` is inductive with the types and `FreshUnused`: a wrapper yet to be made
  is neither alive nor registered anywhere.
* `AnswersAgree` follows from `AgreeInv`: handlers that are not outdated have the
  server's table (`SameTable`), and the last response of each process is one its table
  still gives (`Answered`).
* `ListedIsCallable` is about what the system methods compute by folds over the table.
  The folds of the community modules are recursive functions, not recursive operators, so
  they can be unrolled step by step, and a set of naturals without a least element is
  empty (`NatInd`, from the library's theorem that `<` is well-founded and from
  `WFMin`): that is induction enough, and is used wherever a proof speaks of a fold.

**The framing.** The machine sees a stream through a buffer, a token at a time. `Window`
says that buffer and unread stream are what follows some position of the message, and the
rest of the invariant what the machine's state means at that position: where the header
block began (`Block`; only blocks of 100 Continue lie before it), which line it is in and which fields it has parsed, by state of `connstate` (`InBlock`),
and once in the body, how much of the content has come and how much remains (`InBody`, for
lengths that are right, wrong, absent and negative). `Delivery` and `Conformance` compare
that with the reference reading of the whole stream. To make them proofs about every
stream the reference definitions had to be made total: they were undefined for streams
without a header's end, which the configuration happened not to have.

**The header.** What is on its way is the header composed of the client's own call, and
what the server holds is what `parseHeaderLine` finds in that (`Calls`, `Served`), so that
the theorems come down to what the text functions compute.

* `FieldsFound` and `JudgedByItself`: `RequestArranged` says which lines a request has,
  proxied or not, `FieldsLines` and `Joined` which of them `parseHeaderLine` sees as one,
  `Base64Lines` when base64 breaks one, `Cut` where `getUserPass` cuts user from password.
* `OwnCookies`: what `setCookie` folds together is, for each key, the value of the last
  part of the text that has it (`CookiesFound`, by induction over the parts).
* `ComesBack` is a round trip. `Part` and `Pairs` say what `setCookie` sees of a text; if
  a text ends with one more `name=value` (`Appended`) it sees one more cookie
  (`CookieAdded`); each step of `getCookie`'s fold appends one (`JoiningAppended`), whence,
  by induction over how many are written, `setCookie` reads what `getCookie` wrote
  (`CookiesWritten`). Names and values have come out of `setCookie` themselves
  (`CookiesRead`) and so hold no separators or outer blanks; without that the
  round trip would fail. `RInv` adds what becomes of a call once it is answered.

**The parser.** `Healthy` is the inductive part: the stack is a `Path` of the transition
table, its pointers point to values not deleted (`Pointing`), two states share one only if
the upper is a member and the lower its struct (`Shared`), and a value that waits for its
name is nobody else's (`Waiting`). Each callback is shown to keep that, in terms of a few
changes of top and heap (`TopChanges`, `HeapChanges`). `DeletedOnce` needs besides
that a whole message leaves the stack at its bottom: elements still to be closed are
those still to be opened and those the parser is in, ignored ones included (`Opened(input)
+ Depth(parser) = Closed(input)`), so that at the end there is no member left to
share anything; the destructor's fold is unrolled to see that it then deletes nothing twice.
(`NoDoubleFree`, which `parse_abort` refutes, is just what fails while a member is
open.) `Understood` counts too: an ignored element leaves the stack lower than the
message is deep, so that by the message's end one closing tag has met the wrong state. Here the
proof found the model wrong: `InsertElement` could put an element behind the root, which expat
refuses.

**Decoding.** `ReadingInv` says what the parser knows at each place of a document, and
`ReadAsSaid` that it is so; the other three theorems on decoding read their property off it.

* The elements of a document are intervals of places, a `Tree`; those that are open at a
  place are a `Branch` of it, which a tag or a text turns into the next one
  (`BranchOpens`, `BranchCloses`, `BranchReads`). The grammar and the transition table of
  `startElement` are compared once (`ContentsOpen`, `OneTransition`).
* `Understands`: the stack has one state for each element of the branch, and `Level` says
  what that state holds: the value of the part already finished, or an array of those
  finished so far, or a struct of the members that have both name and value, or the half of
  a member that has come. `Gathered` says the same of a call's name and parameters. `Claimed` is
  what `FreedOnce` needs: every value not deleted is in some state's hands, so that a stack
  at its bottom, and its destructor, leave none. (With a nameless member it fails, and one is
  leaked; `FreedOnce` says so.)
* What an element says is defined by recursion over its parts. `Says` is a recursive
  function, so that well-founded induction on places gives it one unrolling (`SaysExists`,
  `SaysUnrolls`), and nothing else is ever needed of it: when an element closes, what its
  state holds of its parts is what the element says.
* Then one lemma for each callback (`TagOpens`, `TagCloses`, `CharsRead`), by what may
  take the closed element's value: nothing below changes but that state.
* A cut message (`PrefixInv`) is read off the same invariant at the place of the cut, of
  which `Shorter` keeps what the result can be.

**Checked by TLC only.**

* All liveness (`WaitingServed`, `TakenFinished`, `CallsEnd` of two modules, `HandlersEnd`,
  `LoopEnds`, `GetsThrough`, `HandlerFreed`) – fairness and `ENABLED` are out of the prover's
  reach.
* `ReadAsWritten`, and that what `getXml` writes is grammatical and, but for markup in
  names, means what was written – `XmlRpcWriter` is
  recursive in the value, and `tlapm` cannot reason about recursive operators; TLC evaluates
  it for the documents of `parse`, which have each constructor inside each other.

## 6. Not modelled

* expat, OpenSSL (contexts, certificates, renegotiation) and the kernel beyond what the
  code asks of them: not part of the sources.
* Name resolution, socket options, `hasPendingInput`, the accept timeout: single calls
  to the system with no state of the library's behind them.
* Date arithmetic of `DateTime`, which sets and reads fields at fixed places of a text.
* Header fields for host, user agent, content type and date, the helpers for plain `POST`
  and `GET`, and proxies' address lists: composed in one place and looked at in none.
* Logging, version and locale helpers, the invocation counters, the wrapper's getters on expat.
* Templates that only forward (`make_method` and its relatives beyond the wrapper's
  life), comparison and stream operators of values.
* Tests, examples and build files: read as documentation of how the library is used.

Worth doing next: `TcpConnect` composed with `RpcExchange`, whose `SendCall` assumes that
`open` works; an application over SSL that does not close after exceptions, with what a
null `theSSL` means for `SSL_read`.
