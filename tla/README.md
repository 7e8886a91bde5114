# A verification development for vitorian-challenge

The program is the client of a small binary protocol over TCP, and the tests
that talk to it. `client.cpp` calls `ProtoClient::Run("challenge1.vitorian.com",
9009)`: the name is resolved, and each address is tried in turn until one
connection has carried three exchanges, login, submission and logout. The
submission response brings a token.

This directory holds TLA+ specifications of that program, the TLC runs that
check them on small instances, and theorems that TLAPS proves for every value of
the constants.

## Inventory

| component | state | operations | works with |
|---|---|---|---|
| `ProtoClient` (`proto_client.*`) | `buf_` (1024 bytes, never cleared), `header_` (a view on its front), `token_`, the loop counters | `Run` by name, `Run` on addresses, `RunOne`, three `Write...Request`, three `Read...Response`, `Token` | calls the resolver, `TcpClient::Connect`, `ReadExact` and `WriteExact`; hears of failures by exceptions and `false` |
| `TcpStream` (`tcp_stream.*`) | a descriptor; 5 s receive and send timeouts in the kernel | constructor, `ReadExact`, `WriteExact`, move, move assignment, `Close` | loops over `read` and `write` of the kernel |
| `TcpClient`, `ConnectWithTimeout` (`tcp_client.*`, `net.*`) | the socket on its way to a `TcpStream`, its flags | `Connect` | nonblocking `connect`, `select` for 1 s, flags restored |
| `TcpServer` (`tcp_server.*`; used by the tests) | a listening descriptor | constructor, `Accept`, move, `Close` | gives a `TcpStream` per connection |
| `Resolver` (`resolver.*`) | `ips_`, the list `getaddrinfo` returned | `Resolve`, `Close`, copy and move | its results point into the list it owns |
| messages (`msg_*.hpp`, `endian.hpp`) | none: views on a buffer | getters and setters of fixed-width fields | `ProtoClient`, the tests |
| `Checksum` (`checksum.hpp`) | none: rewrites the header's field | compute and verify, the same function | `ProtoClient`, the tests |
| the test server (`test.cpp`) | a thread per test, `ready`, `todo_fn` | `RunServerThread`, `RunServerSuccessful` and its variants | one connection with the client |

What is hard here: the peer decides what arrives, how it is cut into pieces and
when it stops; every failure may strike between any two steps; the one buffer
carries both directions, so what is read depends on what was written before; a
frame with a bad checksum is retried; the verdict of `Run` and `Token()` combine
the results of several attempts.

What makes each component correct:

* `ProtoClient`: requests go out once each and in order; `true` means a whole
  script on one connection; a login needs the peer's `Y`; a token comes from the
  answer, and from the latest attempt; `Run` comes back.
* `TcpStream`: a read or write is exact or throws; pieces neither overlap nor
  leave gaps.
* `TcpClient`: a stream is blocking again and its connection decided; a failed
  attempt leaves no descriptor (unless `ConnectWithTimeout` throws).
* `TcpServer`, `TcpStream` as owners: each descriptor is closed exactly once.
* `Resolver`: addresses are valid as long as somebody holds them.
* messages: a field set is the field got, and a setter stays within its field.
* `Checksum`: a computed checksum verifies; with one corrupted byte outside the
  length it does not.
* test server: it uses nothing that its creator has destroyed; client and server
  never wait for each other for ever, unless the client fails to connect.

## The modules

| module | what it is |
|---|---|
| `RunContract` | what `Run` promises its caller, without frames, buffers or sockets |
| `ProtoClient` | `proto_client.*` in detail, with the resolver, the connection and the stream as it sees them; implements `RunContract` |
| `ProtoClientProofs` | its invariants, the refinement and a bound on its steps, proved |
| `Connect` | from an address to a stream: `tcp_client.cpp`, `net.cpp`, the constructor and destructor of `TcpStream` |
| `ConnectProofs` | its safety, proved |
| `Checksum` | `checksum.hpp` in the widths of the code |
| `MCChecksum` | the messages for its run |
| `ChecksumProofs` | sums over messages, their folding, and what is accepted, proved |
| `TcpStream` | `ReadExact` and `WriteExact` over the pieces that `read` and `write` move; implements `ExactIO` |
| `ExactIO` | the same in one step, as `ProtoClient` has it |
| `TcpStreamProofs` | safety and refinement of `TcpStream`, proved |
| `Handles` | `TcpStream` and `TcpServer` as owners of descriptors |
| `Resolver` | `resolver.*` as the owner of the list its addresses point into |
| `Owners`, `MCOwners` | a program that uses `Handles` and `Resolver` together, as the tests do; the symmetry of its run |
| `OwnersProofs` | each descriptor has one owner, each list is freed once, by its holder; also in that program; proved |
| `Codec`, `MCCodec` | the seven message classes as views of one buffer; the texts and integers of its run |
| `CodecProofs` | fields keep what they are given, for every text and buffer, proved |
| `Session` | `ProtoClient` and the four servers of `test.cpp`, composed |
| `SessionProofs` | the two keep in step, do not wait for each other, and the tests' outcomes, proved |
| `TestThreads` | the threads of `test.cpp`: who starts, waits for and joins whom |
| `TestThreadsProofs` | the handshake of the two threads, proved |

`Session` EXTENDS `ProtoClient` and takes every step of the client from it,
`Owners` takes every step of `Handles` and `Resolver`. `ProtoClient` reads and
writes whole messages, as `ExactIO` promises, and `TcpStream` keeps that
promise; it connects in one step, which `Connect` is in detail; its `intact` is
what `Checksum` computes, and its chunks are fields of `Codec`. `TestThreads`
says when the two sides of `Session` come to exist at all.

### ProtoClient

One thread runs one object. `pc` says where the thread is: `idle` outside `Run`,
`resolve`, `loop` (at the head of the loop over the addresses), `connect`,
`write`, `header` and `body` (before each of the two `ReadExact` of a frame), or
`killed`. `phase` is the exchange `RunOne` is in and `tries` the loop counter of
its reader. Members of the class keep their names. `runs`, `outcome` and `wire`
are histories: no guard but the bound on `runs` reads them.

| action | code |
|---|---|
| `CallRun`, `CallRunOnAddrs` | the caller calls one of the two `Run` |
| `Resolve`, `ResolveFails` | lines 20-31 of `proto_client.cpp` |
| `TryNext`, `Exhausted` | the next round of the loop and the entry of `RunOne`; its end |
| `Connect` | `TcpClient::Connect` and the `TcpStream` constructor |
| `WriteLoginRequest`, `WriteSubmissionRequest`, `WriteLogoutRequest` | the functions of these names, with their `WriteExact` |
| `ReadHeader` | the first `ReadExact` of a reader and the length check |
| `RejectFrame` | the second `ReadExact` and a checksum that does not verify |
| `ReadLoginResponse`, `ReadSubmissionResponse`, `ReadLogoutResponse` | the second `ReadExact` and what each reader does with an intact frame |
| `ReadFails` | either `ReadExact` throws |

The choices behind it:

* *The peer is unconstrained.* Any byte stream is, under the client's own
  framing, a sequence of frames of some type, some length and a checksum that
  verifies or does not. What the checksum computes is the business of
  `Checksum`; here a frame is `intact` or not.
* *The buffer is three chunks*, chosen so that every read of the code falls on
  their borders: body byte 0 (the login code), the rest of the token field, and
  the byte behind it, at which an unterminated token goes on. A chunk holds what
  a reader of C strings tells apart and the set of those who may have written
  it; the set is an upper bound, since a body that ends inside a chunk writes a
  part of it. `nobody` is memory that no one has written: `buf_` has no
  initialiser.
* *A frame fits the buffer.* `ReadExact` leaves the size of its memory to the
  caller ("The caller must ensure b is pointing to memory of size at least len",
  `tcp_stream.cpp:56-57`), the callers do not compare `MsgLen` with 1024, and a
  longer frame is undefined behaviour: it is outside the model.
* *A header that cannot be read leaves `header_` as it was.* Part of it may have
  been overwritten, but `RunOne` ends there and every use of `header_` writes or
  reads all of it first.
* *RunOne called on its own*, as one test does, takes the steps it takes inside
  a `Run` on one address; the caller then gets the outcome that `Run` discards,
  which `outcome` records.
* *SIGPIPE.* A `write` on a connection that was reset raises it, and the program
  neither handles nor blocks it: `WriteExact` may end in `killed`.
* *Texts, the timestamp and logging* are left out: nothing the client does
  depends on them.

### RunContract

`verdict`, `limit`, `tried`, `stage`, `calls`: a call resolves to some number of
addresses, attempts them in order, each attempt climbs through three stages, and
the call ends with `true` at stage 3 or with `false` when no address is left.
`ProtoClient` maps to it by `Verdict` (from `pc` and `result`), `Stage` (from
`phase` and `outcome`) and its own `addrs`, `cur`, `runs`. Reading a header, a
rejected frame, a connection, a write or an exception that only ends an attempt
are stuttering steps there.

### Connect

`pc` is the next system call of `TcpClient::Connect`, `ConnectWithTimeout` and
the `TcpStream` constructor, in their order, and there is one action for each,
with its failure as a disjunct. `file` is the kernel's side: what `fcntl` and
`setsockopt` have set, and the connection, which `Decide` may settle at any time
or never, also for a socket nobody holds any more. The local `sockfd` becomes
the stream's `sockfd_`. What matters is who notices a failure: `Connect` closes
the socket when `ConnectWithTimeout` returns false, the constructor when it
throws itself, and nobody when `ConnectWithTimeout` throws (`left`). `errno`,
which only reaches the log, is left out. In `ProtoClient` all of this is the one
action `Connect`: a stream, or an exception; that a stream may be one whose
connection was refused is there a first `WriteExact` that throws.

### Checksum

A message is composed with its field zero, computed over (`Compute`), damaged
(`Damage`) and verified (`Verify`); the two calls are one operator, `Checksum`,
as they are one function. Bytes are 0..255, words and field 16 bits; the sum is
a `uint32_t` in the code and cannot wrap, because `MsgLen` has 16 bits:
messages have up to `MaxLength` bytes, and `TotalIsSummed` proves it of their
sums.

How much is summed is the sender's length on one side and, on the other, the
length in the header that has arrived, damaged or not: `Verify` takes that many
bytes for the message (`received`), the first of what follows on the connection
(`Behind`) included if it says more than was sent, and `Throw` is a header that
says less than its own length or more than ever comes.

Two limits of the module. Its words are little-endian, as on the hosts the
program is built for; on a big-endian one the loop would add other words
(`*((uint16_t*)(&b[j]))`) than the field, which always is little-endian. And a
buffer is as large as its message; `buf_` has 1024 bytes, and what happens to
the memory behind them when a header says more is undefined.

### TcpStream and ExactIO

One direction of a connection: a writer, a socket buffer of `Capacity` bytes, a
reader. A byte is the number of its place in all that was written, so that a
byte lost, doubled or out of place shows in `stream` or `mem`.

| action | code |
|---|---|
| `CallWrite`, `CallRead` | the caller's call; the memory for a read is fresh |
| `WriteSome`, `ReadSome` | one `write` or `read` that moves 1 to all of the remaining bytes |
| `WriteReturns`, `ReadReturns` | the end of the loop |
| `WriteTimesOut`, `ReadTimesOut` | five seconds without room, or without a byte |
| `WriteError`, `ReadError` | the system call fails; a `write` to an end that is gone kills the process |
| `ReadEndOfFile` | `read` gives 0 |
| `CloseWriter`, `CloseReader` | the stream is closed between two calls |

An exception closes its end, as nobody who catches one keeps the stream.
Interrupted calls (`EINTR`) are errors: no handler is installed. In `ExactIO` a
read takes the next `n` bytes or fails for good.

### Handles

The objects of the two classes with their `sockfd_`, and the kernel's table of
open descriptors, which gives out the lowest free number, so that a number
closed twice may by then be another's. One action for each constructor with its
failures, `Accept`, moving, `Close` and destruction, in any order and chain.
`NewStream` is `TcpClient::Connect` as its caller sees it: a stream, an
exception with everything closed, or one that `ConnectWithTimeout` has thrown
past the `close` in `Connect` (`ConnectThrows`). `left` has what this leaves
open, and what the failure of `SO_REUSEADDR` does. An object may be
assigned to itself. Threads are not in it: no object is shared by two.

### Resolver

`ips_` of each resolver, the lists given out, and the lists into which the
caller's `gathered` addresses point. Closing a resolver is taken as the
statement that its last addresses are no longer needed; only another `Resolve`
can take an address away from somebody who did not ask for it. The defaulted
copies and moves (`resolver.hpp:13-19`) are left out, since nothing in the
program copies or moves a resolver; a copy would free its list a second time.

### Owners

Streams and servers are made with addresses, and addresses are a resolver's:
`HaveAddress` is the guard that `Connect` and the constructor of `TcpServer`
add, and `accept` does not need it. All other steps of the two parts interleave
freely. That `HaveAddress` asks for a list which is still there leaves out what
is undefined; that the program does get there is what `gathered_are_valid`
shows.

### Codec

Memory byte by byte, with the offsets and lengths of the code. A class is its
length and its fields, and constructing it places those at an offset if the
message fits. `SetText` and `SetInt` are what every setter does, `GetText` and
`GetInt` every getter; a `char` is an integer of one byte. `GetText` goes on to
the first NUL byte, as `std::string{b}` does. Host and buffer have their byte
orders; `endian.hpp` is what keeps them apart.

### Session

The variables of `ProtoClient`, the server's thread (`spc`, and `sphase`, the
exchange it is in), and what is under way between them. Messages are whole; TCP
delivers each in order or not at all.

| action | code |
|---|---|
| `ClientMoves` | `CallRun`, `CallRunOnAddrs`, `Resolve`, `TryNext`, `Exhausted`; each test calls `Run` once |
| `ClientResolveFails` | `ResolveFails`: `Run` returns false with nobody connected |
| `ClientConnects` | `Connect`: it succeeds at the last address, where the server listens, and fails at any other |
| `ClientConnectFails` | `Connect` throws although the server listens; the kernel may have completed the connection or not |
| `ClientWrites` | a request; the server gets it, or has gone and answers with a reset |
| `ClientReadsHeader`, `ClientReadsBody` | `ReadHeader` and the four actions on a body, with the frame the server sent |
| `ClientReadFails` | end of file, reset, or five seconds without an answer |
| `Accept`, `ServerReads`, `ServerResponds` | the server's thread and the blocks of its `todo_fn`: the request read and asserted, the response written |
| `ServerReadFails` | `ReadExact` throws and nothing in the thread catches it |
| `ServerCloses` | the stream is destroyed at the end of the thread |
| `Delay` | a thread is kept from running for a second or more |

`server` says which of the four it is: the one that closes at once, the two that
answer a login with a goodbye (without a checksum, and with one), and
`RunServerSuccessful`. Time is `slow`, which stays false until some thread has
lost a second; while it is false no timeout runs out and no timestamp is too
old. `failed` records that the client could not resolve the name or connect to
the server. The asserts' lower bound, a timestamp that is earlier than the
reading it is compared with, needs a clock that advances, which is assumed.

### TestThreads

The main thread, the server's and the client's, from `TestTcp` (`test = 0`)
through the calls of `RunServerThread`. `frame` says whether the parameters and
locals of `RunServerThread` exist, and `Uses` records in `dangling` what the
thread touches after they are gone. What client and server say to each other is
left to `Session`: here each of them ends. A client may be refused, if the
second of `TestTcp` was too short, or fail before it is connected
(`ClientFails`); of the tests only the first that calls `RunServerThread` looks
at what `Run` returned. `accept` is given an address length
that nobody has set; which value it finds is a choice of the model, one of the
reasons for `ServerFails`.

## The runs

| run | instance | distinct states | shows |
|---|---|---|---|
| `proto_client` | 2 addresses, 2 calls, 2 rounds per reader | 1.6 million | the safety of the client |
| `proto_client_contract` | 2 addresses, 1 call, 2 rounds | 171 thousand | it comes back, and implements the contract |
| `token_from_response` | 1 address, 1 call | stops at the counterexample | a short submission response is read successfully, and its token is the client's own request |
| `connect` | 3 descriptors, 4 calls | 3 thousand | streams handed out are ready; only one kind of failure loses a socket; `Connect` comes back |
| `checksum` | 126 messages of 13, 14 and 17 bytes, at most 2 damaged | 487 thousand | what is accepted, against a reference |
| `tcp_stream` | calls of 0, 1 and 3 bytes, 6 bytes in all, 2 in the kernel | 4 thousand | reads and writes are exact or throw, and end; they implement `ExactIO` |
| `owners` | 3 streams, 2 servers, 4 descriptors, 2 resolvers, 3 lists | 89 thousand, up to symmetry | one owner for each socket and each list |
| `gathered_are_valid` | 2 resolvers, 4 lists | stops at the counterexample | a second `Resolve` frees the addresses of the first |
| `codec` | 5 sizes of texts, 4 of buffers, both byte orders | 9 thousand | what getters give back, what setters write |
| `session` | 2 addresses, 3 rounds, 4 servers | 3 thousand | asserts, outcomes, the one wait without an end |
| `test_threads` | all six tests with a server | 332 | the handshake, the frame, and what `main` may wait for |
| `todo_fn_is_there` | `TestTcp` and one call | stops at the counterexample | `todo_fn` is used after it was destroyed |

What `proto_client` checks, in words:

* `OneScriptPerAddress`: a rejected frame never makes a request go out twice,
  and addresses are tried in order.
* `VerdictSound`: `true` needs three requests on the last connection, `false`
  every address.
* `TokenIsOfLatestAttempt`: no token survives another `RunOne`, at the next
  address or in a later call. It does survive the failure of its own, at the
  logout, and a call that enters no `RunOne`, since the name does not resolve:
  after a `Run` that returned false, `Token()` may still give one.
* `LoggedInOnY`: a submission needs a `Y` that the peer sent, though it may have
  sent it in a frame that was rejected.
* `FullResponseGivesItsToken`, `NothingUninitialised`: when a token is the
  peer's own bytes, and when memory nobody wrote can be in it.
* `FalseMeansBudgetOrGoodbye`: the two reasons for which `RunOne` returns false.

In `proto_client_contract`, `RunReturns` is liveness, and `ImplementsContract`
the refinement with its fairness.

What the runs of the other parts check, where their names do not say it:

* `WrittenInOrder`, `ReadIsExact`: the pieces add up on either side; a read goes
  on with the byte after the one before it, and leaves what is behind its memory
  alone. `ShutdownMeansMissing`: "peer has shutdown" is never thrown over bytes
  that have arrived, nor for a body of none.
* `OneByteCaught`: a single damaged byte has the message refused, if it is not
  one of the length. With the length damaged the receiver sums other bytes: in
  this very run a length of 13 that arrives as 15, followed by two bytes that
  make up for it, is accepted, and all that holds is `AcceptedIffTotalIsFull`,
  which is about whatever has been summed.
* `OneOwner`: an open socket has one object that will close it, or was left
  behind by a throw, of the constructor of `TcpServer` or of
  `ConnectWithTimeout`; no object keeps a number that it has closed, which may
  have been given out anew. `FreedOnce`: the same of lists.
* `GivesBackLastSet`, `EndsInMessage`: whatever the buffer held and in whatever
  order fields are set, each gives back its last value if that leaves room for a
  NUL byte; if it does not, the string ends with the next field that does.
  `StaysInBuffer`: the constructor's one comparison keeps all setters inside.
* `OutcomeAsAsserted`, `ServerIsSafe`, `LockStep`, `NeverKilled`: no
  interleaving of the two threads makes a test fail, as long as no thread loses
  a second and the client can resolve and connect; the client never gives up on
  a server that waits for it, and the reset that a server which hangs up sends
  in answer to the login is met with a read, never with a second write.
* `NobodyRefused`, `FrameOutlivesUse`: `ready` is set neither too early for the
  client nor too late for the frame it lives in; of what the thread refers to
  only `todo_fn` is used after its time.
* `TestEnds`, `AllTestsEnd`: the tests come to an end, or the process does, or
  `main` is left in `join` with a server in `accept`, where no timeout ends the
  wait (`Stranded`). That needs a client which failed to resolve or to connect,
  or which came too soon in `TestTcp`; it then really is for ever. The two
  modules say that nothing else leads there.

**Why the bounds are enough.** Two addresses give an attempt a predecessor that
failed in any way, two calls a call that starts with any leftovers of another.
Of `kMaxRetriesOnWrongChecksum`, 10 in the code, the model has 2: the first
frame rejected, the last one, and what a rejected frame leaves behind for the
next are all there, and the counter is only compared with its limit. The
theorems are about every value. The five body lengths are every way a body can
end with respect to the chunks. The peer's values leave out nothing a reader
tells apart; in the contract run, which has no property about contents, `nul` is
left out. With three descriptors and four calls, `Connect` can lose all of them
and be called once more. For the checksum, the messages have all parities and
sums around 0, 0xFFFF and its double; `Noise` has the values that carry or
borrow and a length that a damaged byte may well say, and what follows is
nothing or three bytes.

In `tcp_stream`, three bytes are cut in every way and a call may be followed by
another and by one of no bytes; the socket buffer is smaller than a message and
than what is under way, so that both sides wait for each other. In `owners` a
descriptor moves along three streams, a number is closed and given out again
while others are held, the numbers run out, and a resolver may resolve three
times; exchanging objects of a kind, or lists, changes nothing, but descriptors
are ordered and are not exchanged. In `codec` the sizes are nothing, the length
of the short fields, and the long ones' length with one less and one more; the
buffers are too short for a header, exactly long enough for a header with one of
the short messages, one byte too short for a login request, and long enough for
everything. In `session`, an address before the server's is one where the
connection fails in any case; more of them add nothing. `test_threads` is the
real number of calls.

**Fairness.** `FairSpec` says that a thread inside `Run` goes on. Every call in
there ends: `getaddrinfo` gives up, `select` waits for at most one second, and
`read` and `write` on the blocking socket for five (`tcp_stream.cpp:15-29`; that
the socket is blocking and has the timeouts is `StreamIsReady` of `Connect`),
after which `ReadExact` and `WriteExact` throw; each `ReadExact` is a bounded
number of reads. Nothing is assumed of the peer, and nothing of the caller: it
need not call `Run` again. `Connect` has the same fairness for the thread, but
not for `SelectFails`, on which nobody can count, and none for `Decide`: the
peer may never answer.

`TcpStream` assumes it of a loop in `ReadExact` or `WriteExact`: its system call
moves something, or five seconds without a byte or without room run out
(`tcp_stream.cpp:15-29`). It does not assume that errors happen, nor that the
other end does anything. `Session` and `TestThreads` assume that each thread is
run by the scheduler; in `Session`, a thread that waits in a read is not able to
step until it gets something or, once `slow`, times out, and no timeout is
needed for `TestEnds`. That the second of `TestTcp` is enough is not assumed.

**Deadlock** is not checked: a caller may stop calling, a killed process has
stopped, a verified message has no further steps, both ends of a stream may be
closed, a test is over, a terminated process stops. In `owners`,
`gathered_are_valid` and `codec` some call is always possible, and it is
checked.

## The theorems

All of these hold for every value of the constants: addresses, calls and
retries, lengths, capacities, objects, descriptors and lists. They assume what
the modules do: `ProtoClientAssumption` (the bounds are numbers, at least one
round per reader), `TcpStreamAssumption` (memory is as long as what is asked
for), `HandlesAssumption`, `ResolverAssumption`, `ConnectAssumption`
(descriptors are numbers, what stands for none is none), `CodecAssumption`
(texts have no NUL byte, a buffer is within the memory), `TestThreadsAssumption`
(calls are counted) and `ChecksumAssumption` (messages are bytes, as many as
`MsgLen` can say and does say). Nothing is assumed of what the operators
compute.

`ProtoClientProofs` is built in layers, each using the ones before, since few of
the invariants are inductive alone:

1. types, and that a response is awaited only while rounds are left
   (`RoundsLeft`);
2. what has been sent and returned: `WireMatchesPhase` (the requests on the
   current connection are those of `phase`, with one more after the write) and
   `ReturnsAreFinal` make `OneScriptPerAddress` and `VerdictSound` inductive;
3. what `Token()` and a `false` say of the attempt: `TokenIsOfLatestAttempt`,
   `FalseMeansBudgetOrGoodbye`;
4. who has written the buffer: `BufferWritten`, `CodeByte` (while a login
   response is due, the code's place holds the request's text or a rejected
   frame's byte) and `PaddingBehindField` make `NothingUninitialised`,
   `LoggedInOnY` and `FullResponseGivesItsToken` inductive.

`RefinesContract` uses the first two: initial states map to initial states, and
each action to one of the contract's or to a stutter, by cases on `Next`.

`RunIsBounded` is what `RunReturns` owes to the code rather than to fairness:
`StepsLeft` is a number of at most `MaxAddrs * (6 * MaxRetries + 7) + 2`, and
every step inside `Run` lowers it. It counts what is still allotted to the
addresses not yet tried, to the exchanges after the present one, and to the
rounds the reader has left, so each lemma is about one of the ways a step goes
on: within an exchange, to the next, or back to the loop. No peer can make a
call longer than that, with bad frames or otherwise.

`ConnectProofs` needs two strengthenings: a closed descriptor keeps nothing of
the socket it was (`NothingKept`; else a new socket might be non-blocking from
the start), and what has been done to the socket before each system call
(`SocketByStep`). `StreamsAreReady` and `OnlyThrowsLoseSockets` follow.

`ChecksumProofs` has four parts, and goes from numbers to messages:

1. Sums. `Sum` is a recursive function; that it is what its name says, that it
   is bounded, and that it changes by what one summand changes by (`SumExcept`)
   need an induction over the places of a sequence. The library's induction
   theorems take a predicate, which the provers cannot instantiate, so
   `Induction` is stated of a *set* of numbers and rests on the least element of
   its complement (`LeastOne`, from `WFMin`). `WordsAreWeighted` then turns the
   words the loop adds into bytes of weight 1 and 256, for both parities.
2. Folding. A fold takes away a multiple of 0xFFFF and leaves a sum above 0
   above 0 (`FoldOnce`), two folds reach 16 bits (`TwoFoldsSuffice`), so a sum
   is accepted if and only if it is a positive multiple of 0xFFFF
   (`AcceptedSums`), which no change of one byte preserves
   (`DamagedByteIsCaught`).
3. Buffers. `TotalIsSummed` joins the two: for every buffer of 13 to 65535
   bytes, the field and the words add up to the weighted bytes and fit
   `uint32_t`. With it the arithmetic is about `Checksum` itself
   (`AcceptedTotal`, `ChecksumTwice`, `TotalExcept`).
4. The life of a message. `Life` is inductive: what was sent says its length
   and would be accepted, and what is there after `Verify` is the checksum of
   as many bytes as the header that arrived says (`TakenIsBuffer`). It has no
   word about how much is damaged, so the theorems hold for any `MaxDamage` and
   any `Behind`; that one damaged byte outside the length is refused
   (`DamageIsRefused`) compares the totals of `sent` and `received`, which are
   as long as each other when the length is intact.

`TcpStreamProofs` strengthens what is said between calls to what holds inside
the loops: of `stream`, that it is `asked + wsofar` long, and of `mem`, that the
first `rsofar` bytes are the last ones taken. `RefinesExactIO` then maps the
returns of `ReadExact` to reads, and writes of any piece to offers.

`OwnersProofs` treats `Handles` and `Resolver` by themselves first. Both need
hardly more than the property itself, which says of each resource at once who
holds it and whether it is open; the action properties follow from it:
what a throw has left behind is in it as held by nobody;
`OnlyOwnersClose` and `HoldersFree` say that no step of one object closes or
frees what another one holds. They are not checked by a run of their own, being
consequences of `OneOwner` and `FreedOnce` before and after a step. Then
`OwnersAreOwners` shows that a program using both kinds takes no step the two
modules do not have, and so inherits the theorems.

`CodecProofs` shows that the offsets and lengths of the seven classes make no
two fields of a message share a byte (`LayoutsWell`), and that an object placed
at an offset keeps this (`PlacedWell`). The inductive invariant has three parts:
types, `FieldsApart` (the fields that exist lie within the buffer, those of the
header before those of the body, all apart) and `FieldsHold` (each byte of a
field is the one of what it was last given, so that setting another field leaves
it alone). `GetText` ends at the first NUL byte; `EndIsFirst` says that there is
one and that no other precedes it, again from the least element of a set.
`GivesBackLastSet`, `EndsInMessage` and, since an integer's bytes are laid out
by `Encode` and turned twice, `SameOnEveryHost` follow; `StaysInBuffer` is
`FieldsApart` applied to the one field that a step writes.

`TestThreadsProofs` rests on `Handshake`: the locals of `RunServerThread` exist
exactly while it spins, it spins as long as the server has not said that it is
ready, and a client that connects finds a server that waits in `accept`. This
holds for any number of calls and however late a thread is. With `ClientDone`,
which says how a client that has ended without a connection came to that, it
gives `JoinExplained`: a `join` that meets a server in `accept` with no
connection under way is `Stranded`.

`SessionProofs` rests on `SInv`, which says for each place the client may be in
where the server then is and what is under way: `Writing` (nothing is, and the
server is about to read this request or has hung up), `Waiting` (the request is
under way, is being answered, is answered, or never will be), `Answering`
(exactly the frame that answers this request) and `Left`; `Failed` says where
the server may be once the client could not resolve or connect. There is one
lemma for each action. That the client is still `ProtoClient`
(`ClientIsProtoClient`) makes its theorems hold in a session. Two theorems
prepare `TestEnds` as far as it is safety: `SomebodyGoesOn` (the threads never
both wait, and when `Run` has returned the server has got its client or is
`Stranded`, which needs `Reaches`: an address in vain is not the last, unless
the client has failed) and `SessionIsBounded` (every step of either thread
lowers `SessionStepsLeft`).

Every invariant of the runs that pass is also a theorem. Only model-checked are
the properties that need fairness, which is beyond the prover: `RunReturns` and
`TestEnds` (but for the bounds above), `ConnectReturns`, `CallsEnd`,
`AllTestsEnd`, and of `ImplementsContract` the fairness it maps to the
contract's (its safety is `RefinesContract`). That some action is possible
wherever a run checks deadlock is `ENABLED`, and is model-checked too.

## What the code does and its comments deny

Three disagreements have a run that ends in a counterexample:

* `token_from_response`: a submission response without its 32 bytes is read
  "successfully", and the token is then text of the client's own request
  (`proto_client.cpp:142`).
* `gathered_are_valid`: a second `Resolve` on one object frees what the
  addresses of the first point to; the test of several addresses uses both
  (`test.cpp:835`).
* `todo_fn_is_there`: `todo_fn` is called after the parameter it refers to is
  gone (`test.cpp:725`).

Others were seen while modelling. The models take the code's side, and where a
checked property describes what the code does instead, it is named:

* `RunOne` returns false for a goodbye and after ten bad frames; its comment
  says that it throws if anything goes wrong (`proto_client.cpp:235`).
  `FalseMeansBudgetOrGoodbye`.
* A logout response is not looked at: any intact frame will do
  (`proto_client.cpp:202`). `OutcomeAsAsserted` and `LockStep` need a server
  that answers each request once.
* `ConnectWithTimeout` returns true for a refused connection, and throws where
  it is said to return false (`net.hpp:4`). `StreamIsReady` says decided, not
  connected.
* A computed checksum may be 0, which two tests assert it is not
  (`test.cpp:675`, `699`). It verifies all the same: `ComputedVerifies`.
* A user that fills its field is read back with what follows; the test of its
  truncation looks at the buffer only (`test.cpp:138`). `EndsInMessage` says how
  far it goes.
* Callers of `RunServerThread` "should join that thread" (`test.cpp:708`), and
  they do whatever `Run` returned: a client that cannot resolve or connect makes
  them wait for ever, as a server that is not online after one second makes
  `TestTcp` (`test.cpp:615`). `Stranded`, in `TestEnds` and `AllTestsEnd`.
* A stream on descriptor 0 is valid for its constructor and `Close`, and
  "unitialized" for `ReadExact` and `WriteExact` (`tcp_stream.cpp:59`, `78`).
* Copied or moved resolvers would free one list twice (`resolver.hpp:13`).

## Not modelled

* `main` of `client.cpp`, which makes one call and drops its verdict; output;
  the build. They keep no state.
* The clock. `EpochNanos` writes timestamps that the client never reads; the
  servers' asserts on them are in `Session`, for a clock that advances.
* Which error an exception carries. `errno` is read after other calls may have
  changed it (`tcp_client.cpp:36`), but it only reaches the output.
* What is undefined: a frame longer than the client's buffer, a string without
  an end, memory used after it was freed. The models show how the program gets
  there, if it does, and stop.
* What a name resolves to, and the kernel's TCP: external, as the code uses
  them.
* The array without an end in `TestTcp` (`test.cpp:626`): what `strcmp` finds
  behind the eight bytes depends on the compiler only.
* The unit tests of messages, checksum and resolver, one thread of straight
  calls each: their calls are among those `Codec`, `Checksum` and `Resolver`
  take in any order.

What could still be added is proof, not model: that `ProtoClient`, with the
`ReadExact` of `TcpStream` in place of its own atomic reads, keeps what is
proved of it.
