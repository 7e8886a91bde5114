---------------------------- MODULE TestThreads ----------------------------
(***************************************************************************)
(* The threads of test.cpp: TestTcp, whose server has one second to come   *)
(* online, and then the tests that call RunServerThread, whose server says *)
(* when it is ready.  What the two sides exchange is Session's business;   *)
(* here each of them, once connected, ends sooner or later.  The second    *)
(* may not be enough, and a client may fail before it is connected.        *)
(***************************************************************************)
EXTENDS Naturals

CONSTANT Calls         \* bound: calls of RunServerThread (5 in test.cpp)

ASSUME TestThreadsAssumption == Calls \in Nat

VARIABLES
  test,        \* 0 in TestTcp, then the call of RunServerThread
  main,        \* where the main thread is
  server,      \* where the server's thread is
  client,      \* where the client is, on a thread of its own or on main's
  frame,       \* the parameters and locals of RunServerThread exist
  ready,       \* one of them
  pending,     \* a client has connected
  failed,      \* history: the client of this test has failed to connect
  refused,     \* history: the tests whose client found nobody listening
  dangling,    \* history: what was used after the frame was gone
  terminated   \* an exception has left a thread, or an assert has failed

vars == <<test, main, server, client, frame, ready, pending, failed, refused,
          dangling, terminated>>

Init ==
  /\ test = 0 /\ main = "call" /\ server = "none" /\ client = "none"
  /\ frame = FALSE /\ ready = FALSE /\ pending = FALSE /\ failed = FALSE
  /\ refused = {} /\ dangling = {} /\ terminated = FALSE

Listening == server \in {"ready", "accept", "serve"}

-----------------------------------------------------------------------------
(***************************************************************************)
(* The main thread                                                         *)
(***************************************************************************)

\* TestTcp, or a call of RunServerThread, starts the server's thread.
StartServer ==
  /\ main = "call" /\ test <= Calls
  /\ server' = "resolve" /\ client' = "none"
  /\ pending' = FALSE /\ failed' = FALSE
  /\ IF test = 0
       THEN main' = "sleep" /\ UNCHANGED <<frame, ready>>
       ELSE main' = "spin" /\ frame' = TRUE /\ ready' = FALSE
  /\ UNCHANGED <<test, refused, dangling, terminated>>

\* The second is over, whether or not the server has come online in it.
Awake ==
  /\ main = "sleep"
  /\ main' = "join client" /\ client' = "connect"
  /\ UNCHANGED <<test, server, frame, ready, pending, failed, refused,
                 dangling, terminated>>

\* Mutant: RunServerThread does not wait.
ReturnAtOnce ==
  /\ main = "spin"
  /\ frame' = FALSE
  /\ main' = "join client" /\ client' = "connect"
  /\ UNCHANGED <<test, server, ready, pending, failed, refused, dangling,
                 terminated>>

\* RunServerThread returns, and the test runs its client.
ReturnWhenReady ==
  /\ main = "spin" /\ ready
  /\ frame' = FALSE
  /\ main' = "join client" /\ client' = "connect"
  /\ UNCHANGED <<test, server, ready, pending, failed, refused, dangling,
                 terminated>>

JoinClient ==
  /\ main = "join client" /\ client = "ended"
  /\ main' = "join server"
  /\ UNCHANGED <<test, server, client, frame, ready, pending, failed,
                 refused, dangling, terminated>>

JoinServer ==
  /\ main = "join server" /\ server = "ended"
  /\ main' = "call" /\ test' = test + 1
  /\ UNCHANGED <<server, client, frame, ready, pending, failed, refused,
                 dangling, terminated>>

MainStep ==
  StartServer \/ Awake \/ ReturnWhenReady \/ JoinClient \/ JoinServer

-----------------------------------------------------------------------------
(***************************************************************************)
(* The server's thread                                                     *)
(***************************************************************************)

\* In RunServerThread the thread refers to what by reference.
Uses(what) ==
  dangling' = IF test = 0 \/ frame THEN dangling ELSE dangling \cup {what}

\* An exception: TestTcp catches it, the thread of RunServerThread does not.
\* Accept blocks, but with an address length that nobody has set it may fail
\* once there is a connection; todo_fn(stream) may throw, or not be there.
ServerFails ==
  /\ \/ server \in {"resolve", "listen", "serve"}
     \/ server = "accept" /\ pending
  /\ server' = "ended"
  /\ terminated' = (test # 0)
  /\ UNCHANGED <<test, main, client, frame, ready, pending, failed, refused,
                 dangling>>

ServerResolves ==
  /\ server = "resolve"
  /\ server' = "listen"
  /\ Uses("addr")
  /\ UNCHANGED <<test, main, client, frame, ready, pending, failed, refused,
                 terminated>>

ServerListens ==
  /\ server = "listen"
  /\ server' = IF test = 0 THEN "accept" ELSE "ready"
  /\ UNCHANGED <<test, main, client, frame, ready, pending, failed, refused,
                 dangling, terminated>>

\* Mutant: the flag is never set.
ServerNeverReady == FALSE

\* Mutant: the flag is set too soon.
ServerIsReadyEarly ==
  /\ server = "listen" /\ test # 0 /\ ~ready
  /\ ready' = TRUE
  /\ Uses("ready")
  /\ UNCHANGED <<test, main, server, client, frame, pending, failed, refused,
                 terminated>>

ServerIsReady ==
  /\ server = "ready"
  /\ server' = "accept" /\ ready' = TRUE
  /\ Uses("ready")
  /\ UNCHANGED <<test, main, client, frame, pending, failed, refused,
                 terminated>>

ServerAccepts ==
  /\ server = "accept" /\ pending
  /\ server' = "serve"
  /\ UNCHANGED <<test, main, client, frame, ready, pending, failed, refused,
                 dangling, terminated>>

\* The thread ends after todo_fn(stream), or after the eight writes.
ServerServes ==
  /\ server = "serve"
  /\ server' = "ended"
  /\ Uses("todo_fn")
  /\ UNCHANGED <<test, main, client, frame, ready, pending, failed, refused,
                 terminated>>

ServerStep ==
  \/ ServerResolves \/ ServerListens \/ ServerIsReady
  \/ ServerAccepts \/ ServerServes \/ ServerFails

-----------------------------------------------------------------------------
(***************************************************************************)
(* The client                                                              *)
(***************************************************************************)

\* The kernel completes the connection to a socket that listens; otherwise
\* the client is refused and is done.
ClientConnects ==
  /\ client = "connect"
  /\ client' = IF Listening THEN "exchange" ELSE "ended"
  /\ pending' = Listening
  /\ refused' = IF Listening THEN refused ELSE refused \cup {test}
  /\ UNCHANGED <<test, main, server, frame, ready, failed, dangling,
                 terminated>>

\* Resolve or Connect throws, whoever listens: TestTcp catches it, and Run
\* returns false, which TestProtoClient1, the first call, asserts it does not
\* and TestProtoClient2 does not look at.  The kernel may have completed a
\* connection that this client never uses.
ClientFails ==
  /\ client = "connect"
  /\ client' = "ended" /\ failed' = TRUE
  /\ pending' \in {FALSE, Listening}
  /\ terminated' = (test = 1)
  /\ UNCHANGED <<test, main, server, frame, ready, refused, dangling>>

\* It has got what it waits for, or an end of file, or it has timed out.
ClientEnds ==
  /\ client = "exchange"
  /\ client' = "ended"
  /\ terminated' \in {FALSE, test = 1}
  /\ UNCHANGED <<test, main, server, frame, ready, pending, failed, refused,
                 dangling>>

ClientStep == ClientConnects \/ ClientFails \/ ClientEnds

Next == ~terminated /\ (MainStep \/ ServerStep \/ ClientStep)

Spec == Init /\ [][Next]_vars

\* Each of the three threads is run.
FairSpec ==
  /\ Spec
  /\ WF_vars(~terminated /\ MainStep)
  /\ WF_vars(~terminated /\ ServerStep)
  /\ WF_vars(~terminated /\ ClientStep)

-----------------------------------------------------------------------------
(***************************************************************************)
(* Properties                                                              *)
(***************************************************************************)

\* The flag is a handshake: a client of a server that RunServerThread has
\* started is never refused, however late that thread gets to run.
NobodyRefused == refused \subseteq {0}

\* Of what the thread refers to in RunServerThread, the address, the port and
\* the flag itself are used only while they exist.
FrameOutlivesUse == dangling \subseteq {"todo_fn"}

\* main joins a server that waits in accept, where no timeout ends the wait,
\* for a client that has ended: it failed before it was connected, or it came
\* too soon.
Stranded ==
  /\ main = "join server" /\ server = "accept" /\ ~pending
  /\ failed \/ test \in refused

\* The main thread gets through all tests, or an exception or an assert ends
\* the process: it never spins for ever, and joins for ever in one case only,
\* when the client of the test has come to its end without a connection.
AllTestsEnd == <>((main = "call" /\ test > Calls) \/ terminated \/ Stranded)

-----------------------------------------------------------------------------
\* "Callers must specify what should the server do (if anything) through the
\* todo_fn" (test.cpp): the server does it, with the todo_fn still there.
TodoFnIsThere == "todo_fn" \notin dangling
=============================================================================
