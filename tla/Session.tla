------------------------------ MODULE Session ------------------------------
(***************************************************************************)
(* The client and a server: ProtoClient over a connection whose other end  *)
(* is one of the four servers of TestProtoClient1 and TestProtoClient2     *)
(* (test.cpp), in the two threads of one process.  Every step of the       *)
(* client is a step of ProtoClient with the frame that the server has      *)
(* really sent.  The server is at the last of the addresses; nobody        *)
(* listens at the others.  The client may fail to resolve the name, or to  *)
(* connect where the server does listen.                                   *)
(*                                                                         *)
(* A message written whole is read whole (TcpStream).  Time is one bit:    *)
(* whether some thread has been kept from running for a second or more,    *)
(* without which no timeout runs out and no message is too old.            *)
(***************************************************************************)
EXTENDS ProtoClient

VARIABLES
  server,      \* which todo_fn the server's thread runs
  spc,         \* where that thread is
  sphase,      \* the exchange it is in
  connected,   \* the kernel has a connection to it
  c2s, s2c,    \* the messages under way to the server and to the client
  reset,       \* the server's end has answered with a reset
  slow,        \* history: a thread has lost a second or more
  failed       \* history: Resolve, or Connect to the server, has failed

serverVars == <<server, spc, sphase>>
sessionVars == <<vars, serverVars, connected, c2s, s2c, reset, slow, failed>>

Servers == {"closes", "badGoodbye", "goodGoodbye", "success"}

SessionInit ==
  /\ Init
  /\ server \in Servers /\ spc = "accept" /\ sphase = "login"
  /\ connected = FALSE /\ reset = FALSE /\ slow = FALSE /\ failed = FALSE
  /\ c2s = <<>> /\ s2c = <<>>

\* The client still holds the stream that Accept has the other end of.
ClientOpen == connected /\ pc \in {"write", "header", "body"}

-----------------------------------------------------------------------------
(***************************************************************************)
(* The client                                                              *)
(***************************************************************************)

\* Each test calls Run once, on a name or on addresses; and the steps between
\* two connections.
ClientMoves ==
  /\ \/ runs = 0 /\ CallRun
     \/ runs = 0 /\ CallRunOnAddrs /\ addrs' > 0
     \/ Resolve \/ TryNext \/ Exhausted
  /\ UNCHANGED <<serverVars, connected, c2s, s2c, reset, slow, failed>>

\* getaddrinfo fails, or knows no address: Run is over.
ClientResolveFails ==
  /\ ResolveFails
  /\ failed' = TRUE
  /\ UNCHANGED <<serverVars, connected, c2s, s2c, reset, slow>>

\* The server has been listening since before Run was called.
ClientConnects ==
  /\ Connect
  /\ pc' = IF cur = addrs THEN "write" ELSE "loop"
  /\ connected' = (cur = addrs)
  /\ UNCHANGED <<serverVars, c2s, s2c, reset, slow, failed>>

\* Connect throws all the same: no descriptor was left, the second of
\* ConnectWithTimeout ran out, a call in it failed, or a timeout could not be
\* set.  By then the kernel may have completed the connection, which the
\* client never uses: it has closed the socket or has lost its descriptor.
ClientConnectFails ==
  /\ Connect
  /\ cur = addrs /\ pc' = "loop"
  /\ connected' \in BOOLEAN
  /\ failed' = TRUE
  /\ UNCHANGED <<serverVars, c2s, s2c, reset, slow>>

\* A request is written: to the server, or, if it has closed, in vain, which
\* a reset answers; after a reset there is only the error, or SIGPIPE.
ClientWrites ==
  /\ WriteLoginRequest \/ WriteSubmissionRequest \/ WriteLogoutRequest
  /\ IF reset THEN pc' # "header" ELSE pc' = "header"
  /\ c2s' = IF spc = "closed" THEN c2s ELSE Append(c2s, header_'.type)
  /\ reset' = (spc = "closed")
  /\ UNCHANGED <<serverVars, connected, s2c, slow, failed>>

ClientReadsHeader ==
  /\ s2c # <<>>
  /\ ReadHeader
  /\ header_' = Head(s2c).header
  /\ UNCHANGED <<serverVars, connected, c2s, s2c, reset, slow, failed>>

ClientReadsBody ==
  /\ RejectFrame \/ ReadLoginResponse \/ ReadSubmissionResponse
                 \/ ReadLogoutResponse
  /\ buf_' = Overlay(header_.len, Head(s2c).body)
  /\ s2c' = Tail(s2c)
  /\ UNCHANGED <<serverVars, connected, c2s, reset, slow, failed>>

\* The end of the stream, a reset, or nothing for five seconds.
ClientReadFails ==
  /\ pc = "header" /\ s2c = <<>>
  /\ spc = "closed" \/ slow
  /\ ReadFails
  /\ UNCHANGED <<serverVars, connected, c2s, s2c, reset, slow, failed>>

ClientStep ==
  \/ ClientMoves \/ ClientResolveFails
  \/ ClientConnects \/ ClientConnectFails \/ ClientWrites
  \/ ClientReadsHeader \/ ClientReadsBody \/ ClientReadFails

-----------------------------------------------------------------------------
(***************************************************************************)
(* The server's thread                                                     *)
(***************************************************************************)
Accept ==
  /\ spc = "accept" /\ connected
  /\ spc' = IF server = "closes" THEN "close" ELSE "read"
  /\ UNCHANGED <<vars, server, sphase, connected, c2s, s2c, reset, slow,
                 failed>>

Expected == [login |-> "L", submission |-> "S", logout |-> "O"]

\* Mutant: the server does not wait for the request.
ServerReadsNothing ==
  /\ spc = "read" /\ spc' = "respond"
  /\ UNCHANGED <<vars, server, sphase, connected, c2s, s2c, reset, slow,
                 failed>>

\* The request of this exchange, not a second old, or an assert fails and
\* aborts the process.
ServerReads ==
  /\ spc = "read" /\ c2s # <<>>
  /\ c2s' = Tail(c2s)
  /\ \/ spc' = "respond" /\ Head(c2s) = Expected[sphase]
     \/ spc' = "aborted" /\ (Head(c2s) # Expected[sphase] \/ slow)
  /\ UNCHANGED <<vars, server, sphase, connected, s2c, reset, slow, failed>>

\* ReadExact throws: nothing in the thread catches it, and the process is
\* terminated.
ServerReadFails ==
  /\ spc = "read" /\ c2s = <<>>
  /\ ~ClientOpen \/ slow
  /\ spc' = "aborted"
  /\ UNCHANGED <<vars, server, sphase, connected, c2s, s2c, reset, slow,
                 failed>>

Frame(type, n, intact, first) ==
  [header |-> [type |-> type, short |-> FALSE, len |-> n, intact |-> intact],
   body |-> <<first, "nul", "nul">>]

\* Mutant: the logout response carries no checksum either.
ResponseUnchecked ==
  IF server = "success"
    THEN [login |-> Frame("E", 4, TRUE, "Y"),
          submission |-> Frame("R", 3, TRUE, "text"),
          logout |-> Frame("G", 3, FALSE, "text")][sphase]
    ELSE Frame("G", 3, server = "goodGoodbye", "text")

\* The goodbyes of TestProtoClient2, without a checksum and with one, and
\* RunServerSuccessful, whose logout response has, for a reason, what its
\* buffer still holds: the token.
Response ==
  IF server = "success"
    THEN [login |-> Frame("E", 4, TRUE, "Y"),
          submission |-> Frame("R", 3, TRUE, "text"),
          logout |-> Frame("G", 3, TRUE, "text")][sphase]
    ELSE Frame("G", 3, server = "goodGoodbye", "text")

\* Mutant: the server goes on without a request.
ServerRespondsAhead ==
  /\ spc = "respond"
  /\ s2c' = Append(s2c, Response)
  /\ IF server = "success" /\ sphase # "logout"
       THEN /\ spc' = "respond"
            /\ sphase' = IF sphase = "login" THEN "submission" ELSE "logout"
       ELSE spc' = "close" /\ UNCHANGED sphase
  /\ UNCHANGED <<vars, server, connected, c2s, reset, slow, failed>>

\* To a client that is gone, the response goes in vain.
ServerResponds ==
  /\ spc = "respond"
  /\ s2c' = IF ClientOpen THEN Append(s2c, Response) ELSE s2c
  /\ IF server = "success" /\ sphase # "logout"
       THEN /\ spc' = "read"
            /\ sphase' = IF sphase = "login" THEN "submission" ELSE "logout"
       ELSE spc' = "close" /\ UNCHANGED sphase
  /\ UNCHANGED <<vars, server, connected, c2s, reset, slow, failed>>

\* After a second of sleep, or at once, the stream is destroyed; what has not
\* been read makes the kernel reset the connection.
ServerCloses ==
  /\ spc = "close"
  /\ spc' = "closed"
  /\ reset' = (c2s # <<>>)
  /\ c2s' = <<>>
  /\ UNCHANGED <<vars, server, sphase, connected, s2c, slow, failed>>

ServerStep ==
  \/ Accept \/ ServerReads \/ ServerReadFails \/ ServerResponds
  \/ ServerCloses

-----------------------------------------------------------------------------
\* A thread loses a second or more.
Delay ==
  /\ ~slow /\ slow' = TRUE
  /\ UNCHANGED <<vars, serverVars, connected, c2s, s2c, reset, failed>>

Alive == pc # "killed" /\ spc # "aborted"

SessionNext == Alive /\ (ClientStep \/ ServerStep \/ Delay)

SessionSpec == SessionInit /\ [][SessionNext]_sessionVars

\* Both threads are run.
FairSessionSpec ==
  /\ SessionSpec
  /\ WF_sessionVars(Alive /\ ClientStep)
  /\ WF_sessionVars(Alive /\ ServerStep)

-----------------------------------------------------------------------------
(***************************************************************************)
(* Properties                                                              *)
(***************************************************************************)

\* Run has returned and the server's thread can be joined.
TestOver == pc = "idle" /\ result # "none" /\ spc = "closed"

\* What the tests assert of the token, and the verdict that goes with it: a
\* token after the three exchanges, none after a goodbye, rejected or not, and
\* none from a server that hangs up.
OutcomeAsAsserted ==
  (TestOver /\ ~slow) =>
    /\ result = IF server = "success" THEN "true" ELSE "false"
    /\ token_ = IF server = "success" THEN {"frame"} ELSE {}

\* No assert of a server fails and no exception leaves its thread, unless a
\* second was lost or the client failed before its first request: otherwise
\* its requests come in the order asserted, and it hangs up on no server that
\* still waits for one.
ServerIsSafe == spc = "aborted" => slow \/ failed

\* At most one message is under way, in either direction; none is left when
\* the test is over, but the request that a server hangs up on.
LockStep ==
  /\ Len(c2s) + Len(s2c) <= 1
  /\ TestOver => c2s = <<>> /\ s2c = <<>>

\* The process never gets a SIGPIPE from the client: it never writes a second
\* time to a server that has hung up.
NeverKilled == pc # "killed"

\* Run has returned without the server ever having had a connection: it
\* stays in accept, where no timeout ends the wait, and join with it (but in
\* TestProtoClient1 an assert on Run ends the process before the join).
Stranded ==
  /\ pc = "idle" /\ result = "false" /\ failed
  /\ spc = "accept" /\ ~connected

\* The main thread is left waiting, in Run or in join, in one case only: the
\* client could not resolve the name or connect.  Nothing the two sides say
\* to each other, and no second lost, does that.
TestEnds == <>(TestOver \/ ~Alive \/ Stranded)
=============================================================================
