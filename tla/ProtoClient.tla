---------------------------- MODULE ProtoClient ----------------------------
(***************************************************************************)
(* ProtoClient (proto_client.hpp, proto_client.cpp): one object on which   *)
(* Run is called, once or more, by one thread.  Run resolves a name and    *)
(* goes through the addresses; RunOne connects and performs the login,     *)
(* submission and logout exchanges over one shared buffer, buf_.           *)
(*                                                                         *)
(* The peer is unconstrained: any byte stream is, under the client's own   *)
(* framing, a sequence of frames with some type, some declared length and  *)
(* a checksum that verifies or does not, so a read returns any frame or    *)
(* fails (timeout, end of file, error).  A frame fits buf_: ReadExact      *)
(* leaves the size of its memory to the caller.  A frame is kept to what   *)
(* the client looks at, which of the body is three chunks of the buffer,   *)
(*     1  body byte 0          (the login code; first byte of a token)     *)
(*     2  body bytes 1 to 31   (the rest of a token)                       *)
(*     3  body byte 32         (what follows the token field)              *)
(* each with what a C string reader sees in it and with who may have       *)
(* written it.                                                             *)
(***************************************************************************)
EXTENDS Naturals, Sequences

CONSTANTS MaxAddrs,     \* bound: addresses one name resolves to
          MaxRetries,   \* kMaxRetriesOnWrongChecksum (10 in the code)
          MaxRuns,      \* bound: calls of Run on one object
          PeerValues    \* bound: what the chunks of a frame may hold

ASSUME ProtoClientAssumption ==
  /\ MaxAddrs \in Nat
  /\ MaxRetries \in Nat \ {0}
  /\ MaxRuns \in Nat
  /\ PeerValues \subseteq {"text", "nul", "Y"} /\ "text" \in PeerValues

VARIABLES
  pc,         \* where the thread is
  addrs,      \* number of addresses of the current call
  cur,        \* the address being tried, 0 before the first
  phase,      \* the exchange RunOne is in, or the latest one has ended in
  tries,      \* i, the loop counter of the current Read...Response
  header_,    \* the header at the front of buf_
  buf_,       \* the body behind it
  token_,     \* token_, as the set of the writers of its bytes; {} is ""
  result,     \* what Run has returned
  runs,       \* history: calls of Run so far
  outcome,    \* history: how the latest RunOne of this call has ended
  wire        \* history: requests written whole, per address of this call

vars == <<pc, addrs, cur, phase, tries, header_, buf_, token_,
          result, runs, outcome, wire>>

-----------------------------------------------------------------------------
(***************************************************************************)
(* Data                                                                    *)
(***************************************************************************)
Chunks == 1..3

\* What a chunk holds: no NUL byte, a NUL byte somewhere, or, for the single
\* byte of chunk 1, the letter Y.
Values == {"text", "nul", "Y"}

\* Who wrote a chunk: nobody (buf_ is not initialised), the client's own
\* request, an earlier frame, or the latest frame.
Writers == {"nobody", "request", "earlier", "frame"}

ChunkContents == [val : Values, by : SUBSET Writers]

\* 'E', 'R' and 'G' are the responses; any other type is one value, "?".
ResponseTypes == {"E", "R", "G", "?"}
RequestTypes == {"L", "S", "O"}

\* Declared body length, MsgLen minus the header's 13 bytes, when that is not
\* negative ("short"): no byte, byte 0, a part of the token field, the whole
\* field, the whole field and more.
BodyLengths == 0..4

\* The chunks a body of length n covers, and the one it covers a part of.
Covered(c, n) == \/ c = 1 /\ n >= 1
                 \/ c = 2 /\ n >= 3
                 \/ c = 3 /\ n = 4
Cut(c, n) == c = 2 /\ n = 2

Header == [type : ResponseTypes \cup RequestTypes, short : BOOLEAN,
           len : BodyLengths, intact : BOOLEAN]

ReceivedHeader ==
  {h \in [type : ResponseTypes, short : BOOLEAN, len : BodyLengths,
          intact : BOOLEAN] : h.short => h.len = 0}

Phases == {"login", "submission", "logout"}

\* Every text of the two requests with a body is shorter than 31 bytes and
\* is padded with NUL bytes to its 64, so it ends inside chunk 2.
RequestBody ==
  [c \in Chunks |-> [val |-> IF c = 1 THEN "text" ELSE "nul",
                     by  |-> {"request"}]]

\* The bytes of a body of length n, just read, lie over what was there.  In a
\* chunk that is cut the NUL byte may be in what is new or in what is left.
Overlay(n, vals) ==
  [c \in Chunks |->
     IF Covered(c, n)
       THEN [val |-> vals[c], by |-> {"frame"}]
       ELSE IF Cut(c, n)
              THEN [val |-> vals[c], by |-> buf_[c].by \cup {"frame"}]
              ELSE buf_[c]]

\* What was read before is no longer the latest frame.
Aged ==
  [c \in Chunks |-> IF "frame" \in buf_[c].by
                      THEN [val |-> buf_[c].val,
                            by  |-> (buf_[c].by \ {"frame"})
                                      \cup {"earlier"}]
                      ELSE buf_[c]]

\* Who may have written the bytes of SubmissionResponse::Token().
\* std::string{b} stops at the first NUL byte, wherever that is, not after
\* the field's 32 bytes; past byte 32 it goes on into the rest of buf_, which
\* anyone may have written, or nobody.
TokenText(b) ==
  CASE b[1].val = "nul" -> {}
    [] b[1].val # "nul" /\ (b[2].val = "nul" \/ b[3].val = "nul")
         -> b[1].by \cup b[2].by
    [] OTHER -> Writers

\* Chunk contents out of a set of values; what the peer may send as a body.
ContentsOf(vals) == {v \in [Chunks -> vals] : v[2] # "Y" /\ v[3] # "Y"}
Bodies == ContentsOf(PeerValues)

-----------------------------------------------------------------------------
(***************************************************************************)
(* Run: resolving, and the loop over the addresses                         *)
(***************************************************************************)
Init ==
  /\ pc = "idle" /\ phase = "login"
  /\ addrs = 0 /\ cur = 0 /\ tries = 0 /\ runs = 0
  /\ header_ = [type |-> "?", short |-> TRUE, len |-> 0, intact |-> FALSE]
  /\ \E v \in ContentsOf(Values) :
       buf_ = [c \in Chunks |-> [val |-> v[c], by |-> {"nobody"}]]
  /\ token_ = {}
  /\ result = "none" /\ outcome = "none"
  /\ wire = [a \in 1..MaxAddrs |-> <<>>]

\* A call starts: Run's locals are fresh, the object's members are not, and
\* phase still tells of the RunOne before.
Enter ==
  /\ pc = "idle" /\ runs < MaxRuns
  /\ runs' = runs + 1
  /\ cur' = 0 /\ tries' = 0
  /\ result' = "none" /\ outcome' = "none"
  /\ wire' = [a \in 1..MaxAddrs |-> <<>>]
  /\ UNCHANGED <<phase, header_, buf_, token_>>

\* Run(addr, port)
CallRun ==
  /\ Enter
  /\ pc' = "resolve"
  /\ addrs' = 0

\* Run(addrs), with n addresses in the vector
CallRunOnAddrs ==
  /\ Enter
  /\ pc' = "loop"
  /\ addrs' \in 0..MaxAddrs

\* Run returns r to its caller.
Return(r) ==
  /\ pc' = "idle"
  /\ result' = r

\* Resolve yields at least one address and Run goes on to the loop.
Resolve ==
  /\ pc = "resolve"
  /\ addrs' \in 1..MaxAddrs
  /\ pc' = "loop"
  /\ UNCHANGED <<cur, phase, tries, header_, buf_, token_, result, runs,
                 outcome, wire>>

\* Resolve throws, or yields no address and Run itself throws: both are
\* caught in Run, which returns false before any RunOne.
ResolveFails ==
  /\ pc = "resolve"
  /\ Return("false")
  /\ UNCHANGED <<addrs, cur, phase, tries, header_, buf_, token_, runs,
                 outcome, wire>>

\* Mutant: RunOne keeps the token of the attempt before.
TryNextKeepsToken ==
  /\ pc = "loop" /\ cur < addrs
  /\ cur' = cur + 1
  /\ phase' = "login"
  /\ outcome' = "none"
  /\ pc' = "connect"
  /\ UNCHANGED <<addrs, tries, header_, buf_, token_, result, runs, wire>>

\* The loop takes the next address and enters RunOne, which forgets the
\* token before it connects.
TryNext ==
  /\ pc = "loop" /\ cur < addrs
  /\ cur' = cur + 1
  /\ token_' = {}
  /\ phase' = "login"
  /\ outcome' = "none"
  /\ pc' = "connect"
  /\ UNCHANGED <<addrs, tries, header_, buf_, result, runs, wire>>

\* Mutant: the last address is not tried.
ExhaustedTooEarly ==
  /\ pc = "loop" /\ cur + 1 >= addrs
  /\ Return("false")
  /\ UNCHANGED <<addrs, cur, phase, tries, header_, buf_, token_, runs,
                 outcome, wire>>

\* The loop has no address left.
Exhausted ==
  /\ pc = "loop" /\ cur = addrs
  /\ Return("false")
  /\ UNCHANGED <<addrs, cur, phase, tries, header_, buf_, token_, runs,
                 outcome, wire>>

\* Mutant: Run hands on whatever RunOne returns, and loops on a throw only.
EndRunOneReturnsFalse(o) ==
  /\ outcome' = o
  /\ IF o = "throw" THEN pc' = "loop" /\ UNCHANGED result
                    ELSE Return(o)

\* RunOne ends with o: true ends the call, false and a throw (caught in the
\* loop) lead back to the loop.
EndRunOne(o) ==
  /\ outcome' = o
  /\ IF o = "true" THEN Return("true")
                   ELSE pc' = "loop" /\ UNCHANGED result

-----------------------------------------------------------------------------
(***************************************************************************)
(* RunOne: connecting and writing                                          *)
(***************************************************************************)

\* TcpClient::Connect and the TcpStream constructor: a stream, or a throw.
Connect ==
  /\ pc = "connect"
  /\ \/ pc' = "write" /\ UNCHANGED <<result, outcome>>
     \/ EndRunOne("throw")
  /\ UNCHANGED <<addrs, cur, phase, tries, header_, buf_, token_, runs, wire>>

\* WriteExact: the request leaves whole and its response is read next;
\* or write fails, part of it perhaps gone; or the connection was reset
\* and SIGPIPE, which nothing in the program handles, ends the process.
WriteExact(type) ==
  \/ /\ pc' = "header" /\ tries' = 0
     /\ wire' = [wire EXCEPT ![cur] = Append(@, type)]
     /\ UNCHANGED <<result, outcome>>
  \/ EndRunOne("throw") /\ UNCHANGED <<tries, wire>>
  \/ pc' = "killed" /\ UNCHANGED <<tries, wire, result, outcome>>

\* The request's header, checksum included, as it is put in buf_.
RequestHeader(type, n) ==
  [type |-> type, short |-> FALSE, len |-> n, intact |-> TRUE]

\* Mutant: the user and the password are not put in the buffer.
WriteLoginRequestNoFields ==
  /\ pc = "write" /\ phase = "login"
  /\ header_' = RequestHeader("L", 3)
  /\ WriteExact("L")
  /\ UNCHANGED <<addrs, cur, phase, buf_, token_, runs>>

WriteLoginRequest ==
  /\ pc = "write" /\ phase = "login"
  /\ header_' = RequestHeader("L", 3)
  /\ buf_' = RequestBody
  /\ WriteExact("L")
  /\ UNCHANGED <<addrs, cur, phase, token_, runs>>

WriteSubmissionRequest ==
  /\ pc = "write" /\ phase = "submission"
  /\ header_' = RequestHeader("S", 3)
  /\ buf_' = RequestBody
  /\ WriteExact("S")
  /\ UNCHANGED <<addrs, cur, phase, token_, runs>>

\* A logout request has no body: what was in the buffer stays there.
WriteLogoutRequest ==
  /\ pc = "write" /\ phase = "logout"
  /\ header_' = RequestHeader("O", 0)
  /\ WriteExact("O")
  /\ UNCHANGED <<addrs, cur, phase, buf_, token_, runs>>

-----------------------------------------------------------------------------
(***************************************************************************)
(* RunOne: reading                                                         *)
(***************************************************************************)

\* ReadExact on the 13 header bytes; a declared length below 13 throws.
ReadHeader ==
  /\ pc = "header"
  /\ header_' \in ReceivedHeader
  /\ buf_' = Aged
  /\ IF header_'.short
       THEN EndRunOne("throw")
       ELSE pc' = "body" /\ UNCHANGED <<result, outcome>>
  /\ UNCHANGED <<addrs, cur, phase, tries, token_, runs, wire>>

\* ReadExact throws: nothing came within the receive timeout, the peer has
\* shut down, or read failed.  A body may have been read in part.
ReadFails ==
  /\ pc \in {"header", "body"}
  /\ buf_' \in IF pc = "body"
                 THEN {Overlay(n, v) : n \in 0..header_.len, v \in Bodies}
                 ELSE {buf_}
  /\ EndRunOne("throw")
  /\ UNCHANGED <<addrs, cur, phase, tries, header_, token_, runs, wire>>

\* The body has been read whole.
BodyRead ==
  /\ pc = "body"
  /\ \E v \in Bodies : buf_' = Overlay(header_.len, v)

\* The checksum does not verify: the frame is dropped, and the loop reads
\* another one or, its rounds used up, makes the caller return false.
BadFrame(another) ==
  /\ BodyRead
  /\ ~header_.intact
  /\ tries' = tries + 1
  /\ IF another THEN pc' = "header" /\ UNCHANGED <<result, outcome>>
                ELSE EndRunOne("false")
  /\ UNCHANGED <<addrs, cur, phase, header_, token_, runs, wire>>

\* Mutants: one round too many, one too few.
RejectFrameTooLate == BadFrame(tries < MaxRetries)
RejectFrameTooEarly == BadFrame(tries + 2 < MaxRetries)

\* Mutant: the rounds are not counted.
RejectFrameForever ==
  /\ BodyRead
  /\ ~header_.intact
  /\ pc' = "header"
  /\ UNCHANGED <<addrs, cur, phase, tries, header_, token_, result, runs,
                 outcome, wire>>

\* Mutant: after a bad frame the request is sent again.
RejectFrameSendsAgain ==
  /\ BodyRead
  /\ ~header_.intact
  /\ pc' = "write"
  /\ UNCHANGED <<addrs, cur, phase, tries, header_, token_, result, runs,
                 outcome, wire>>

RejectFrame == BadFrame(tries + 1 < MaxRetries)

\* Mutant: a frame is looked at before its checksum.
ReadLoginResponseUnchecked ==
  /\ BodyRead
  /\ phase = "login"
  /\ header_.type = "E" /\ buf_'[1].val = "Y"
  /\ phase' = "submission" /\ pc' = "write"
  /\ UNCHANGED <<addrs, cur, tries, header_, token_, result, runs, outcome,
                 wire>>

\* Mutant: a goodbye in place of the login response ends RunOne with true.
ReadLoginResponseGoodbyeTrue ==
  /\ BodyRead
  /\ header_.intact /\ phase = "login"
  /\ \/ /\ header_.type = "E" /\ buf_'[1].val = "Y"
        /\ phase' = "submission" /\ pc' = "write"
        /\ UNCHANGED <<result, outcome>>
     \/ /\ header_.type = "G"
        /\ EndRunOne("true") /\ UNCHANGED phase
  /\ UNCHANGED <<addrs, cur, tries, header_, token_, runs, wire>>

\* An intact frame while the login response is due.
ReadLoginResponse ==
  /\ BodyRead
  /\ header_.intact /\ phase = "login"
  /\ \/ /\ header_.type = "E" /\ buf_'[1].val = "Y"
        /\ phase' = "submission" /\ pc' = "write"
        /\ UNCHANGED <<result, outcome>>
     \/ /\ header_.type = "E" /\ buf_'[1].val # "Y"
        /\ EndRunOne("throw") /\ UNCHANGED phase
     \/ /\ header_.type = "G"
        /\ EndRunOne("false") /\ UNCHANGED phase
     \/ /\ header_.type \notin {"E", "G"}
        /\ EndRunOne("throw") /\ UNCHANGED phase
  /\ UNCHANGED <<addrs, cur, tries, header_, token_, runs, wire>>

\* Mutant: the token is taken before the body has been read.
ReadSubmissionResponseTooSoon ==
  /\ BodyRead
  /\ header_.intact /\ phase = "submission" /\ header_.type = "R"
  /\ token_' = TokenText(buf_)
  /\ phase' = "logout" /\ pc' = "write"
  /\ UNCHANGED <<addrs, cur, tries, header_, result, runs, outcome, wire>>

\* Mutant: a client that has its token leaves without a logout.
ReadSubmissionResponseLeaves ==
  /\ BodyRead
  /\ header_.intact /\ phase = "submission" /\ header_.type = "R"
  /\ token_' = TokenText(buf_')
  /\ EndRunOne("true")
  /\ UNCHANGED <<addrs, cur, phase, tries, header_, runs, wire>>

\* An intact frame while the submission response is due.
ReadSubmissionResponse ==
  /\ BodyRead
  /\ header_.intact /\ phase = "submission"
  /\ \/ /\ header_.type = "R"
        /\ token_' = TokenText(buf_')
        /\ phase' = "logout" /\ pc' = "write"
        /\ UNCHANGED <<result, outcome>>
     \/ /\ header_.type = "G"
        /\ EndRunOne("false") /\ UNCHANGED <<phase, token_>>
     \/ /\ header_.type \notin {"R", "G"}
        /\ EndRunOne("throw") /\ UNCHANGED <<phase, token_>>
  /\ UNCHANGED <<addrs, cur, tries, header_, runs, wire>>

\* An intact frame while the logout response is due: its type is not
\* looked at.
ReadLogoutResponse ==
  /\ BodyRead
  /\ header_.intact /\ phase = "logout"
  /\ EndRunOne("true")
  /\ UNCHANGED <<addrs, cur, phase, tries, header_, token_, runs, wire>>

-----------------------------------------------------------------------------
\* What the thread does once it is inside Run.
InRun ==
  \/ Resolve \/ ResolveFails \/ TryNext \/ Exhausted
  \/ Connect
  \/ WriteLoginRequest \/ WriteSubmissionRequest \/ WriteLogoutRequest
  \/ ReadHeader \/ ReadFails \/ RejectFrame
  \/ ReadLoginResponse \/ ReadSubmissionResponse \/ ReadLogoutResponse

Next == CallRun \/ CallRunOnAddrs \/ InRun

Spec == Init /\ [][Next]_vars

\* Every call inside Run comes back: getaddrinfo gives up, select waits for
\* one second, a read or write on the blocking socket for five.
FairSpec == Spec /\ WF_vars(InRun)

-----------------------------------------------------------------------------
(***************************************************************************)
(* Properties                                                              *)
(***************************************************************************)

\* Type invariant of ProtoClient's members, of the locals of Run and RunOne,
\* and of the histories; i never passes kMaxRetriesOnWrongChecksum.
TypeOK ==
  /\ pc \in {"idle", "resolve", "loop", "connect", "write", "header", "body",
             "killed"}
  /\ addrs \in 0..MaxAddrs /\ cur \in 0..addrs
  /\ phase \in Phases
  /\ tries \in 0..MaxRetries
  /\ header_ \in Header
  /\ buf_ \in [Chunks -> ChunkContents]
  /\ token_ \subseteq Writers
  /\ result \in {"none", "true", "false"}
  /\ runs \in 0..MaxRuns
  /\ outcome \in {"none", "true", "false", "throw"}
  /\ wire \in [1..MaxAddrs -> Seq(RequestTypes)]

\* The requests of one connection, in the only order RunOne knows.
Scripts == {<<>>, <<"L">>, <<"L", "S">>, <<"L", "S", "O">>}

\* However many frames are rejected, a connection carries each request at
\* most once and in order, and only addresses already tried are written to:
\* a retry reads again, it never sends again.
OneScriptPerAddress ==
  \A a \in 1..MaxAddrs :
    /\ wire[a] \in Scripts
    /\ a > cur => wire[a] = <<>>

\* Run returns true only when all three requests went over the connection
\* it ends on, and false only when every address has been tried.
VerdictSound ==
  /\ result = "true" => cur > 0 /\ wire[cur] = <<"L", "S", "O">>
  /\ result = "false" => cur = addrs /\ outcome # "true"

\* A non-empty Token() is always that of the latest RunOne, and that RunOne
\* has got as far as the logout, over a connection that has carried a login
\* and a submission: a token never survives another RunOne, in the same call
\* of Run or in the next.  That is all a token says.  Its own RunOne may have
\* failed at the logout and Run have returned false; and a call of Run that
\* enters no RunOne, as when the name does not resolve, leaves it there.
TokenIsOfLatestAttempt ==
  token_ # {} =>
    /\ phase = "logout"
    /\ cur > 0 => wire[cur] \in {<<"L", "S">>, <<"L", "S", "O">>}

\* The login code is never read from bytes of buf_ that nobody has written,
\* and the token only if neither the 32 bytes of its field nor the byte
\* behind it is a NUL.
NothingUninitialised ==
  /\ (pc = "write" /\ phase = "submission") => "nobody" \notin buf_[1].by
  /\ (pc = "write" /\ phase = "logout" /\ "nobody" \in token_)
       => \A c \in Chunks : buf_[c].val # "nul"

\* A submission is sent only after an intact 'E' frame whose code is Y, and
\* that Y never comes from the client's own login request: it is the
\* frame's, or, if the frame has no body, that of a frame rejected before.
LoggedInOnY ==
  (pc = "write" /\ phase = "submission") =>
    /\ header_.type = "E" /\ header_.intact
    /\ buf_[1].val = "Y"
    /\ \/ buf_[1].by = {"frame"} /\ header_.len > 0
       \/ buf_[1].by = {"earlier"} /\ header_.len = 0 /\ tries > 0

\* A frame that fills the token field gives the token from its own bytes
\* alone if the field, or the byte behind it, ends the string; and that byte
\* does end it when the frame is the first to answer and stops right there,
\* since the padding of the client's own request still stands behind it.
FullResponseGivesItsToken ==
  (/\ pc = "write" /\ phase = "logout"
   /\ \/ header_.len >= 3 /\ (buf_[2].val = "nul" \/ buf_[3].val = "nul")
      \/ header_.len = 3 /\ tries = 0) => token_ \subseteq {"frame"}

\* RunOne returns false for two reasons only: kMaxRetriesOnWrongChecksum
\* frames in a row were bad, or the peer said goodbye before its time.
FalseMeansBudgetOrGoodbye ==
  (outcome = "false" /\ pc \in {"loop", "idle"}) =>
    \/ tries = MaxRetries /\ ~header_.intact
    \/ header_.type = "G" /\ header_.intact /\ phase # "logout"

\* Run comes back, or the process has been killed in it: neither the loop
\* over the addresses nor the one over bad frames goes on for ever.
RunReturns == (pc # "idle") ~> (pc \in {"idle", "killed"})

-----------------------------------------------------------------------------
(***************************************************************************)
(* ProtoClient implements RunContract                                      *)
(***************************************************************************)
Verdict ==
  CASE pc = "killed" -> "killed"
    [] pc = "resolve" -> "resolving"
    [] pc = "idle" -> result
    [] OTHER -> "running"

\* Exchanges completed on the current address, if there is one.
Stage ==
  CASE outcome = "true" -> 3
    [] outcome # "true" /\ (cur = 0 \/ phase = "login") -> 0
    [] outcome # "true" /\ cur > 0 /\ phase = "submission" -> 1
    [] outcome # "true" /\ cur > 0 /\ phase = "logout" -> 2

Contract == INSTANCE RunContract
              WITH verdict <- Verdict, limit <- addrs, tried <- cur,
                   stage <- Stage, calls <- runs

\* Each step of the client is a step of the contract or changes nothing in
\* it, and the client goes on as the contract asks.
ImplementsContract == Contract!FairSpec

-----------------------------------------------------------------------------
\* "Try to read the submission response. If successful, returns true": the
\* token then comes from the response.
TokenComesFromResponse ==
  (pc = "write" /\ phase = "logout") => token_ \subseteq {"frame"}
=============================================================================
