--------------------------- MODULE SessionProofs ---------------------------
(***************************************************************************)
(* The client keeps in step with every server of the tests, for every      *)
(* number of addresses and of retries.  The inductive invariant says who   *)
(* owes whom a message in each state of the client; the last theorems say  *)
(* who may be left waiting, as far as safety goes: never one of the two    *)
(* for the other, but join for a server that no client has reached.        *)
(***************************************************************************)
EXTENDS Session, ProtoClientProofs, TLAPS

Quiet == c2s = <<>> /\ s2c = <<>>

\* Until there is a connection nothing is under way.
Before ==
  /\ cur \in Nat /\ addrs \in Nat
  /\ runs = 0 => pc = "idle" /\ ~connected
  /\ pc = "connect" => phase = "login" /\ token_ = {}
  /\ ~connected =>
       /\ pc \in {"idle", "resolve", "loop", "connect"}
       /\ spc = "accept" /\ Quiet /\ ~reset
  /\ connected =>
       /\ pc \in {"write", "header", "body", "loop", "idle"}
       /\ runs # 0 /\ cur = addrs

\* What the server's own code makes of its variables.
ServerShape ==
  /\ server \in Servers /\ phase \in Phases /\ sphase \in Phases
  /\ connected \in BOOLEAN /\ slow \in BOOLEAN /\ failed \in BOOLEAN
  /\ spc \in {"accept", "read", "respond", "close", "closed", "aborted"}
  /\ spc = "accept" => sphase = "login"
  /\ sphase # "login" => server = "success"
  /\ server = "closes" => spc \in {"accept", "close", "closed"}
  /\ (spc = "close" /\ server = "success") => sphase = "logout"
  /\ (spc \in {"respond", "closed"}
       \/ (spc = "close" /\ server # "closes")) => c2s = <<>>
  /\ reset => server = "closes"
  /\ c2s = <<>> \/ \E r \in RequestTypes : c2s = <<r>>
  /\ spc = "aborted" => slow \/ failed

\* The client is about to write.
Writing ==
  /\ Quiet /\ ~reset /\ sphase = phase
  /\ \/ spc = "read" /\ server # "closes"
     \/ spc = "accept"
     \/ spc \in {"close", "closed"} /\ server = "closes"

\* f is the response to the request of this exchange.
Answered(f) ==
  \/ /\ server = "success" /\ phase = "login"
     /\ spc = "read" /\ sphase = "submission"
     /\ f = Frame("E", 4, TRUE, "Y")
  \/ /\ server = "success" /\ phase = "submission"
     /\ spc = "read" /\ sphase = "logout"
     /\ f = Frame("R", 3, TRUE, "text")
  \/ /\ server = "success" /\ phase = "logout"
     /\ spc \in {"close", "closed"} /\ f = Frame("G", 3, TRUE, "text")
  \/ /\ server = "badGoodbye" /\ phase = "login"
     /\ spc \in {"close", "closed"} /\ f = Frame("G", 3, FALSE, "text")
  \/ /\ server = "goodGoodbye" /\ phase = "login"
     /\ spc \in {"close", "closed"} /\ f = Frame("G", 3, TRUE, "text")

\* A response is under way to the client.
Answering == c2s = <<>> /\ \E f : s2c = <<f>> /\ Answered(f)

\* The client waits for a response, or for the end of the stream.
Waiting ==
  \/ /\ s2c = <<>> /\ c2s = <<Expected[phase]>> /\ sphase = phase
     /\ \/ spc = "read"
        \/ spc = "accept"
        \/ spc = "close" /\ server = "closes"
  \/ Quiet /\ spc = "respond" /\ sphase = phase
  \/ Answering
  \/ /\ Quiet /\ spc \in {"close", "closed"}
     /\ server \in {"closes", "badGoodbye"} /\ phase = "login"

\* The client has hung up.
Left ==
  /\ s2c = <<>>
  /\ ~slow /\ ~failed =>
       /\ spc \in {"close", "closed"}
       /\ pc = "loop" => server # "success" /\ token_ = {}
       /\ pc = "idle" =>
            /\ result = IF server = "success" THEN "true" ELSE "false"
            /\ token_ = IF server = "success" THEN {"frame"} ELSE {}

\* The client has failed before its first request: it is at its last address
\* or done, and a server that has got the connection gets nothing over it.
Failed ==
  failed =>
    /\ runs # 0 /\ pc \in {"loop", "idle"}
    /\ pc = "loop" => cur = addrs
    /\ pc = "idle" => result = "false"
    /\ connected =>
         /\ Quiet /\ token_ = {}
         /\ server = "closes" \/ spc \in {"accept", "read", "aborted"}

SInv ==
  /\ Before /\ ServerShape /\ Failed
  /\ pc # "killed"
  /\ s2c = <<>> \/ (c2s = <<>> /\ \E f : s2c = <<f>>)
  /\ (connected /\ pc \in {"loop", "idle"}) => Left
  /\ pc \in {"write", "header", "body"} =>
       token_ = IF phase = "logout" THEN {"frame"} ELSE {}
  /\ spc # "aborted" =>
       /\ pc = "write" => Writing
       /\ pc = "header" => Waiting
       /\ pc = "body" => Answering /\ header_ = Head(s2c).header

-----------------------------------------------------------------------------
\* Whatever the client does in a session it does as ProtoClient.
THEOREM ClientIsProtoClient == SessionSpec => Spec
<1>1. SessionInit => Init
  BY DEF SessionInit
<1>2. [SessionNext]_sessionVars => [Next]_vars
  <2>1. ClientStep => Next
    BY DEF ClientStep, ClientMoves, ClientResolveFails, ClientConnects,
           ClientConnectFails, ClientWrites, ClientReadsHeader,
           ClientReadsBody, ClientReadFails, Next, InRun
  <2>2. ServerStep \/ Delay => UNCHANGED vars
    BY DEF ServerStep, Accept, ServerReads, ServerReadFails, ServerResponds,
           ServerCloses, Delay
  <2>3. UNCHANGED sessionVars => UNCHANGED vars
    BY DEF sessionVars
  <2>4. QED
    BY <2>1, <2>2, <2>3 DEF SessionNext
<1>3. QED
  BY <1>1, <1>2, PTL DEF SessionSpec, Spec

-----------------------------------------------------------------------------
\* The client's steps between connections.
LEMMA MovesKeep == SInv /\ Alive /\ ClientMoves => SInv'
<1> SUFFICES ASSUME SInv, Alive, ClientMoves
             PROVE  SInv'
  OBVIOUS
<1>1. /\ UNCHANGED <<server, spc, sphase, connected, c2s, s2c, reset, slow,
                     failed>>
  BY DEF ClientMoves, serverVars
<1>2. CASE runs = 0 /\ (CallRun \/ CallRunOnAddrs)
  <2>1. /\ ~connected /\ pc' \in {"resolve", "loop"} /\ runs' = 1
        /\ phase' = phase /\ cur' \in Nat /\ addrs' \in Nat
        /\ ~failed
    BY <1>2, ProtoClientAssumption
    DEF CallRun, CallRunOnAddrs, Enter, SInv, Before, Failed, ServerShape
  <2>2. QED
    BY <1>1, <2>1 DEF SInv, Before, ServerShape, Failed, Quiet, Phases
<1>3. CASE Resolve
  <2>1. /\ pc = "resolve" /\ pc' = "loop"
        /\ UNCHANGED <<phase, token_, runs, cur>> /\ addrs' \in Nat
    BY <1>3, ProtoClientAssumption DEF Resolve
  <2>2. QED
    BY <1>1, <2>1 DEF SInv, Before, ServerShape, Failed, Quiet
<1>4. CASE TryNext
  <2>1. /\ pc = "loop" /\ pc' = "connect" /\ cur # addrs
        /\ phase' = "login" /\ token_' = {}
        /\ UNCHANGED <<runs, addrs>> /\ cur' \in Nat
    BY <1>4 DEF TryNext, SInv, Before
  <2>2. QED
    BY <1>1, <2>1 DEF SInv, Before, ServerShape, Failed, Quiet, Phases
<1>5. CASE Exhausted
  <2>1. /\ pc = "loop" /\ pc' = "idle" /\ result' = "false"
        /\ UNCHANGED <<phase, token_, runs, cur, addrs>>
    BY <1>5 DEF Exhausted, Return
  <2>2. connected => Left'
    BY <1>1, <2>1 DEF SInv, Left
  <2>3. QED
    BY <1>1, <2>1, <2>2 DEF SInv, Before, ServerShape, Failed, Quiet
<1>6. QED
  BY <1>2, <1>3, <1>4, <1>5 DEF ClientMoves

LEMMA ResolveFailsKeeps == SInv /\ Alive /\ ClientResolveFails => SInv'
<1> SUFFICES ASSUME SInv, Alive, ClientResolveFails
             PROVE  SInv'
  OBVIOUS
<1>1. /\ UNCHANGED <<server, spc, sphase, connected, c2s, s2c, reset, slow>>
      /\ UNCHANGED <<addrs, cur, phase, token_, runs>>
      /\ pc = "resolve" /\ pc' = "idle" /\ result' = "false"
      /\ failed' = TRUE
  BY DEF ClientResolveFails, ResolveFails, Return, serverVars
<1>2. ~connected /\ runs # 0
  BY <1>1 DEF SInv, Before
<1>3. QED
  BY <1>1, <1>2 DEF SInv, Before, ServerShape, Failed, Quiet

LEMMA ConnectKeeps == SInv /\ Alive /\ ClientConnects => SInv'
<1> SUFFICES ASSUME SInv, Alive, ClientConnects
             PROVE  SInv'
  OBVIOUS
<1>1. /\ UNCHANGED <<server, spc, sphase, c2s, s2c, reset, slow, failed>>
      /\ UNCHANGED <<addrs, cur, phase, token_, runs>>
      /\ pc = "connect" /\ pc' = IF cur = addrs THEN "write" ELSE "loop"
      /\ connected' = (cur = addrs)
  BY DEF ClientConnects, Connect, serverVars
<1>2. ~connected /\ phase = "login" /\ token_ = {} /\ ~failed
  BY <1>1 DEF SInv, Before, Failed
<1>3. CASE cur = addrs
  BY <1>1, <1>2, <1>3
     DEF SInv, Before, ServerShape, Failed, Quiet, Writing
<1>4. CASE cur # addrs
  BY <1>1, <1>2, <1>4 DEF SInv, Before, ServerShape, Failed, Quiet
<1>5. QED
  BY <1>3, <1>4

LEMMA ConnectFailsKeeps == SInv /\ Alive /\ ClientConnectFails => SInv'
<1> SUFFICES ASSUME SInv, Alive, ClientConnectFails
             PROVE  SInv'
  OBVIOUS
<1>1. /\ UNCHANGED <<server, spc, sphase, c2s, s2c, reset, slow>>
      /\ UNCHANGED <<addrs, cur, phase, token_, runs>>
      /\ pc = "connect" /\ cur = addrs /\ pc' = "loop"
      /\ connected' \in BOOLEAN /\ failed' = TRUE
  BY DEF ClientConnectFails, Connect, serverVars
<1>2. ~connected /\ token_ = {} /\ runs # 0
  BY <1>1 DEF SInv, Before
<1>3. spc = "accept" /\ Quiet /\ ~reset
  BY <1>2 DEF SInv, Before
<1>4. Failed'
  BY <1>1, <1>2, <1>3 DEF Failed, Quiet
<1>5. connected' => Left'
  BY <1>1, <1>3 DEF Left, Quiet
<1>6. QED
  BY <1>1, <1>2, <1>3, <1>4, <1>5 DEF SInv, Before, ServerShape, Quiet

LEMMA WritesKeep == SInv /\ Alive /\ ClientWrites => SInv'
<1> SUFFICES ASSUME SInv, Alive, ClientWrites
             PROVE  SInv'
  OBVIOUS
<1>1. /\ UNCHANGED <<server, spc, sphase, connected, s2c, slow, failed>>
      /\ UNCHANGED <<addrs, cur, phase, token_, runs>>
      /\ pc = "write"
  BY DEF ClientWrites, WriteLoginRequest, WriteSubmissionRequest,
         WriteLogoutRequest, serverVars
<1>2. Writing /\ connected /\ ~failed
  BY <1>1 DEF SInv, Alive, Before, Failed
<1>3. pc' = "header" /\ reset' = (spc = "closed")
  BY <1>2 DEF Writing, ClientWrites
<1>4. header_'.type = Expected[phase]
  BY DEF ClientWrites, WriteLoginRequest, WriteSubmissionRequest,
         WriteLogoutRequest, RequestHeader, Expected
<1>5. c2s' = IF spc = "closed" THEN <<>> ELSE <<Expected[phase]>>
  BY <1>2, <1>4 DEF ClientWrites, Writing, Quiet
<1>6. Expected[phase] \in RequestTypes
  BY DEF SInv, ServerShape, Phases, Expected, RequestTypes
<1>7. Waiting'
  <2>1. spc = "closed" => phase = "login"
    BY <1>2 DEF Writing, SInv, ServerShape
  <2>2. QED
    BY <1>1, <1>2, <1>3, <1>5, <2>1 DEF Writing, Waiting, Quiet
<1>8. Before' /\ ServerShape'
  BY <1>1, <1>2, <1>3, <1>5, <1>6
     DEF SInv, Before, ServerShape, Writing, Quiet
<1>9. QED
  BY <1>1, <1>2, <1>3, <1>5, <1>7, <1>8 DEF SInv, Failed, Writing, Quiet

\* What the frame under way to the client is.
LEMMA FrameUnderWay ==
  ASSUME NEW f, Answered(f)
  PROVE  /\ ~f.header.short
         /\ f.header.intact = (server # "badGoodbye")
         /\ f.header.len \in {3, 4}
         /\ f.header.type = IF server # "success" \/ phase = "logout" THEN "G"
                            ELSE IF phase = "login" THEN "E" ELSE "R"
         /\ f.body[1] = IF server = "success" /\ phase = "login" THEN "Y"
                                                              ELSE "text"
         /\ f.body[2] = "nul"
<1> DEFINE Is(type, n, intact, first) ==
             /\ ~f.header.short /\ f.header.intact = intact
             /\ f.header.len = n /\ f.header.type = type
             /\ f.body[1] = first /\ f.body[2] = "nul"
<1>1. CASE server = "success" /\ phase = "login"
  <2>1. Is("E", 4, TRUE, "Y")
    BY <1>1 DEF Answered, Frame
  <2>2. QED
    BY <1>1, <2>1
<1>2. CASE server = "success" /\ phase = "submission"
  <2>1. Is("R", 3, TRUE, "text")
    BY <1>2 DEF Answered, Frame
  <2>2. QED
    BY <1>2, <2>1
<1>3. CASE server = "success" /\ phase = "logout"
  <2>1. Is("G", 3, TRUE, "text")
    BY <1>3 DEF Answered, Frame
  <2>2. QED
    BY <1>3, <2>1
<1>4. CASE server = "badGoodbye"
  <2>1. Is("G", 3, FALSE, "text")
    BY <1>4 DEF Answered, Frame
  <2>2. QED
    BY <1>4, <2>1
<1>5. CASE server = "goodGoodbye"
  <2>1. Is("G", 3, TRUE, "text")
    BY <1>5 DEF Answered, Frame
  <2>2. QED
    BY <1>5, <2>1
<1>6. QED
  BY <1>1, <1>2, <1>3, <1>4, <1>5 DEF Answered

LEMMA ReadsHeaderKeep == SInv /\ Alive /\ ClientReadsHeader => SInv'
<1> SUFFICES ASSUME SInv, Alive, ClientReadsHeader
             PROVE  SInv'
  OBVIOUS
<1>1. /\ UNCHANGED <<server, spc, sphase, connected, c2s, s2c, reset, slow,
                     failed>>
      /\ UNCHANGED <<addrs, cur, phase, token_, runs>>
      /\ pc = "header" /\ s2c # <<>> /\ header_' = Head(s2c).header
  BY DEF ClientReadsHeader, ReadHeader, serverVars
<1>2. Answering
  BY <1>1 DEF SInv, Alive, Waiting, Quiet
<1>3. PICK f : s2c = <<f>> /\ Answered(f)
  BY <1>2 DEF Answering
<1>4. Head(s2c) = f /\ ~f.header.short
  BY <1>3, FrameUnderWay
<1>5. pc' = "body"
  BY <1>1, <1>4 DEF ClientReadsHeader, ReadHeader
<1>6. Answering'
  BY <1>1, <1>2 DEF Answering, Answered, Frame
<1>7. QED
  BY <1>1, <1>2, <1>5, <1>6 DEF SInv, Before, ServerShape, Failed

LEMMA ReadFailsKeep == SInv /\ Alive /\ ClientReadFails => SInv'
<1> SUFFICES ASSUME SInv, Alive, ClientReadFails
             PROVE  SInv'
  OBVIOUS
<1>1. /\ UNCHANGED <<server, spc, sphase, connected, c2s, s2c, reset, slow,
                     failed>>
      /\ UNCHANGED <<addrs, cur, phase, token_, runs>>
      /\ pc = "header" /\ s2c = <<>> /\ (spc = "closed" \/ slow)
      /\ pc' = "loop"
  BY DEF ClientReadFails, ReadFails, EndRunOne, serverVars
<1>2. Waiting /\ connected
  BY <1>1 DEF SInv, Alive, Before
<1>3. ~slow => server # "success" /\ phase = "login"
  <2> SUFFICES ASSUME ~slow
               PROVE  server # "success" /\ phase = "login"
    OBVIOUS
  <2>1. /\ Quiet /\ server \in {"closes", "badGoodbye"}
        /\ phase = "login"
    BY <1>1, <1>2 DEF Waiting, Answering
  <2>2. QED
    BY <2>1 DEF SInv
<1>4. Left'
  BY <1>1, <1>3 DEF Left, SInv
<1>5. QED
  BY <1>1, <1>2, <1>4 DEF SInv, Before, ServerShape, Failed

\* The frame whose body is read, and the buffer behind it.
LEMMA BodyEffect ==
  ASSUME SInv, Alive, ClientReadsBody
  PROVE  /\ UNCHANGED <<server, spc, sphase, connected, c2s, reset, slow,
                        failed>>
         /\ UNCHANGED <<addrs, cur, runs>>
         /\ pc = "body" /\ c2s = <<>> /\ connected
         /\ \E f : s2c = <<f>> /\ Answered(f) /\ header_ = f.header
         /\ s2c' = <<>>
         /\ buf_'[1] = [val |-> IF server = "success" /\ phase = "login"
                                  THEN "Y" ELSE "text",
                        by  |-> {"frame"}]
         /\ buf_'[2] = [val |-> "nul", by |-> {"frame"}]
<1>1. /\ UNCHANGED <<server, spc, sphase, connected, c2s, reset, slow, failed>>
      /\ UNCHANGED <<addrs, cur, runs>> /\ pc = "body"
      /\ buf_' = Overlay(header_.len, Head(s2c).body) /\ s2c' = Tail(s2c)
  BY DEF ClientReadsBody, BodyRead, BadFrame, RejectFrame, ReadLoginResponse,
         ReadSubmissionResponse, ReadLogoutResponse, serverVars
<1>2. Answering /\ header_ = Head(s2c).header /\ connected /\ c2s = <<>>
  BY <1>1 DEF SInv, Alive, Before, Answering
<1>3. PICK f : s2c = <<f>> /\ Answered(f)
  BY <1>2 DEF Answering
<1>4. Head(s2c) = f /\ Tail(s2c) = <<>>
  BY <1>3
<1>5. /\ f.header.len \in {3, 4} /\ f.body[2] = "nul"
      /\ f.body[1] = IF server = "success" /\ phase = "login" THEN "Y"
                                                             ELSE "text"
  BY <1>3, FrameUnderWay
<1>6. \A c \in {1, 2} : buf_'[c] = [val |-> f.body[c], by |-> {"frame"}]
  <2>1. /\ buf_' = Overlay(header_.len, f.body)
        /\ header_.len = 3 \/ header_.len = 4
    BY <1>1, <1>2, <1>4, <1>5
  <2>2. Covered(1, header_.len) /\ Covered(2, header_.len)
    BY <2>1 DEF Covered
  <2>3. 1 \in Chunks /\ 2 \in Chunks
    BY DEF Chunks
  <2>4. QED
    BY <2>1, <2>2, <2>3 DEF Overlay
<1>7. QED
  BY <1>1, <1>2, <1>3, <1>4, <1>5, <1>6

\* What every outcome of a frame that is not intact, and of the goodbyes,
\* has in common: the client waits for the end of the stream, or leaves.
LEMMA GoodbyeKeeps ==
  ASSUME SInv, Alive,
         UNCHANGED <<server, spc, sphase, connected, c2s, reset, slow,
                     failed>>,
         UNCHANGED <<addrs, cur, runs, phase, token_>>,
         pc = "body", c2s = <<>>, connected, s2c' = <<>>,
         server \in {"badGoodbye", "goodGoodbye"}, phase = "login",
         spc \in {"close", "closed"},
         pc' = "loop" \/ (pc' = "header" /\ server = "badGoodbye")
  PROVE  SInv'
<1>1. token_ = {}
  BY DEF SInv
<1>2. CASE pc' = "loop"
  BY <1>1, <1>2 DEF SInv, Before, ServerShape, Failed, Left
<1>3. CASE pc' = "header"
  BY <1>1, <1>3 DEF SInv, Before, ServerShape, Failed, Waiting, Quiet
<1>4. QED
  BY <1>2, <1>3

LEMMA ReadsBodyKeep == SInv /\ Alive /\ ClientReadsBody => SInv'
<1> SUFFICES ASSUME SInv, Alive, ClientReadsBody
             PROVE  SInv'
  OBVIOUS
<1>1. PICK f : s2c = <<f>> /\ Answered(f) /\ header_ = f.header
  BY BodyEffect
<1>2. /\ header_.intact = (server # "badGoodbye")
      /\ header_.type = IF server # "success" \/ phase = "logout" THEN "G"
                        ELSE IF phase = "login" THEN "E" ELSE "R"
  BY <1>1, FrameUnderWay
<1>3. \/ server = "success"
      \/ /\ server \in {"badGoodbye", "goodGoodbye"} /\ phase = "login"
         /\ spc \in {"close", "closed"}
  BY <1>1 DEF Answered
<1>4. CASE RejectFrame
  <2>1. server # "success"
    BY <1>2, <1>4 DEF RejectFrame, BadFrame
  <2>2. /\ UNCHANGED <<phase, token_>>
        /\ pc' = "loop" \/ (pc' = "header" /\ server = "badGoodbye")
    BY <1>2, <1>4 DEF RejectFrame, BadFrame, EndRunOne
  <2>3. QED
    BY <1>3, <2>1, <2>2, BodyEffect, GoodbyeKeeps
<1>5. CASE ReadLoginResponse
  <2>1. CASE server = "success"
    <3>1. phase = "login" /\ header_.type = "E" /\ buf_'[1].val = "Y"
      BY <1>2, <1>5, <2>1, BodyEffect DEF ReadLoginResponse
    <3>2. phase' = "submission" /\ pc' = "write" /\ UNCHANGED token_
      BY <1>5, <3>1 DEF ReadLoginResponse
    <3>3. spc = "read" /\ sphase = "submission"
      BY <1>1, <2>1, <3>1 DEF Answered
    <3>4. ~reset
      BY <2>1 DEF SInv, ServerShape
    <3>5. QED
      BY <2>1, <3>1, <3>2, <3>3, <3>4, BodyEffect
         DEF SInv, Before, ServerShape, Failed, Writing, Quiet, Phases
  <2>2. CASE server # "success"
    <3>1. header_.type = "G" /\ phase = "login"
      BY <1>2, <1>5, <2>2 DEF ReadLoginResponse
    <3>2. UNCHANGED <<phase, token_>> /\ pc' = "loop"
      BY <1>5, <3>1 DEF ReadLoginResponse, EndRunOne
    <3>3. QED
      BY <1>3, <2>2, <3>1, <3>2, BodyEffect, GoodbyeKeeps
  <2>3. QED
    BY <2>1, <2>2
<1>6. CASE ReadSubmissionResponse
  <2>1. phase = "submission" /\ server = "success"
    BY <1>3, <1>6 DEF ReadSubmissionResponse
  <2>2. header_.type = "R"
    BY <1>2, <2>1
  <2>3. TokenText(buf_') = {"frame"}
    <3>1. buf_'[1].val # "nul" /\ buf_'[2].val = "nul"
          /\ buf_'[1].by = {"frame"} /\ buf_'[2].by = {"frame"}
      BY <2>1, BodyEffect
    <3>2. TokenText(buf_') = buf_'[1].by \cup buf_'[2].by
      BY <3>1, Zenon DEF TokenText
    <3>3. QED
      BY <3>1, <3>2
  <2>4. phase' = "logout" /\ pc' = "write" /\ token_' = {"frame"}
    BY <1>6, <2>2, <2>3 DEF ReadSubmissionResponse
  <2>5. spc = "read" /\ sphase = "logout"
    BY <1>1, <2>1 DEF Answered
  <2>6. ~reset
    BY <2>1 DEF SInv, ServerShape
  <2>7. QED
    BY <2>1, <2>4, <2>5, <2>6, BodyEffect
       DEF SInv, Before, ServerShape, Failed, Writing, Quiet, Phases
<1>7. CASE ReadLogoutResponse
  <2>1. phase = "logout" /\ server = "success"
    BY <1>3, <1>7 DEF ReadLogoutResponse
  <2>2. pc' = "idle" /\ result' = "true" /\ UNCHANGED <<phase, token_>>
    BY <1>7 DEF ReadLogoutResponse, EndRunOne, Return
  <2>3. token_ = {"frame"}
    BY <2>1, BodyEffect DEF SInv
  <2>4. spc \in {"close", "closed"}
    BY <1>1, <2>1 DEF Answered
  <2>5. Left'
    BY <2>1, <2>2, <2>3, <2>4, BodyEffect DEF Left
  <2>6. QED
    BY <2>1, <2>2, <2>5, BodyEffect DEF SInv, Before, ServerShape, Failed
<1>8. QED
  BY <1>4, <1>5, <1>6, <1>7 DEF ClientReadsBody

-----------------------------------------------------------------------------
\* No more than one request is ever under way.
LEMMA OneRequest == SInv => c2s = <<>> \/ \E r \in RequestTypes : c2s = <<r>>
<1> SUFFICES ASSUME ServerShape
             PROVE  c2s = <<>> \/ \E r \in RequestTypes : c2s = <<r>>
  BY DEF SInv
<1>1. QED
  BY Zenon DEF ServerShape

\* The steps of the server's thread, and a delay.
LEMMA AcceptKeeps == SInv /\ Alive /\ Accept => SInv'
<1> SUFFICES ASSUME SInv, Alive, Accept
             PROVE  SInv'
  OBVIOUS
<1>1. /\ UNCHANGED <<server, sphase, connected, c2s, s2c, reset, slow, failed>>
      /\ UNCHANGED <<addrs, cur, phase, token_, runs, pc, result, header_>>
      /\ spc = "accept" /\ connected
      /\ spc' = IF server = "closes" THEN "close" ELSE "read"
  BY DEF Accept, vars
<1>2. ~(Answering
          \/ (connected /\ pc \in {"loop", "idle"} /\ ~slow /\ ~failed))
  BY <1>1 DEF SInv, Answering, Answered, Left
<1>3. Before' /\ ServerShape'
  BY <1>1 DEF SInv, Before, ServerShape, Quiet
<1>4. pc = "write" => Writing'
  BY <1>1 DEF SInv, Writing, Quiet
<1>5. pc = "header" => Waiting'
  BY <1>1, <1>2 DEF SInv, Waiting, Quiet
<1>6. Failed'
  BY <1>1 DEF SInv, ServerShape, Failed, Quiet
<1>7. QED
  BY <1>1, <1>2, <1>3, <1>4, <1>5, <1>6 DEF SInv, Left

LEMMA ServerReadsKeep == SInv /\ Alive /\ ServerReads => SInv'
<1> SUFFICES ASSUME SInv, Alive, ServerReads
             PROVE  SInv'
  OBVIOUS
<1>1. /\ UNCHANGED <<server, sphase, connected, s2c, reset, slow, failed>>
      /\ UNCHANGED <<addrs, cur, phase, token_, runs, pc, result, header_>>
      /\ spc = "read" /\ c2s # <<>> /\ c2s' = Tail(c2s)
      /\ \/ spc' = "respond"
         \/ spc' = "aborted" /\ (Head(c2s) # Expected[sphase] \/ slow)
  BY DEF ServerReads, vars
<1>2. PICK r : c2s = <<r>> /\ c2s' = <<>>
  <2>1. PICK q : c2s = <<q>>
    BY <1>1, OneRequest
  <2>2. Tail(<<q>>) = <<>>
    OBVIOUS
  <2>3. QED
    BY <1>1, <2>1, <2>2
<1>3. connected /\ pc \notin {"write", "body"} /\ ~failed
  <2>1. connected /\ ~failed
    BY <1>1 DEF SInv, Before, Quiet, Failed
  <2>2. pc # "write" /\ pc # "body"
    BY <1>1 DEF SInv, Alive, Quiet, Writing, Answering
  <2>3. QED
    BY <2>1, <2>2
<1>4. ~slow => pc = "header"
  BY <1>1, <1>3 DEF SInv, Before, Left
<1>5. pc = "header" =>
        s2c = <<>> /\ c2s = <<Expected[phase]>> /\ sphase = phase
  BY <1>1 DEF SInv, Alive, Waiting, Quiet, Answering
<1>6. spc' = "aborted" => slow
  BY <1>1, <1>2, <1>4, <1>5
<1>7. Before' /\ ServerShape'
  BY <1>1, <1>2, <1>3, <1>6 DEF SInv, Before, ServerShape, Quiet
<1>8. pc = "header" /\ spc' # "aborted" => Waiting'
  BY <1>1, <1>2, <1>5 DEF Waiting, Quiet
<1>9. connected /\ pc \in {"loop", "idle"} => Left'
  BY <1>1, <1>4 DEF SInv, Left
<1>10. QED
  BY <1>1, <1>2, <1>3, <1>7, <1>8, <1>9 DEF SInv, Failed

LEMMA ServerReadFailsKeep == SInv /\ Alive /\ ServerReadFails => SInv'
<1> SUFFICES ASSUME SInv, Alive, ServerReadFails
             PROVE  SInv'
  OBVIOUS
<1>1. /\ UNCHANGED <<server, sphase, connected, c2s, s2c, reset, slow, failed>>
      /\ UNCHANGED <<addrs, cur, phase, token_, runs, pc, result, header_>>
      /\ spc = "read" /\ (~ClientOpen \/ slow) /\ spc' = "aborted"
  BY DEF ServerReadFails, vars
<1>2. slow \/ failed
  <2>1. connected
    BY <1>1 DEF SInv, Before
  <2>2. CASE ClientOpen
    BY <1>1, <2>2
  <2>3. CASE ~ClientOpen
    BY <1>1, <2>1, <2>3 DEF ClientOpen, SInv, Before, Left
  <2>4. QED
    BY <2>2, <2>3
<1>3. QED
  BY <1>1, <1>2 DEF SInv, Before, ServerShape, Failed, Left, Quiet

LEMMA ServerRespondsKeep == SInv /\ Alive /\ ServerResponds => SInv'
<1> SUFFICES ASSUME SInv, Alive, ServerResponds
             PROVE  SInv'
  OBVIOUS
<1>1. /\ UNCHANGED <<server, connected, c2s, reset, slow, failed>>
      /\ UNCHANGED <<addrs, cur, phase, token_, runs, pc, result, header_>>
      /\ spc = "respond"
      /\ s2c' = IF ClientOpen THEN Append(s2c, Response) ELSE s2c
      /\ IF server = "success" /\ sphase # "logout"
           THEN /\ spc' = "read"
                /\ sphase' =
                     IF sphase = "login" THEN "submission" ELSE "logout"
           ELSE spc' = "close" /\ sphase' = sphase
  BY DEF ServerResponds, vars
<1>2. connected /\ c2s = <<>> /\ server # "closes" /\ ~failed
  BY <1>1 DEF SInv, Before, ServerShape, Failed
<1>3. pc \notin {"write", "body"}
  BY <1>1 DEF SInv, Writing, Answering, Answered, Alive
<1>4. Before' /\ ServerShape'
  BY <1>1, <1>2, <1>3 DEF SInv, Before, ServerShape, Phases, Quiet
<1>5. CASE pc = "header"
  <2>1. Quiet /\ sphase = phase
    BY <1>1, <1>5 DEF SInv, Alive, Waiting, Answering, Answered
  <2>2. PICK f : f = Response
    OBVIOUS
  <2>3. s2c' = <<f>>
    BY <1>1, <1>2, <1>5, <2>1, <2>2 DEF ClientOpen, Quiet
  <2>4. Answering'
    <3>1. CASE server = "success" /\ phase = "login"
      <4>1. f = Frame("E", 4, TRUE, "Y")
        BY <2>1, <2>2, <3>1 DEF Response
      <4>2. QED
        BY <1>1, <1>2, <2>1, <2>3, <3>1, <4>1 DEF Answering, Answered, Frame
    <3>2. CASE server = "success" /\ phase = "submission"
      <4>1. f = Frame("R", 3, TRUE, "text")
        BY <2>1, <2>2, <3>2 DEF Response
      <4>2. QED
        BY <1>1, <1>2, <2>1, <2>3, <3>2, <4>1 DEF Answering, Answered, Frame
    <3>3. CASE server = "success" /\ phase = "logout"
      <4>1. f = Frame("G", 3, TRUE, "text")
        BY <2>1, <2>2, <3>3 DEF Response
      <4>2. QED
        BY <1>1, <1>2, <2>1, <2>3, <3>3, <4>1 DEF Answering, Answered, Frame
    <3>4. CASE server = "badGoodbye" \/ server = "goodGoodbye"
      <4>1. f = Frame("G", 3, server = "goodGoodbye", "text")
        BY <2>2, <3>4 DEF Response
      <4>2. phase = "login"
        BY <2>1, <3>4 DEF SInv, ServerShape
      <4>3. QED
        BY <1>1, <1>2, <2>1, <2>3, <3>4, <4>1, <4>2
           DEF Answering, Answered, Frame
    <3>5. QED
      BY <1>2, <3>1, <3>2, <3>3, <3>4
         DEF SInv, ServerShape, Servers, Phases
  <2>5. QED
    BY <1>1, <1>2, <1>4, <1>5, <2>3, <2>4 DEF SInv, Waiting, Failed
<1>6. CASE pc # "header"
  <2>1. ~ClientOpen /\ s2c' = s2c /\ s2c = <<>> /\ slow
    BY <1>1, <1>2, <1>3, <1>6 DEF ClientOpen, SInv, Before, Left
  <2>2. QED
    BY <1>1, <1>2, <1>3, <1>4, <1>6, <2>1 DEF SInv, Left, Failed
<1>7. QED
  BY <1>5, <1>6

LEMMA ServerClosesKeep == SInv /\ Alive /\ ServerCloses => SInv'
<1> SUFFICES ASSUME SInv, Alive, ServerCloses
             PROVE  SInv'
  OBVIOUS
<1>1. /\ UNCHANGED <<server, sphase, connected, s2c, slow, failed>>
      /\ UNCHANGED <<addrs, cur, phase, token_, runs, pc, result, header_>>
      /\ spc = "close" /\ spc' = "closed"
      /\ c2s' = <<>> /\ reset' = (c2s # <<>>)
  BY DEF ServerCloses, vars
<1>2. Before' /\ ServerShape'
  BY <1>1 DEF SInv, Before, ServerShape, Quiet
<1>3. pc = "write" => Writing'
  BY <1>1 DEF SInv, Alive, Writing, Quiet
<1>4. Answering => Answering'
  BY <1>1 DEF Answering, Answered
<1>5. pc = "header" => Waiting'
  <2> SUFFICES ASSUME pc = "header"
               PROVE  Waiting'
    OBVIOUS
  <2>1. CASE Answering
    BY <1>4, <2>1 DEF Waiting
  <2>2. CASE ~Answering
    <3>1. s2c = <<>> /\ server \in {"closes", "badGoodbye"} /\ phase = "login"
      BY <1>1, <2>2 DEF SInv, Alive, Waiting, Quiet, ServerShape
    <3>2. QED
      BY <1>1, <3>1 DEF Waiting, Quiet
  <2>3. QED
    BY <2>1, <2>2
<1>6. Failed'
  BY <1>1 DEF SInv, ServerShape, Failed, Quiet
<1>7. QED
  BY <1>1, <1>2, <1>3, <1>4, <1>5, <1>6 DEF SInv, Left, Alive

LEMMA DelayKeeps == SInv /\ Delay => SInv'
<1> SUFFICES ASSUME SInv, Delay
             PROVE  SInv'
  OBVIOUS
<1>1. /\ UNCHANGED <<server, spc, sphase, connected, c2s, s2c, reset, failed>>
      /\ UNCHANGED <<addrs, cur, phase, token_, runs, pc, result, header_>>
      /\ slow' = TRUE
  BY DEF Delay, vars, serverVars
<1>2. Answering => Answering'
  BY <1>1 DEF Answering, Answered
<1>3. Waiting => Waiting'
  BY <1>1, <1>2 DEF Waiting, Quiet
<1>4. QED
  BY <1>1, <1>2, <1>3
     DEF SInv, Before, ServerShape, Failed, Writing, Quiet, Left

LEMMA InitHolds == SessionInit => SInv
<1> SUFFICES ASSUME SessionInit
             PROVE  SInv
  OBVIOUS
<1>1. /\ pc = "idle" /\ phase = "login" /\ cur = 0 /\ addrs = 0 /\ runs = 0
  BY DEF SessionInit, Init
<1>2. QED
  BY <1>1 DEF SessionInit, SInv, Before, ServerShape, Failed, Phases, Quiet

LEMMA StepKeeps == SInv /\ [SessionNext]_sessionVars => SInv'
<1> SUFFICES ASSUME SInv, [SessionNext]_sessionVars
             PROVE  SInv'
  OBVIOUS
<1>1. CASE Alive /\ ClientStep
  BY <1>1, MovesKeep, ResolveFailsKeeps, ConnectKeeps, ConnectFailsKeeps,
     WritesKeep, ReadsHeaderKeep, ReadsBodyKeep, ReadFailsKeep
     DEF ClientStep
<1>2. CASE Alive /\ ServerStep
  BY <1>2, AcceptKeeps, ServerReadsKeep, ServerReadFailsKeep,
     ServerRespondsKeep, ServerClosesKeep DEF ServerStep
<1>3. CASE Delay
  BY <1>3, DelayKeeps
<1>4. CASE UNCHANGED sessionVars
  <2>1. /\ UNCHANGED <<server, spc, sphase, connected, c2s, s2c, reset, slow,
                       failed>>
        /\ UNCHANGED <<addrs, cur, phase, token_, runs, pc, result, header_>>
    BY <1>4 DEF sessionVars, serverVars, vars
  <2>2. Answering => Answering'
    BY <2>1 DEF Answering, Answered, Frame
  <2>3. Waiting => Waiting'
    BY <2>1, <2>2 DEF Waiting, Quiet
  <2>4. QED
    BY <2>1, <2>2, <2>3
       DEF SInv, Before, ServerShape, Failed, Writing, Quiet, Left
<1>5. QED
  BY <1>1, <1>2, <1>3, <1>4 DEF SessionNext

LEMMA InvHolds == SessionSpec => []SInv
BY InitHolds, StepKeeps, PTL DEF SessionSpec

-----------------------------------------------------------------------------
\* No assert of a server fails and no exception leaves its thread, unless a
\* second was lost or the client could not connect, however many addresses
\* are tried before.
THEOREM ServersAreSafe == SessionSpec => []ServerIsSafe
<1>1. SInv => ServerIsSafe
  BY DEF SInv, ServerShape, ServerIsSafe
<1>2. QED
  BY <1>1, InvHolds, PTL

\* The client never writes to a connection that has been reset.
THEOREM ClientNeverKilled == SessionSpec => []NeverKilled
<1>1. SInv => NeverKilled
  BY DEF SInv, NeverKilled
<1>2. QED
  BY <1>1, InvHolds, PTL

\* The client and the server take turns, and leave nothing behind.
THEOREM KeepsInStep == SessionSpec => []LockStep
<1>1. SInv => LockStep
  <2> SUFFICES ASSUME SInv
               PROVE  LockStep
    OBVIOUS
  <2>1. TestOver => c2s = <<>> /\ s2c = <<>>
    <3> SUFFICES ASSUME pc = "idle", spc = "closed"
                 PROVE  c2s = <<>> /\ s2c = <<>>
      BY DEF TestOver
    <3>1. connected /\ c2s = <<>>
      BY DEF SInv, Before, ServerShape
    <3>2. QED
      BY <3>1 DEF SInv, Left
  <2>2. Len(c2s) + Len(s2c) <= 1
    <3>1. CASE c2s = <<>> /\ s2c = <<>>
      BY <3>1
    <3>2. CASE c2s = <<>> /\ \E f : s2c = <<f>>
      BY <3>2
    <3>3. CASE s2c = <<>> /\ \E q : c2s = <<q>>
      BY <3>3
    <3>4. QED
      BY <3>1, <3>2, <3>3, OneRequest DEF SInv
  <2>3. QED
    BY <2>1, <2>2 DEF LockStep
<1>2. QED
  BY <1>1, InvHolds, PTL

\* What the tests assert of Run's verdict and of the token holds at the end
\* of each of them, whatever the order the two threads ran in.
THEOREM OutcomesAreAsserted == SessionSpec => []OutcomeAsAsserted
<1>1. SInv => OutcomeAsAsserted
  BY DEF SInv, Before, ServerShape, Failed, Left, TestOver,
         OutcomeAsAsserted
<1>2. QED
  BY <1>1, InvHolds, PTL

-----------------------------------------------------------------------------
(***************************************************************************)
(* Whoever waits is answered, and the session ends                         *)
(***************************************************************************)

\* Unless the client fails to resolve or to connect, the last address is the
\* one that is reached.
Reaches ==
  /\ ~connected /\ pc = "loop" /\ ~failed => cur < addrs
  /\ ~connected /\ pc = "idle" /\ ~failed => runs = 0

\* Who may wait in vain.  The threads do not wait for each other: a client
\* that has nothing to read is not waiting for a server that has nothing to
\* read; a server without a request has a client that is about to send it,
\* unless a second was lost or the client has failed before its first
\* request.  And once Run has returned, the thread to be joined has a
\* connection, or else it is Stranded: the client has failed, and join waits
\* for an accept that nobody will end.
NeverBothWait ==
  /\ pc = "header" /\ s2c = <<>> /\ spc = "read" => c2s # <<>>
  /\ spc = "read" /\ c2s = <<>> /\ ~slow /\ ~failed
       => pc = "write" \/ s2c # <<>>
  /\ pc = "idle" /\ runs > 0 => connected \/ Stranded

\* An address that cannot be reached is followed by one that has not been
\* tried, unless it is the server's.
LEMMA ReachesNext ==
  SInv /\ Inv1 /\ Reaches /\ [SessionNext]_sessionVars => Reaches'
<1> SUFFICES ASSUME SInv, Inv1, Reaches, [SessionNext]_sessionVars
             PROVE  Reaches'
  OBVIOUS
<1>1. /\ cur \in Nat /\ addrs \in Nat /\ cur <= addrs
      /\ pc = "resolve" => cur = 0
      /\ connected \in BOOLEAN /\ failed \in BOOLEAN
  BY ProtoClientAssumption DEF Inv1, TypeOK, NothingToTryYet, SInv, ServerShape
<1>2. CASE ClientMoves
  <2>1. UNCHANGED <<connected, failed>>
    BY <1>2 DEF ClientMoves
  <2>2. CASE runs = 0 /\ CallRun
    BY <2>2 DEF CallRun, Enter, Reaches
  <2>3. CASE CallRunOnAddrs /\ addrs' > 0
    BY <2>3 DEF CallRunOnAddrs, Enter, Reaches
  <2>4. CASE Resolve
    <3>1. cur' = 0 /\ addrs' \in 1..MaxAddrs /\ pc' = "loop"
      BY <1>1, <2>4 DEF Resolve
    <3>2. QED
      BY <3>1, ProtoClientAssumption DEF Reaches
  <2>5. CASE TryNext
    BY <2>5 DEF TryNext, Reaches
  <2>6. CASE Exhausted
    BY <1>1, <2>1, <2>6 DEF Exhausted, Return, Reaches
  <2>7. QED
    BY <1>2, <2>2, <2>3, <2>4, <2>5, <2>6 DEF ClientMoves
<1>3. CASE ClientConnects
  <2>1. /\ connected' = (cur = addrs) /\ UNCHANGED <<cur, addrs>>
        /\ pc' = IF cur = addrs THEN "write" ELSE "loop"
    BY <1>3 DEF ClientConnects, Connect
  <2>2. cur # addrs => cur < addrs
    BY <1>1
  <2>3. QED
    BY <2>1, <2>2 DEF Reaches
<1>4. CASE ClientResolveFails \/ ClientConnectFails
  BY <1>4 DEF ClientResolveFails, ClientConnectFails, Reaches
<1>5. CASE ClientWrites \/ ClientReadsHeader \/ ClientReadsBody
             \/ ClientReadFails
  <2>1. pc \in {"write", "header", "body"} /\ UNCHANGED connected
    BY <1>5 DEF ClientWrites, ClientReadsHeader, ClientReadsBody,
       ClientReadFails, WriteLoginRequest, WriteSubmissionRequest,
       WriteLogoutRequest, ReadHeader, RejectFrame, BadFrame, BodyRead,
       ReadLoginResponse, ReadSubmissionResponse, ReadLogoutResponse
  <2>2. connected
    BY <2>1 DEF SInv, Before
  <2>3. QED
    BY <2>1, <2>2 DEF Reaches
<1>6. CASE ServerStep \/ Delay \/ UNCHANGED sessionVars
  <2>1. UNCHANGED <<pc, cur, addrs, runs, connected, failed>>
    BY <1>6 DEF ServerStep, Accept, ServerReads, ServerReadFails,
       ServerResponds, ServerCloses, Delay, sessionVars, vars
  <2>2. QED
    BY <2>1 DEF Reaches
<1>7. QED
  BY <1>2, <1>3, <1>4, <1>5, <1>6 DEF SessionNext, ClientStep

\* In no interleaving, and for no number of addresses, does a thread wait for
\* one that waits for it; and join waits for a server that stays in accept
\* only if the client has failed to resolve the name or to connect.
THEOREM SomebodyGoesOn == SessionSpec => []NeverBothWait
<1>1. SessionInit => Reaches
  BY DEF SessionInit, Init, Reaches
<1>2. SInv /\ Inv1 /\ Reaches => NeverBothWait
  <2> SUFFICES ASSUME SInv, Inv1, Reaches
               PROVE  NeverBothWait
    OBVIOUS
  <2>1. pc = "header" /\ s2c = <<>> /\ spc = "read" => c2s # <<>>
    BY DEF SInv, Waiting, Answering, Quiet
  <2>2. spc = "read" /\ c2s = <<>> /\ ~slow /\ ~failed
          => pc = "write" \/ s2c # <<>>
    BY <2>1 DEF SInv, Before, Left, Answering, Inv1, TypeOK
  <2>3. pc = "idle" /\ runs > 0 => connected \/ Stranded
    <3> SUFFICES ASSUME pc = "idle", runs > 0, ~connected
                 PROVE  Stranded
      BY DEF SInv, ServerShape
    <3>1. runs # 0
      BY DEF Inv1, TypeOK
    <3>2. failed
      BY <3>1 DEF Reaches, SInv, ServerShape
    <3>3. result = "false" /\ spc = "accept"
      BY <3>2 DEF SInv, Before, Failed
    <3>4. QED
      BY <3>2, <3>3 DEF Stranded
  <2>4. QED
    BY <2>1, <2>2, <2>3 DEF NeverBothWait
<1>3. QED
  BY <1>1, <1>2, ReachesNext, InvHolds, ClientIsProtoClient, Layer1, PTL
     DEF SessionSpec

\* Steps that the server's thread still has before it.
ServerStepsLeft ==
  IF spc = "accept" THEN 8
  ELSE IF spc = "close" THEN 1
  ELSE IF spc \in {"closed", "aborted"} THEN 0
  ELSE (IF sphase = "login" THEN 5 ELSE IF sphase = "submission" THEN 3 ELSE 1)
         + (IF spc = "read" THEN 2 ELSE 1)

\* Steps that the client still has before it.
ClientStepsLeft ==
  IF runs = 0 THEN MaxAddrs * PerAddress + 3 ELSE StepsLeft

SessionStepsLeft ==
  ClientStepsLeft + ServerStepsLeft + (IF slow THEN 0 ELSE 1)

\* A session has a bounded number of steps, of whichever thread, and every
\* one of them brings its end nearer: no test can go on for ever without
\* one of its threads waiting.
SessionDescends ==
  /\ [](SessionStepsLeft \in 0..(MaxAddrs * PerAddress + 12))
  /\ [][SessionStepsLeft' < SessionStepsLeft]_sessionVars

\* The bound is the sum of those of its parts.
LEMMA SessionBound ==
  ASSUME StepsLeft \in 0..(MaxAddrs * PerAddress + 2)
  PROVE  SessionStepsLeft \in 0..(MaxAddrs * PerAddress + 12)
<1>1. PICK k \in Nat : k = MaxAddrs * PerAddress
  BY ProtoClientAssumption, Allotted, Products
<1>2. PICK c \in 0..(k + 3) : c = ClientStepsLeft
  BY <1>1 DEF ClientStepsLeft
<1>3. PICK s \in 0..8 : s = ServerStepsLeft
  BY DEF ServerStepsLeft
<1>4. PICK d \in 0..1 : d = IF slow THEN 0 ELSE 1
  OBVIOUS
<1>5. c + s + d \in 0..(k + 12)
  OBVIOUS
<1>6. QED
  BY <1>1, <1>2, <1>3, <1>4, <1>5 DEF SessionStepsLeft

\* The server's thread goes from accept to its end.
LEMMA ServerDescends ==
  ASSUME SInv, ServerStep
  PROVE  ServerStepsLeft' < ServerStepsLeft
<1>1. sphase \in {"login", "submission", "logout"}
  BY DEF SInv, ServerShape, Phases
<1>2. CASE Accept
  <2>1. sphase = "login" /\ sphase' = "login"
    BY <1>2 DEF Accept, SInv, ServerShape
  <2>2. QED
    BY <1>2, <2>1 DEF Accept, ServerStepsLeft
<1>3. CASE ServerReads
  BY <1>1, <1>3 DEF ServerReads, ServerStepsLeft
<1>4. CASE ServerReadFails
  BY <1>1, <1>4 DEF ServerReadFails, ServerStepsLeft
<1>5. CASE ServerResponds
  BY <1>1, <1>5 DEF ServerResponds, ServerStepsLeft
<1>6. CASE ServerCloses
  BY <1>6 DEF ServerCloses, ServerStepsLeft
<1>7. QED
  BY <1>2, <1>3, <1>4, <1>5, <1>6 DEF ServerStep

\* The client's steps are those of its one call of Run.
LEMMA ClientDescends ==
  ASSUME SInv, Inv1, Inv2, Inv1', ClientStep,
         (StepsLeft \in 0..(MaxAddrs * PerAddress + 2))'
  PROVE  ClientStepsLeft' < ClientStepsLeft
<1>1. MaxAddrs * PerAddress \in Nat
  BY ProtoClientAssumption, Allotted, Products
<1>2. runs \in Nat /\ (runs = 0 => pc = "idle")
  BY ProtoClientAssumption DEF Inv1, TypeOK, SInv, Before
<1>3. CASE runs = 0 /\ (CallRun \/ CallRunOnAddrs)
  <2>1. runs' # 0
    BY <1>2, <1>3 DEF CallRun, CallRunOnAddrs, Enter
  <2>2. (MaxAddrs * PerAddress)' = MaxAddrs * PerAddress
    BY DEF PerAddress, PerExchange
  <2>3. PICK k \in Nat : k = MaxAddrs * PerAddress
    BY <1>1
  <2>4. PICK n \in 0..(k + 2) : n = StepsLeft'
    BY <2>2, <2>3
  <2>5. ClientStepsLeft' = n /\ ClientStepsLeft = k + 3
    BY <1>3, <2>1, <2>3, <2>4 DEF ClientStepsLeft
  <2>6. n < k + 3
    BY <2>3, <2>4
  <2>7. QED
    BY <2>5, <2>6
<1>4. CASE InRun
  <2>1. pc # "idle" /\ runs' = runs
    BY <1>4 DEF InRun, Resolve, ResolveFails, TryNext, Exhausted, Connect,
       WriteLoginRequest, WriteSubmissionRequest, WriteLogoutRequest,
       ReadHeader, ReadFails, RejectFrame, BadFrame, BodyRead,
       ReadLoginResponse, ReadSubmissionResponse, ReadLogoutResponse
  <2>2. StepsLeft' < StepsLeft
    BY <1>4, StepDescends
  <2>3. QED
    BY <1>2, <2>1, <2>2 DEF ClientStepsLeft
<1>5. QED
  BY <1>3, <1>4 DEF ClientStep, ClientMoves, ClientResolveFails,
     ClientConnects, ClientConnectFails, ClientWrites, ClientReadsHeader,
     ClientReadsBody, ClientReadFails, InRun

\* Sessions end, for every number of addresses and of rounds, as far as this
\* is not a matter of fairness: that one of the threads can step until the
\* test is over, and is run, is what TestEnds adds.
THEOREM SessionIsBounded == SessionSpec => SessionDescends
<1> DEFINE Fits == StepsLeft \in 0..(MaxAddrs * PerAddress + 2)
<1>1. Inv1 /\ Inv2 => Fits
  BY StepsLeftFit
<1>2. Fits => SessionStepsLeft \in 0..(MaxAddrs * PerAddress + 12)
  BY SessionBound
<1>3. (SInv /\ Inv1 /\ Inv2 /\ Inv1' /\ Fits /\ Fits'
          /\ [SessionNext]_sessionVars)
        => [SessionStepsLeft' < SessionStepsLeft]_sessionVars
  <2> SUFFICES ASSUME SInv, Inv1, Inv2, Inv1', Fits, Fits', SessionNext
               PROVE  SessionStepsLeft' < SessionStepsLeft
    OBVIOUS
  <2>1. PICK k \in Nat : /\ k = MaxAddrs * PerAddress
                         /\ k = (MaxAddrs * PerAddress)'
    BY ProtoClientAssumption, Allotted, Products DEF PerAddress, PerExchange
  <2>2. PICK c, d, s, t \in Int :
          /\ c = ClientStepsLeft /\ d = ClientStepsLeft'
          /\ s = ServerStepsLeft /\ t = ServerStepsLeft'
    BY <2>1 DEF ClientStepsLeft, ServerStepsLeft
  <2>3. CASE ClientStep
    <3>1. d < c
      BY <2>2, <2>3, ClientDescends
    <3>2. t = s /\ slow' = slow
      BY <2>2, <2>3 DEF ClientStep, ClientMoves, ClientResolveFails,
         ClientConnects, ClientConnectFails, ClientWrites, ClientReadsHeader,
         ClientReadsBody, ClientReadFails, serverVars, ServerStepsLeft
    <3>3. d + t < c + s
      BY <3>1, <3>2
    <3>4. PICK e \in 0..1 : /\ e = IF slow THEN 0 ELSE 1
                           /\ e = IF slow' THEN 0 ELSE 1
      BY <3>2
    <3>5. SessionStepsLeft = c + s + e /\ SessionStepsLeft' = d + t + e
      BY <2>2, <3>4 DEF SessionStepsLeft
    <3>6. d + t + e < c + s + e
      BY <3>3
    <3>7. QED
      BY <3>5, <3>6
  <2>4. CASE ServerStep
    <3>1. t < s
      BY <2>2, <2>4, ServerDescends
    <3>2. UNCHANGED vars /\ slow' = slow
      BY <2>4 DEF ServerStep, Accept, ServerReads, ServerReadFails,
         ServerResponds, ServerCloses
    <3>3. d = c
      BY <2>2, <3>2 DEF vars, ClientStepsLeft, StepsLeft, AtAddress,
         InExchange, ExchangesAfter, PerAddress, PerExchange
    <3>4. d + t < c + s
      BY <3>1, <3>3
    <3>5. PICK e \in 0..1 : /\ e = IF slow THEN 0 ELSE 1
                           /\ e = IF slow' THEN 0 ELSE 1
      BY <3>2
    <3>6. SessionStepsLeft = c + s + e /\ SessionStepsLeft' = d + t + e
      BY <2>2, <3>5 DEF SessionStepsLeft
    <3>7. d + t + e < c + s + e
      BY <3>4
    <3>8. QED
      BY <3>6, <3>7
  <2>5. CASE Delay
    <3>1. ~slow /\ slow' = TRUE /\ UNCHANGED vars /\ UNCHANGED serverVars
      BY <2>5 DEF Delay
    <3>2. ServerStepsLeft' = ServerStepsLeft
      BY <3>1 DEF serverVars, ServerStepsLeft
    <3>3. ClientStepsLeft' = ClientStepsLeft
      BY <3>1 DEF vars, ClientStepsLeft, StepsLeft, AtAddress, InExchange,
         ExchangesAfter, PerAddress, PerExchange
    <3>4. QED
      BY <2>2, <3>1, <3>2, <3>3 DEF SessionStepsLeft
  <2>6. QED
    BY <2>3, <2>4, <2>5 DEF SessionNext
<1>4. Spec => [](Inv1 /\ Inv2)
  BY Layer1, Layer2, PTL
<1>5. QED
  BY <1>1, <1>2, <1>3, <1>4, InvHolds, ClientIsProtoClient, PTL
     DEF SessionSpec, SessionDescends
=============================================================================
