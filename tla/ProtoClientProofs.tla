------------------------- MODULE ProtoClientProofs -------------------------
(***************************************************************************)
(* Theorems about ProtoClient, for every number of addresses, of retries   *)
(* and of calls.  The inductive invariant is built in four layers, each    *)
(* inductive together with those before it; the properties that the runs   *)
(* check are conjuncts of the layers.  The last two theorems are the       *)
(* refinement of RunContract and a bound on the steps of a call of Run.    *)
(***************************************************************************)
EXTENDS ProtoClient, SequenceTheorems, TLAPS

\* Where a connection exists, and where a response is being waited for.
InSession == pc \in {"write", "header", "body"}
Awaiting == pc \in {"header", "body"}

\* What the current connection has carried, by control point and exchange.
WireMatchesPhase ==
  /\ pc = "connect" => cur > 0 /\ phase = "login" /\ wire[cur] = <<>>
  /\ InSession => cur > 0
  /\ pc = "write" =>
       /\ phase = "login" => wire[cur] = <<>>
       /\ phase = "submission" => wire[cur] = <<"L">>
       /\ phase = "logout" => wire[cur] = <<"L", "S">>
  /\ Awaiting =>
       /\ phase = "login" => wire[cur] = <<"L">>
       /\ phase = "submission" => wire[cur] = <<"L", "S">>
       /\ phase = "logout" => wire[cur] = <<"L", "S", "O">>

\* RunOne has no outcome and Run no result before they return.
ReturnsAreFinal ==
  /\ result # "none" => pc = "idle"
  /\ outcome = "true" => pc = "idle" /\ result = "true"
  /\ pc = "connect" \/ InSession => outcome = "none"

\* Behind a request, and behind a frame, every chunk has been written.
BufferWritten ==
  (Awaiting \/ (pc = "write" /\ phase # "login")) =>
    \A c \in Chunks : "nobody" \notin buf_[c].by

\* While the login response is due, what stands at the code's place is the
\* request's text or comes from a frame that was rejected.
CodeByte ==
  (Awaiting /\ phase = "login") =>
    /\ buf_[1].by \in {{"request"}, {"earlier"}, {"frame"}}
    /\ buf_[1].by = {"request"} => buf_[1].val = "text"
    /\ buf_[1].by # {"request"} => tries > 0
    /\ pc = "body" => buf_[1].by # {"frame"}

\* Until a frame has been rejected, the byte behind the token field is the
\* padding of the submission request.
PaddingBehindField ==
  (Awaiting /\ phase = "submission" /\ tries = 0) => buf_[3].val = "nul"

\* A response is only waited for while rounds are left.
RoundsLeft == Awaiting => tries < MaxRetries

\* Until the name has been resolved no address is known or has been tried.
NothingToTryYet ==
  pc = "resolve" => cur = 0 /\ addrs = 0 /\ outcome = "none"

\* Layer 1: types and loop counters.
Inv1 == TypeOK /\ NothingToTryYet /\ RoundsLeft

\* Layer 2: what has been sent and returned.
Inv2 ==
  /\ ReturnsAreFinal
  /\ WireMatchesPhase
  /\ OneScriptPerAddress
  /\ VerdictSound

\* Layer 3: what the token and a false outcome say of the attempt.
Inv3 == TokenIsOfLatestAttempt /\ FalseMeansBudgetOrGoodbye

-----------------------------------------------------------------------------
\* The three requests appended one after the other make the one script.
LEMMA Appending ==
  /\ Append(<<>>, "L") = <<"L">>
  /\ Append(<<"L">>, "S") = <<"L", "S">>
  /\ Append(<<"L", "S">>, "O") = <<"L", "S", "O">>
<1>1. Append(<<>>, "L") = <<"L">>
  <2> DEFINE s == Append(<<>>, "L")
             t == <<"L">>
  <2>1. s \in Seq(RequestTypes) /\ t \in Seq(RequestTypes)
    BY DEF RequestTypes
  <2>2. Len(s) = Len(t) /\ \A i \in 1..Len(s) : s[i] = t[i]
    OBVIOUS
  <2> HIDE DEF s, t
  <2>3. s = t
    BY <2>1, <2>2, SeqEqual
  <2>4. QED
    BY <2>3 DEF s, t
<1>2. Append(<<"L">>, "S") = <<"L", "S">>
  <2> DEFINE s == Append(<<"L">>, "S")
             t == <<"L", "S">>
  <2>1. s \in Seq(RequestTypes) /\ t \in Seq(RequestTypes)
    BY DEF RequestTypes
  <2>2. Len(s) = 2 /\ Len(t) = 2
    OBVIOUS
  <2>3. \A i \in 1..Len(s) : s[i] = t[i]
    BY <2>2
  <2> HIDE DEF s, t
  <2>4. s = t
    BY <2>1, <2>2, <2>3, SeqEqual
  <2>5. QED
    BY <2>4 DEF s, t
<1>3. Append(<<"L", "S">>, "O") = <<"L", "S", "O">>
  <2> DEFINE s == Append(<<"L", "S">>, "O")
             t == <<"L", "S", "O">>
  <2>1. s \in Seq(RequestTypes) /\ t \in Seq(RequestTypes)
    BY DEF RequestTypes
  <2>2. Len(s) = 3 /\ Len(t) = 3
    OBVIOUS
  <2>3. \A i \in 1..Len(s) : s[i] = t[i]
    BY <2>2
  <2> HIDE DEF s, t
  <2>4. s = t
    BY <2>1, <2>2, <2>3, SeqEqual
  <2>5. QED
    BY <2>4 DEF s, t
<1>4. QED
  BY <1>1, <1>2, <1>3

-----------------------------------------------------------------------------
\* What the client encodes, reads, ages and decodes is well-typed.
LEMMA RequestTyping ==
  /\ RequestBody \in [Chunks -> ChunkContents]
  /\ \A t \in RequestTypes :
       \A n \in BodyLengths : RequestHeader(t, n) \in Header
<1>1. RequestBody \in [Chunks -> ChunkContents]
  BY DEF RequestBody, ChunkContents, Values, Writers
<1>2. ASSUME NEW t \in RequestTypes, NEW n \in BodyLengths
      PROVE  RequestHeader(t, n) \in Header
  BY DEF RequestHeader, Header
<1>3. QED
  BY <1>1, <1>2

LEMMA OverlayTyping ==
  ASSUME TypeOK, NEW n \in BodyLengths, NEW v \in Bodies
  PROVE  Overlay(n, v) \in [Chunks -> ChunkContents]
<1>1. \A c \in Chunks : v[c] \in Values
  BY ProtoClientAssumption DEF Bodies, ContentsOf, Values
<1>2. \A c \in Chunks : buf_[c] \in [val : Values, by : SUBSET Writers]
  BY DEF TypeOK, ChunkContents
<1>3. \A c \in Chunks : /\ {"frame"} \in SUBSET Writers
                        /\ buf_[c].by \cup {"frame"} \in SUBSET Writers
  BY <1>2 DEF Writers
<1>4. \A x \in Values, w \in SUBSET Writers :
        [val |-> x, by |-> w] \in ChunkContents
  BY DEF ChunkContents
<1>5. ASSUME NEW c \in Chunks
      PROVE  (IF Covered(c, n)
                THEN [val |-> v[c], by |-> {"frame"}]
                ELSE IF Cut(c, n)
                       THEN [val |-> v[c], by |-> buf_[c].by \cup {"frame"}]
                       ELSE buf_[c]) \in ChunkContents
  <2>1. [val |-> v[c], by |-> {"frame"}] \in ChunkContents
    BY <1>1, <1>3, <1>4
  <2>2. [val |-> v[c], by |-> buf_[c].by \cup {"frame"}] \in ChunkContents
    BY <1>1, <1>3, <1>4
  <2>3. QED
    BY <1>2, <2>1, <2>2 DEF ChunkContents
<1>6. QED
  BY <1>5 DEF Overlay

LEMMA AgedTyping ==
  ASSUME TypeOK
  PROVE  Aged \in [Chunks -> ChunkContents]
<1>1. ASSUME NEW c \in Chunks
      PROVE  (IF "frame" \in buf_[c].by
                THEN [val |-> buf_[c].val,
                      by  |-> (buf_[c].by \ {"frame"}) \cup {"earlier"}]
                ELSE buf_[c]) \in ChunkContents
  <2>1. buf_[c] \in [val : Values, by : SUBSET Writers]
    BY DEF TypeOK, ChunkContents
  <2>2. (buf_[c].by \ {"frame"}) \cup {"earlier"} \in SUBSET Writers
    BY <2>1 DEF Writers
  <2>3. QED
    BY <2>1, <2>2 DEF ChunkContents
<1>2. QED
  BY <1>1 DEF Aged

LEMMA TokenTyping ==
  ASSUME NEW b \in [Chunks -> ChunkContents]
  PROVE  TokenText(b) \subseteq Writers
<1>1. \A c \in Chunks : b[c].by \subseteq Writers
  BY DEF ChunkContents
<1>2. 1 \in Chunks /\ 2 \in Chunks
  BY DEF Chunks
<1>3. QED
  BY <1>1, <1>2 DEF TokenText

LEMMA BodyReadTyping ==
  ASSUME TypeOK, BodyRead
  PROVE  buf_' \in [Chunks -> ChunkContents]
<1>1. header_.len \in BodyLengths
  BY DEF TypeOK, Header
<1>2. QED
  BY <1>1, OverlayTyping DEF BodyRead

\* A request that is written is appended to its connection's history, and to
\* no other.
LEMMA WireTyping ==
  ASSUME TypeOK, NEW t \in RequestTypes,
         wire' = [wire EXCEPT ![cur] = Append(@, t)]
  PROVE  wire' \in [1..MaxAddrs -> Seq(RequestTypes)]
<1>1. \A a \in 1..MaxAddrs : wire[a] \in Seq(RequestTypes)
  BY DEF TypeOK
<1>2. \A a \in 1..MaxAddrs : Append(wire[a], t) \in Seq(RequestTypes)
  BY <1>1, AppendProperties
<1>3. QED
  BY <1>1, <1>2 DEF TypeOK

LEMMA WriteTyping ==
  ASSUME TypeOK, NEW t \in RequestTypes, WriteExact(t)
  PROVE  /\ pc' \in {"header", "idle", "loop", "killed"}
         /\ pc' = "header" => tries' = 0
         /\ tries' \in 0..MaxRetries
         /\ wire' \in [1..MaxAddrs -> Seq(RequestTypes)]
         /\ result' \in {"none", "true", "false"}
         /\ outcome' \in {"none", "true", "false", "throw"}
BY WireTyping, ProtoClientAssumption
   DEF TypeOK, WriteExact, EndRunOne, Return

-----------------------------------------------------------------------------
\* Every variable keeps its type, and the counter of bad frames its bound:
\* TypeOK is not inductive alone, since a rejected frame increments tries.
LEMMA Layer1 == Spec => []Inv1
<1>1. Init => Inv1
  <2> SUFFICES ASSUME Init
               PROVE  Inv1
    OBVIOUS
  <2>1. buf_ \in [Chunks -> ChunkContents]
    <3>1. PICK v \in ContentsOf(Values) :
            buf_ = [c \in Chunks |-> [val |-> v[c], by |-> {"nobody"}]]
      BY DEF Init
    <3>2. \A c \in Chunks :
            [val |-> v[c], by |-> {"nobody"}] \in ChunkContents
      BY <3>1 DEF ContentsOf, ChunkContents, Writers
    <3>3. QED
      BY <3>1, <3>2
  <2>2. QED
    BY <2>1, ProtoClientAssumption
       DEF Init, Inv1, TypeOK, NothingToTryYet, RoundsLeft, Awaiting, Phases,
           Header, ResponseTypes, BodyLengths
<1>2. Inv1 /\ [Next]_vars => Inv1'
  <2> SUFFICES ASSUME Inv1, [Next]_vars
               PROVE  Inv1'
    OBVIOUS
  <2> USE ProtoClientAssumption DEF Inv1, TypeOK, NothingToTryYet, RoundsLeft,
          Awaiting, Phases
  <2>1. CASE CallRun
    BY <2>1 DEF CallRun, Enter
  <2>2. CASE CallRunOnAddrs
    BY <2>2 DEF CallRunOnAddrs, Enter
  <2>3. CASE Resolve
    BY <2>3 DEF Resolve
  <2>4. CASE ResolveFails
    BY <2>4 DEF ResolveFails, Return
  <2>5. CASE TryNext
    BY <2>5 DEF TryNext
  <2>6. CASE Exhausted
    BY <2>6 DEF Exhausted, Return
  <2>7. CASE Connect
    BY <2>7 DEF Connect, EndRunOne, Return
  <2>8. CASE WriteLoginRequest
    BY <2>8, RequestTyping, WriteTyping DEF WriteLoginRequest, RequestTypes,
       BodyLengths
  <2>9. CASE WriteSubmissionRequest
    BY <2>9, RequestTyping, WriteTyping DEF WriteSubmissionRequest,
       RequestTypes, BodyLengths
  <2>10. CASE WriteLogoutRequest
    BY <2>10, RequestTyping, WriteTyping DEF WriteLogoutRequest, RequestTypes,
       BodyLengths
  <2>11. CASE ReadHeader
    BY <2>11, AgedTyping DEF ReadHeader, EndRunOne, Return, Header,
       ReceivedHeader
  <2>12. CASE ReadFails
    BY <2>12, OverlayTyping DEF ReadFails, EndRunOne, Return, Header,
       BodyLengths
  <2>13. CASE RejectFrame
    BY <2>13, BodyReadTyping DEF RejectFrame, BadFrame, BodyRead, EndRunOne,
       Return
  <2>14. CASE ReadLoginResponse
    BY <2>14, BodyReadTyping DEF ReadLoginResponse, BodyRead, EndRunOne,
       Return
  <2>15. CASE ReadSubmissionResponse
    BY <2>15, BodyReadTyping, TokenTyping DEF ReadSubmissionResponse,
       BodyRead, EndRunOne, Return
  <2>16. CASE ReadLogoutResponse
    BY <2>16, BodyReadTyping DEF ReadLogoutResponse, BodyRead, EndRunOne,
       Return
  <2>17. CASE UNCHANGED vars
    BY <2>17 DEF vars
  <2>18. QED
    BY <2>1, <2>2, <2>3, <2>4, <2>5, <2>6, <2>7, <2>8, <2>9, <2>10, <2>11,
       <2>12, <2>13, <2>14, <2>15, <2>16, <2>17 DEF Next, InRun
<1>3. QED
  BY <1>1, <1>2, PTL DEF Spec

THEOREM TypeCorrect == Spec => []TypeOK
BY Layer1, PTL DEF Inv1

-----------------------------------------------------------------------------
\* What writing a request does to the connection's history and to the
\* returns.
LEMMA WriteEffect ==
  ASSUME TypeOK, NEW t \in RequestTypes, cur > 0, pc = "write",
         ReturnsAreFinal, WriteExact(t)
  PROVE  /\ \A a \in 1..MaxAddrs : a # cur => wire'[a] = wire[a]
         /\ pc' # "header" => wire'[cur] = wire[cur]
         /\ pc' = "header" => wire'[cur] = Append(wire[cur], t)
         /\ pc' \in {"header", "loop", "killed"}
         /\ result' = "none" /\ outcome' \in {"none", "throw"}
         /\ pc' = "header" => outcome' = "none"
<1>1. cur \in 1..MaxAddrs
  BY ProtoClientAssumption DEF TypeOK
<1>2. result = "none" /\ outcome = "none"
  BY DEF ReturnsAreFinal, InSession, TypeOK
<1>3. QED
  BY <1>1, <1>2 DEF WriteExact, EndRunOne, TypeOK

\* The history of the current connection follows the exchanges, so what a
\* verdict says of it can be read off the exchange RunOne is in.
LEMMA Layer2 == Spec => []Inv2
<1>1. Init => Inv2
  BY ProtoClientAssumption
     DEF Init, Inv2, ReturnsAreFinal, WireMatchesPhase, InSession, Awaiting,
         OneScriptPerAddress, Scripts, VerdictSound
<1>2. Inv1 /\ Inv2 /\ [Next]_vars => Inv2'
  <2> SUFFICES ASSUME Inv1, Inv2, [Next]_vars
               PROVE  Inv2'
    OBVIOUS
  <2> USE ProtoClientAssumption DEF Inv2, ReturnsAreFinal, WireMatchesPhase,
          InSession, Awaiting, OneScriptPerAddress, Scripts, VerdictSound
  <2>0. TypeOK /\ NothingToTryYet
    BY DEF Inv1
  <2>a. /\ cur \in 0..MaxAddrs /\ addrs \in 0..MaxAddrs /\ cur <= addrs
        /\ phase \in Phases
    BY <2>0 DEF TypeOK
  <2>1. CASE CallRun
    BY <2>1 DEF CallRun, Enter
  <2>2. CASE CallRunOnAddrs
    BY <2>2 DEF CallRunOnAddrs, Enter
  <2>3. CASE Resolve
    BY <2>0, <2>3 DEF Resolve, NothingToTryYet
  <2>4. CASE ResolveFails
    BY <2>0, <2>4 DEF ResolveFails, Return, NothingToTryYet
  <2>5. CASE TryNext
    BY <2>a, <2>5 DEF TryNext
  <2>6. CASE Exhausted
    BY <2>6 DEF Exhausted, Return
  <2>7. CASE Connect
    BY <2>7 DEF Connect, EndRunOne, Return
  <2>8. CASE WriteLoginRequest
    <3>1. /\ WriteExact("L") /\ UNCHANGED <<addrs, cur, phase>>
          /\ pc = "write" /\ phase = "login" /\ cur > 0
          /\ wire[cur] = <<>>
      BY <2>8 DEF WriteLoginRequest
    <3>2. /\ \A a \in 1..MaxAddrs : a # cur => wire'[a] = wire[a]
          /\ pc' # "header" => wire'[cur] = <<>>
          /\ pc' = "header" => wire'[cur] = <<"L">>
          /\ pc' \in {"header", "loop", "killed"}
          /\ result' = "none" /\ outcome' \in {"none", "throw"}
          /\ pc' = "header" => outcome' = "none"
      BY <2>0, <3>1, WriteEffect, Appending DEF RequestTypes
    <3>3. \A a \in 1..MaxAddrs : wire'[a] \in Scripts
      BY <3>1, <3>2
    <3>4. QED
      BY <2>a, <3>1, <3>2, <3>3
  <2>9. CASE WriteSubmissionRequest
    <3>1. /\ WriteExact("S") /\ UNCHANGED <<addrs, cur, phase>>
          /\ pc = "write" /\ phase = "submission" /\ cur > 0
          /\ wire[cur] = <<"L">>
      BY <2>9 DEF WriteSubmissionRequest
    <3>2. /\ \A a \in 1..MaxAddrs : a # cur => wire'[a] = wire[a]
          /\ pc' # "header" => wire'[cur] = <<"L">>
          /\ pc' = "header" => wire'[cur] = <<"L", "S">>
          /\ pc' \in {"header", "loop", "killed"}
          /\ result' = "none" /\ outcome' \in {"none", "throw"}
          /\ pc' = "header" => outcome' = "none"
      BY <2>0, <3>1, WriteEffect, Appending DEF RequestTypes
    <3>3. \A a \in 1..MaxAddrs : wire'[a] \in Scripts
      BY <3>1, <3>2
    <3>4. QED
      BY <2>a, <3>1, <3>2, <3>3
  <2>10. CASE WriteLogoutRequest
    <3>1. /\ WriteExact("O") /\ UNCHANGED <<addrs, cur, phase>>
          /\ pc = "write" /\ phase = "logout" /\ cur > 0
          /\ wire[cur] = <<"L", "S">>
      BY <2>10 DEF WriteLogoutRequest
    <3>2. /\ \A a \in 1..MaxAddrs : a # cur => wire'[a] = wire[a]
          /\ pc' # "header" => wire'[cur] = <<"L", "S">>
          /\ pc' = "header" => wire'[cur] = <<"L", "S", "O">>
          /\ pc' \in {"header", "loop", "killed"}
          /\ result' = "none" /\ outcome' \in {"none", "throw"}
          /\ pc' = "header" => outcome' = "none"
      BY <2>0, <3>1, WriteEffect, Appending DEF RequestTypes
    <3>3. \A a \in 1..MaxAddrs : wire'[a] \in Scripts
      BY <3>1, <3>2
    <3>4. QED
      BY <2>a, <3>1, <3>2, <3>3
  <2>11. CASE ReadHeader
    BY <2>11 DEF ReadHeader, EndRunOne, Return
  <2>12. CASE ReadFails
    BY <2>12 DEF ReadFails, EndRunOne, Return
  <2>13. CASE RejectFrame
    BY <2>13 DEF RejectFrame, BadFrame, BodyRead, EndRunOne, Return
  <2>14. CASE ReadLoginResponse
    BY <2>14 DEF ReadLoginResponse, BodyRead, EndRunOne, Return
  <2>15. CASE ReadSubmissionResponse
    BY <2>15 DEF ReadSubmissionResponse, BodyRead, EndRunOne, Return
  <2>16. CASE ReadLogoutResponse
    BY <2>a, <2>16 DEF ReadLogoutResponse, BodyRead, EndRunOne, Return
  <2>17. CASE UNCHANGED vars
    BY <2>17 DEF vars
  <2>18. QED
    BY <2>1, <2>2, <2>3, <2>4, <2>5, <2>6, <2>7, <2>8, <2>9, <2>10, <2>11,
       <2>12, <2>13, <2>14, <2>15, <2>16, <2>17 DEF Next, InRun
<1>3. QED
  BY <1>1, <1>2, Layer1, PTL DEF Spec

\* However many frames are rejected and addresses tried, every connection
\* carries a prefix of login, submission, logout, each at most once.
THEOREM EachRequestSentOnce == Spec => []OneScriptPerAddress
BY Layer2, PTL DEF Inv2

\* Run's verdict: true only with all three requests sent on the connection
\* it ends on, false only with every address tried.
THEOREM VerdictIsSound == Spec => []VerdictSound
BY Layer2, PTL DEF Inv2

-----------------------------------------------------------------------------
\* Each write leaves the attempt where it was, or fails it.
LEMMA WriteOutcome ==
  ASSUME NEW t, WriteExact(t), pc = "write", ReturnsAreFinal
  PROVE  outcome' # "false" /\ pc' \in {"header", "loop", "killed"}
BY DEF WriteExact, EndRunOne, ReturnsAreFinal, InSession

\* The token is set only when a submission response has been read, on a
\* connection that has sent a login and a submission; a false outcome comes
\* from a goodbye or from the last round allowed.
LEMMA Layer3 == Spec => []Inv3
<1>1. Init => Inv3
  BY DEF Init, Inv3, TokenIsOfLatestAttempt, FalseMeansBudgetOrGoodbye
<1>2. Inv1 /\ Inv2 /\ Inv3 /\ [Next]_vars => TokenIsOfLatestAttempt'
  <2> SUFFICES ASSUME Inv1, Inv2, Inv3, [Next]_vars
               PROVE  TokenIsOfLatestAttempt'
    OBVIOUS
  <2> USE DEF TokenIsOfLatestAttempt
  <2>0. TokenIsOfLatestAttempt /\ TypeOK /\ WireMatchesPhase /\ ReturnsAreFinal
    BY DEF Inv1, Inv2, Inv3
  <2>1. CASE CallRun
    BY <2>0, <2>1 DEF CallRun, Enter
  <2>2. CASE CallRunOnAddrs
    BY <2>0, <2>2 DEF CallRunOnAddrs, Enter
  <2>3. CASE Resolve
    BY <2>0, <2>3 DEF Resolve
  <2>4. CASE ResolveFails
    BY <2>0, <2>4 DEF ResolveFails, Return
  <2>5. CASE TryNext
    BY <2>0, <2>5 DEF TryNext
  <2>6. CASE Exhausted
    BY <2>0, <2>6 DEF Exhausted, Return
  <2>7. CASE Connect
    BY <2>0, <2>7 DEF Connect, EndRunOne, Return
  <2>8. CASE WriteLoginRequest
    <3>1. WriteExact("L") /\ pc = "write" /\ phase = "login"
      BY <2>8 DEF WriteLoginRequest
    <3>2. cur > 0
      BY <2>0, <3>1 DEF WireMatchesPhase, InSession
    <3>3. CASE token_ = {}
      BY <2>8, <3>3 DEF WriteLoginRequest
    <3>4. CASE token_ # {}
      BY <2>0, <3>1, <3>2, <3>4
    <3>5. QED
      BY <3>3, <3>4
  <2>9. CASE WriteSubmissionRequest
    <3>1. WriteExact("S") /\ pc = "write" /\ phase = "submission"
      BY <2>9 DEF WriteSubmissionRequest
    <3>2. cur > 0
      BY <2>0, <3>1 DEF WireMatchesPhase, InSession
    <3>3. CASE token_ = {}
      BY <2>9, <3>3 DEF WriteSubmissionRequest
    <3>4. CASE token_ # {}
      BY <2>0, <3>1, <3>2, <3>4
    <3>5. QED
      BY <3>3, <3>4
  <2>10. CASE WriteLogoutRequest
    <3>1. WriteExact("O") /\ pc = "write" /\ phase = "logout"
      BY <2>10 DEF WriteLogoutRequest
    <3>2. cur > 0
      BY <2>0, <3>1 DEF WireMatchesPhase, InSession
    <3>3. CASE token_ = {}
      BY <2>10, <3>3 DEF WriteLogoutRequest
    <3>4. CASE token_ # {}
      <4>1. wire[cur] = <<"L", "S">>
        BY <2>0, <3>1 DEF WireMatchesPhase
      <4>2. wire'[cur] \in {<<"L", "S">>, <<"L", "S", "O">>}
        BY <2>0, <3>1, <3>2, <4>1, WriteEffect, Appending DEF RequestTypes
      <4>3. QED
        BY <2>10, <4>2 DEF WriteLogoutRequest
    <3>5. QED
      BY <3>3, <3>4
  <2>11. CASE ReadHeader
    BY <2>0, <2>11 DEF ReadHeader, EndRunOne, Return
  <2>12. CASE ReadFails
    BY <2>0, <2>12 DEF ReadFails, EndRunOne, Return
  <2>13. CASE RejectFrame
    BY <2>0, <2>13 DEF RejectFrame, BadFrame, BodyRead, EndRunOne, Return
  <2>14. CASE ReadLoginResponse
    BY <2>0, <2>14 DEF ReadLoginResponse, BodyRead, EndRunOne, Return
  <2>15. CASE ReadSubmissionResponse
    BY <2>0, <2>15 DEF ReadSubmissionResponse, BodyRead, EndRunOne, Return,
       WireMatchesPhase, Awaiting
  <2>16. CASE ReadLogoutResponse
    BY <2>0, <2>16 DEF ReadLogoutResponse, BodyRead, EndRunOne, Return
  <2>17. CASE UNCHANGED vars
    BY <2>0, <2>17 DEF vars
  <2>18. QED
    BY <2>1, <2>2, <2>3, <2>4, <2>5, <2>6, <2>7, <2>8, <2>9, <2>10, <2>11,
       <2>12, <2>13, <2>14, <2>15, <2>16, <2>17 DEF Next, InRun
<1>3. Inv1 /\ Inv2 /\ Inv3 /\ [Next]_vars => FalseMeansBudgetOrGoodbye'
  <2> SUFFICES ASSUME Inv1, Inv2, Inv3, [Next]_vars
               PROVE  FalseMeansBudgetOrGoodbye'
    OBVIOUS
  <2> USE DEF FalseMeansBudgetOrGoodbye
  <2>0. /\ FalseMeansBudgetOrGoodbye /\ ReturnsAreFinal
        /\ tries \in 0..MaxRetries /\ RoundsLeft /\ NothingToTryYet
    BY DEF Inv1, Inv2, Inv3, TypeOK
  <2>1. CASE CallRun
    BY <2>0, <2>1 DEF CallRun, Enter
  <2>2. CASE CallRunOnAddrs
    BY <2>0, <2>2 DEF CallRunOnAddrs, Enter
  <2>3. CASE Resolve
    BY <2>0, <2>3 DEF Resolve, NothingToTryYet
  <2>4. CASE ResolveFails
    BY <2>0, <2>4 DEF ResolveFails, Return, NothingToTryYet
  <2>5. CASE TryNext
    BY <2>0, <2>5 DEF TryNext
  <2>6. CASE Exhausted
    BY <2>0, <2>6 DEF Exhausted, Return
  <2>7. CASE Connect
    BY <2>0, <2>7 DEF Connect, EndRunOne, Return
  <2>8. CASE WriteLoginRequest
    BY <2>0, <2>8, WriteOutcome DEF WriteLoginRequest
  <2>9. CASE WriteSubmissionRequest
    BY <2>0, <2>9, WriteOutcome DEF WriteSubmissionRequest
  <2>10. CASE WriteLogoutRequest
    BY <2>0, <2>10, WriteOutcome DEF WriteLogoutRequest
  <2>11. CASE ReadHeader
    BY <2>0, <2>11 DEF ReadHeader, EndRunOne, Return
  <2>12. CASE ReadFails
    BY <2>0, <2>12 DEF ReadFails, EndRunOne, Return
  <2>13. CASE RejectFrame
    BY <2>0, <2>13, ProtoClientAssumption
       DEF RejectFrame, BadFrame, BodyRead, EndRunOne, Return, RoundsLeft,
           Awaiting
  <2>14. CASE ReadLoginResponse
    BY <2>0, <2>14 DEF ReadLoginResponse, BodyRead, EndRunOne, Return
  <2>15. CASE ReadSubmissionResponse
    BY <2>0, <2>15 DEF ReadSubmissionResponse, BodyRead, EndRunOne, Return
  <2>16. CASE ReadLogoutResponse
    BY <2>0, <2>16 DEF ReadLogoutResponse, BodyRead, EndRunOne, Return
  <2>17. CASE UNCHANGED vars
    BY <2>0, <2>17 DEF vars
  <2>18. QED
    BY <2>1, <2>2, <2>3, <2>4, <2>5, <2>6, <2>7, <2>8, <2>9, <2>10, <2>11,
       <2>12, <2>13, <2>14, <2>15, <2>16, <2>17 DEF Next, InRun
<1>4. QED
  BY <1>1, <1>2, <1>3, Layer1, Layer2, PTL DEF Spec, Inv3

\* A token is that of the latest RunOne of the object, which has got as far
\* as the logout: no other RunOne, of this call of Run or of a later one,
\* leaves it standing.  Whether that logout then failed it does not say.
THEOREM TokenBelongsToLatestAttempt == Spec => []TokenIsOfLatestAttempt
BY Layer3, PTL DEF Inv3

\* A false from RunOne means a spent budget of bad frames or a goodbye.
THEOREM FalseIsExplained == Spec => []FalseMeansBudgetOrGoodbye
BY Layer3, PTL DEF Inv3

-----------------------------------------------------------------------------
\* What reading does to each chunk of the buffer.
LEMMA AgedChunk ==
  ASSUME TypeOK, NEW c \in Chunks
  PROVE  /\ Aged[c].val = buf_[c].val
         /\ "nobody" \in Aged[c].by => "nobody" \in buf_[c].by
         /\ "frame" \notin Aged[c].by
         /\ "frame" \notin buf_[c].by => Aged[c].by = buf_[c].by
         /\ buf_[c].by = {"frame"} => Aged[c].by = {"earlier"}
<1>1. CASE "frame" \in buf_[c].by
  <2>1. /\ Aged[c].val = buf_[c].val
        /\ Aged[c].by = (buf_[c].by \ {"frame"}) \cup {"earlier"}
    BY <1>1 DEF Aged
  <2>2. QED
    BY <1>1, <2>1
<1>2. CASE "frame" \notin buf_[c].by
  BY <1>2 DEF Aged
<1>3. QED
  BY <1>1, <1>2

LEMMA BodyChunk ==
  ASSUME BodyRead, NEW c \in Chunks
  PROVE  /\ pc = "body"
         /\ Covered(c, header_.len) => buf_'[c].by = {"frame"}
         /\ Cut(c, header_.len) /\ ~Covered(c, header_.len)
              => buf_'[c].by = buf_[c].by \cup {"frame"}
         /\ ~Cut(c, header_.len) /\ ~Covered(c, header_.len)
              => buf_'[c] = buf_[c]
         /\ "nobody" \in buf_'[c].by => "nobody" \in buf_[c].by
BY DEF BodyRead, Overlay

LEMMA RequestChunk ==
  ASSUME NEW c \in Chunks
  PROVE  /\ RequestBody[c].by = {"request"}
         /\ RequestBody[c].val = IF c = 1 THEN "text" ELSE "nul"
BY DEF RequestBody

LEMMA WriteControl ==
  ASSUME NEW t, WriteExact(t), pc = "write"
  PROVE  /\ pc' \in {"header", "loop", "idle", "killed"}
         /\ pc' = "header" => tries' = 0
BY DEF WriteExact, EndRunOne, Return

\* Layer 4: the bytes the client decides on have been written, the code's
\* place holds a Y only if the peer put it there, and what stands behind the
\* token field ends it.
Written ==
  /\ BufferWritten
  /\ CodeByte
  /\ PaddingBehindField
  /\ NothingUninitialised

LEMMA Layer4Written == Spec => []Written
<1>1. Init => Written
  BY DEF Init, Written, BufferWritten, CodeByte, PaddingBehindField,
         NothingUninitialised, Awaiting
<1>2. Inv1 /\ Inv2 /\ Written /\ [Next]_vars => BufferWritten'
  <2> SUFFICES ASSUME Inv1, Inv2, Written, [Next]_vars
               PROVE  BufferWritten'
    OBVIOUS
  <2> USE DEF BufferWritten, Awaiting
  <2>0. BufferWritten /\ TypeOK
    BY DEF Inv1, Written
  <2>1. CASE CallRun
    BY <2>0, <2>1 DEF CallRun, Enter
  <2>2. CASE CallRunOnAddrs
    BY <2>0, <2>2 DEF CallRunOnAddrs, Enter
  <2>3. CASE Resolve
    BY <2>0, <2>3 DEF Resolve
  <2>4. CASE ResolveFails
    BY <2>0, <2>4 DEF ResolveFails, Return
  <2>5. CASE TryNext
    BY <2>0, <2>5 DEF TryNext
  <2>6. CASE Exhausted
    BY <2>0, <2>6 DEF Exhausted, Return
  <2>7. CASE Connect
    BY <2>0, <2>7 DEF Connect, EndRunOne, Return, Inv2, WireMatchesPhase
  <2>8. CASE WriteLoginRequest
    BY <2>8, WriteControl, RequestChunk DEF WriteLoginRequest
  <2>9. CASE WriteSubmissionRequest
    BY <2>9, WriteControl, RequestChunk DEF WriteSubmissionRequest
  <2>10. CASE WriteLogoutRequest
    BY <2>0, <2>10, WriteControl DEF WriteLogoutRequest
  <2>11. CASE ReadHeader
    BY <2>0, <2>11, AgedChunk DEF ReadHeader, EndRunOne, Return
  <2>12. CASE ReadFails
    BY <2>0, <2>12 DEF ReadFails, EndRunOne, Return
  <2>13. CASE RejectFrame
    BY <2>0, <2>13, BodyChunk DEF RejectFrame, BadFrame, EndRunOne, Return
  <2>14. CASE ReadLoginResponse
    BY <2>0, <2>14, BodyChunk DEF ReadLoginResponse, EndRunOne, Return
  <2>15. CASE ReadSubmissionResponse
    BY <2>0, <2>15, BodyChunk DEF ReadSubmissionResponse, EndRunOne, Return
  <2>16. CASE ReadLogoutResponse
    BY <2>0, <2>16, BodyChunk DEF ReadLogoutResponse, EndRunOne, Return
  <2>17. CASE UNCHANGED vars
    BY <2>0, <2>17 DEF vars
  <2>18. QED
    BY <2>1, <2>2, <2>3, <2>4, <2>5, <2>6, <2>7, <2>8, <2>9, <2>10, <2>11,
       <2>12, <2>13, <2>14, <2>15, <2>16, <2>17 DEF Next, InRun
<1>3. Inv1 /\ Inv2 /\ Written /\ [Next]_vars => CodeByte'
  <2> SUFFICES ASSUME Inv1, Inv2, Written, [Next]_vars
               PROVE  CodeByte'
    OBVIOUS
  <2> USE DEF CodeByte, Awaiting
  <2>0. CodeByte /\ TypeOK /\ 1 \in Chunks /\ tries \in Nat
    BY DEF Inv1, Written, TypeOK, Chunks
  <2>1. CASE CallRun
    BY <2>0, <2>1 DEF CallRun, Enter
  <2>2. CASE CallRunOnAddrs
    BY <2>0, <2>2 DEF CallRunOnAddrs, Enter
  <2>3. CASE Resolve
    BY <2>0, <2>3 DEF Resolve
  <2>4. CASE ResolveFails
    BY <2>0, <2>4 DEF ResolveFails, Return
  <2>5. CASE TryNext
    BY <2>0, <2>5 DEF TryNext
  <2>6. CASE Exhausted
    BY <2>0, <2>6 DEF Exhausted, Return
  <2>7. CASE Connect
    BY <2>0, <2>7 DEF Connect, EndRunOne, Return, Inv2, WireMatchesPhase
  <2>8. CASE WriteLoginRequest
    BY <2>0, <2>8, WriteControl, RequestChunk DEF WriteLoginRequest
  <2>9. CASE WriteSubmissionRequest
    BY <2>0, <2>9, WriteControl DEF WriteSubmissionRequest
  <2>10. CASE WriteLogoutRequest
    BY <2>0, <2>10, WriteControl DEF WriteLogoutRequest
  <2>11. CASE ReadHeader
    BY <2>0, <2>11, AgedChunk DEF ReadHeader, EndRunOne, Return
  <2>12. CASE ReadFails
    BY <2>0, <2>12 DEF ReadFails, EndRunOne, Return
  <2>13. CASE RejectFrame
    <3>1. /\ buf_'[1].by = {"frame"} \/ buf_'[1] = buf_[1]
          /\ pc = "body"
      BY <2>0, <2>13, BodyChunk DEF RejectFrame, BadFrame, Cut
    <3>2. QED
      BY <2>0, <2>13, <3>1 DEF RejectFrame, BadFrame, EndRunOne, Return
  <2>14. CASE ReadLoginResponse
    BY <2>0, <2>14 DEF ReadLoginResponse, EndRunOne, Return
  <2>15. CASE ReadSubmissionResponse
    BY <2>0, <2>15 DEF ReadSubmissionResponse, EndRunOne, Return
  <2>16. CASE ReadLogoutResponse
    BY <2>0, <2>16 DEF ReadLogoutResponse, EndRunOne, Return
  <2>17. CASE UNCHANGED vars
    BY <2>0, <2>17 DEF vars
  <2>18. QED
    BY <2>1, <2>2, <2>3, <2>4, <2>5, <2>6, <2>7, <2>8, <2>9, <2>10, <2>11,
       <2>12, <2>13, <2>14, <2>15, <2>16, <2>17 DEF Next, InRun
<1>4. Inv1 /\ Inv2 /\ Written /\ [Next]_vars => PaddingBehindField'
  <2> SUFFICES ASSUME Inv1, Inv2, Written, [Next]_vars
               PROVE  PaddingBehindField'
    OBVIOUS
  <2> USE DEF PaddingBehindField, Awaiting
  <2>0. PaddingBehindField /\ TypeOK /\ 3 \in Chunks /\ tries \in Nat
    BY DEF Inv1, Written, TypeOK, Chunks
  <2>1. CASE CallRun
    BY <2>0, <2>1 DEF CallRun, Enter
  <2>2. CASE CallRunOnAddrs
    BY <2>0, <2>2 DEF CallRunOnAddrs, Enter
  <2>3. CASE Resolve
    BY <2>0, <2>3 DEF Resolve
  <2>4. CASE ResolveFails
    BY <2>0, <2>4 DEF ResolveFails, Return
  <2>5. CASE TryNext
    BY <2>0, <2>5 DEF TryNext
  <2>6. CASE Exhausted
    BY <2>0, <2>6 DEF Exhausted, Return
  <2>7. CASE Connect
    BY <2>0, <2>7 DEF Connect, EndRunOne, Return, Inv2, WireMatchesPhase
  <2>8. CASE WriteLoginRequest
    BY <2>0, <2>8, WriteControl DEF WriteLoginRequest
  <2>9. CASE WriteSubmissionRequest
    BY <2>0, <2>9, WriteControl, RequestChunk DEF WriteSubmissionRequest
  <2>10. CASE WriteLogoutRequest
    BY <2>0, <2>10, WriteControl DEF WriteLogoutRequest
  <2>11. CASE ReadHeader
    BY <2>0, <2>11, AgedChunk DEF ReadHeader, EndRunOne, Return
  <2>12. CASE ReadFails
    BY <2>0, <2>12 DEF ReadFails, EndRunOne, Return
  <2>13. CASE RejectFrame
    BY <2>0, <2>13 DEF RejectFrame, BadFrame, EndRunOne, Return
  <2>14. CASE ReadLoginResponse
    BY <2>0, <2>14 DEF ReadLoginResponse, EndRunOne, Return
  <2>15. CASE ReadSubmissionResponse
    BY <2>0, <2>15 DEF ReadSubmissionResponse, EndRunOne, Return
  <2>16. CASE ReadLogoutResponse
    BY <2>0, <2>16 DEF ReadLogoutResponse, EndRunOne, Return
  <2>17. CASE UNCHANGED vars
    BY <2>0, <2>17 DEF vars
  <2>18. QED
    BY <2>1, <2>2, <2>3, <2>4, <2>5, <2>6, <2>7, <2>8, <2>9, <2>10, <2>11,
       <2>12, <2>13, <2>14, <2>15, <2>16, <2>17 DEF Next, InRun
<1>5. Inv1 /\ Inv2 /\ Written /\ [Next]_vars => NothingUninitialised'
  <2> SUFFICES ASSUME Inv1, Inv2, Written, [Next]_vars
               PROVE  NothingUninitialised'
    OBVIOUS
  <2> USE DEF NothingUninitialised
  <2>0. NothingUninitialised /\ BufferWritten /\ 1 \in Chunks /\ 2 \in Chunks
    BY DEF Inv1, Written, Chunks
  <2>1. CASE CallRun
    BY <2>0, <2>1 DEF CallRun, Enter
  <2>2. CASE CallRunOnAddrs
    BY <2>0, <2>2 DEF CallRunOnAddrs, Enter
  <2>3. CASE Resolve
    BY <2>0, <2>3 DEF Resolve
  <2>4. CASE ResolveFails
    BY <2>0, <2>4 DEF ResolveFails, Return
  <2>5. CASE TryNext
    BY <2>0, <2>5 DEF TryNext
  <2>6. CASE Exhausted
    BY <2>0, <2>6 DEF Exhausted, Return
  <2>7. CASE Connect
    BY <2>0, <2>7 DEF Connect, EndRunOne, Return, Inv2, WireMatchesPhase
  <2>8. CASE WriteLoginRequest
    BY <2>0, <2>8, WriteControl DEF WriteLoginRequest
  <2>9. CASE WriteSubmissionRequest
    BY <2>0, <2>9, WriteControl DEF WriteSubmissionRequest
  <2>10. CASE WriteLogoutRequest
    BY <2>0, <2>10, WriteControl DEF WriteLogoutRequest
  <2>11. CASE ReadHeader
    BY <2>0, <2>11 DEF ReadHeader, EndRunOne, Return
  <2>12. CASE ReadFails
    BY <2>0, <2>12 DEF ReadFails, EndRunOne, Return
  <2>13. CASE RejectFrame
    BY <2>0, <2>13, BodyChunk DEF RejectFrame, BadFrame, EndRunOne, Return
  <2>14. CASE ReadLoginResponse
    BY <2>0, <2>14, BodyChunk DEF ReadLoginResponse, EndRunOne, Return,
       BufferWritten, Awaiting
  <2>15. CASE ReadSubmissionResponse
    <3>1. \A c \in Chunks : "nobody" \notin buf_'[c].by
      BY <2>0, <2>15, BodyChunk DEF ReadSubmissionResponse, BufferWritten,
         Awaiting
    <3>2. ASSUME "nobody" \in TokenText(buf_'), NEW c \in Chunks
          PROVE  buf_'[c].val # "nul"
      BY <2>0, <3>1, <3>2 DEF TokenText, Chunks
    <3>3. QED
      BY <2>0, <2>15, <3>2 DEF ReadSubmissionResponse, EndRunOne, Return
  <2>16. CASE ReadLogoutResponse
    BY <2>0, <2>16 DEF ReadLogoutResponse, EndRunOne, Return
  <2>17. CASE UNCHANGED vars
    BY <2>0, <2>17 DEF vars
  <2>18. QED
    BY <2>1, <2>2, <2>3, <2>4, <2>5, <2>6, <2>7, <2>8, <2>9, <2>10, <2>11,
       <2>12, <2>13, <2>14, <2>15, <2>16, <2>17 DEF Next, InRun
<1>6. QED
  BY <1>1, <1>2, <1>3, <1>4, <1>5, Layer1, Layer2, PTL DEF Spec, Written

\* The login code is never read from a byte nobody wrote, and the token only
\* when it has no end within the byte behind its field.
THEOREM NoUninitialisedRead == Spec => []NothingUninitialised
BY Layer4Written, PTL DEF Written

LEMMA Layer4LoggedIn == Spec => []LoggedInOnY
<1>1. Init => LoggedInOnY
  BY DEF Init, LoggedInOnY
<1>2. Inv1 /\ Inv2 /\ Written /\ LoggedInOnY /\ [Next]_vars => LoggedInOnY'
  <2> SUFFICES ASSUME Inv1, Inv2, Written, LoggedInOnY, [Next]_vars
               PROVE  LoggedInOnY'
    OBVIOUS
  <2> USE DEF LoggedInOnY
  <2>0. LoggedInOnY
    OBVIOUS
  <2>1. CASE CallRun
    BY <2>0, <2>1 DEF CallRun, Enter
  <2>2. CASE CallRunOnAddrs
    BY <2>0, <2>2 DEF CallRunOnAddrs, Enter
  <2>3. CASE Resolve
    BY <2>0, <2>3 DEF Resolve
  <2>4. CASE ResolveFails
    BY <2>0, <2>4 DEF ResolveFails, Return
  <2>5. CASE TryNext
    BY <2>0, <2>5 DEF TryNext
  <2>6. CASE Exhausted
    BY <2>0, <2>6 DEF Exhausted, Return
  <2>7. CASE Connect
    BY <2>0, <2>7 DEF Connect, EndRunOne, Return, Inv2, WireMatchesPhase
  <2>8. CASE WriteLoginRequest
    BY <2>0, <2>8, WriteControl DEF WriteLoginRequest
  <2>9. CASE WriteSubmissionRequest
    BY <2>0, <2>9, WriteControl DEF WriteSubmissionRequest
  <2>10. CASE WriteLogoutRequest
    BY <2>0, <2>10, WriteControl DEF WriteLogoutRequest
  <2>11. CASE ReadHeader
    BY <2>0, <2>11 DEF ReadHeader, EndRunOne, Return
  <2>12. CASE ReadFails
    BY <2>0, <2>12 DEF ReadFails, EndRunOne, Return
  <2>13. CASE RejectFrame
    BY <2>0, <2>13 DEF RejectFrame, BadFrame, EndRunOne, Return
  <2>14. CASE ReadLoginResponse
    <3>1. header_.len \in 0..4 /\ 1 \in Chunks
      BY DEF Inv1, TypeOK, Header, BodyLengths, Chunks
    <3>2. pc = "body" /\ phase = "login"
      BY <2>14, BodyChunk, <3>1 DEF ReadLoginResponse
    <3>3. /\ buf_[1].by \in {{"request"}, {"earlier"}}
          /\ buf_[1].by = {"request"} => buf_[1].val = "text"
          /\ buf_[1].by = {"earlier"} => tries > 0
      BY <3>1, <3>2 DEF Written, CodeByte, Awaiting
    <3>4. CASE header_.len > 0
      <4>1. Covered(1, header_.len)
        BY <3>1, <3>4 DEF Covered
      <4>2. buf_'[1].by = {"frame"}
        BY <2>14, <3>1, <4>1, BodyChunk DEF ReadLoginResponse
      <4>3. QED
        BY <2>14, <3>4, <4>2 DEF ReadLoginResponse, EndRunOne, Return
    <3>5. CASE header_.len = 0
      <4>1. ~Covered(1, header_.len) /\ ~Cut(1, header_.len)
        BY <3>5 DEF Covered, Cut
      <4>2. buf_'[1] = buf_[1]
        BY <2>14, <3>1, <4>1, BodyChunk DEF ReadLoginResponse
      <4>3. QED
        BY <2>14, <3>1, <3>3, <3>5, <4>2 DEF ReadLoginResponse, EndRunOne,
           Return
    <3>6. QED
      BY <3>1, <3>4, <3>5
  <2>15. CASE ReadSubmissionResponse
    BY <2>0, <2>15 DEF ReadSubmissionResponse, EndRunOne, Return
  <2>16. CASE ReadLogoutResponse
    BY <2>0, <2>16 DEF ReadLogoutResponse, EndRunOne, Return
  <2>17. CASE UNCHANGED vars
    BY <2>0, <2>17 DEF vars
  <2>18. QED
    BY <2>1, <2>2, <2>3, <2>4, <2>5, <2>6, <2>7, <2>8, <2>9, <2>10, <2>11,
       <2>12, <2>13, <2>14, <2>15, <2>16, <2>17 DEF Next, InRun
<1>3. QED
  BY <1>1, <1>2, Layer1, Layer2, Layer4Written, PTL DEF Spec

\* A submission follows an intact login response saying Y, and that Y is
\* the peer's: a response without a body cannot make the client take its
\* own request's text for it, only a byte of a frame rejected before.
THEOREM LoginIsThePeers == Spec => []LoggedInOnY
BY Layer4LoggedIn, PTL

LEMMA Layer4FullResponse == Spec => []FullResponseGivesItsToken
<1>1. Init => FullResponseGivesItsToken
  BY DEF Init, FullResponseGivesItsToken
<1>2. Inv1 /\ Inv2 /\ Written /\ FullResponseGivesItsToken /\ [Next]_vars
        => FullResponseGivesItsToken'
  <2> SUFFICES ASSUME Inv1, Inv2, Written, FullResponseGivesItsToken,
                      [Next]_vars
               PROVE  FullResponseGivesItsToken'
    OBVIOUS
  <2> USE DEF FullResponseGivesItsToken
  <2>0. FullResponseGivesItsToken
    OBVIOUS
  <2>1. CASE CallRun
    BY <2>0, <2>1 DEF CallRun, Enter
  <2>2. CASE CallRunOnAddrs
    BY <2>0, <2>2 DEF CallRunOnAddrs, Enter
  <2>3. CASE Resolve
    BY <2>0, <2>3 DEF Resolve
  <2>4. CASE ResolveFails
    BY <2>0, <2>4 DEF ResolveFails, Return
  <2>5. CASE TryNext
    BY <2>0, <2>5 DEF TryNext
  <2>6. CASE Exhausted
    BY <2>0, <2>6 DEF Exhausted, Return
  <2>7. CASE Connect
    BY <2>0, <2>7 DEF Connect, EndRunOne, Return, Inv2, WireMatchesPhase
  <2>8. CASE WriteLoginRequest
    BY <2>0, <2>8, WriteControl DEF WriteLoginRequest
  <2>9. CASE WriteSubmissionRequest
    BY <2>0, <2>9, WriteControl DEF WriteSubmissionRequest
  <2>10. CASE WriteLogoutRequest
    BY <2>0, <2>10, WriteControl DEF WriteLogoutRequest
  <2>11. CASE ReadHeader
    BY <2>0, <2>11 DEF ReadHeader, EndRunOne, Return
  <2>12. CASE ReadFails
    BY <2>0, <2>12 DEF ReadFails, EndRunOne, Return
  <2>13. CASE RejectFrame
    BY <2>0, <2>13 DEF RejectFrame, BadFrame, EndRunOne, Return
  <2>14. CASE ReadLoginResponse
    BY <2>0, <2>14 DEF ReadLoginResponse, EndRunOne, Return
  <2>15. CASE ReadSubmissionResponse
    <3>1. header_.len \in 0..4 /\ {1, 2, 3} \subseteq Chunks
      BY DEF Inv1, TypeOK, Header, BodyLengths, Chunks
    <3>2. CASE pc' = "write" /\ header_.len >= 3
      <4>1. buf_'[1].by = {"frame"} /\ buf_'[2].by = {"frame"}
        <5>1. Covered(1, header_.len) /\ Covered(2, header_.len)
          BY <3>1, <3>2 DEF Covered
        <5>2. QED
          BY <2>15, <3>1, <5>1, BodyChunk DEF ReadSubmissionResponse
      <4>2. token_' = TokenText(buf_')
        BY <2>15, <3>2 DEF ReadSubmissionResponse, EndRunOne, Return
      <4>3. buf_'[2].val = "nul" \/ buf_'[3].val = "nul"
              => token_' \subseteq {"frame"}
        BY <4>1, <4>2 DEF TokenText
      <4>4. ASSUME header_.len = 3, tries = 0
            PROVE  buf_'[3].val = "nul"
        <5>1. ~Covered(3, header_.len) /\ ~Cut(3, header_.len)
          BY <4>4 DEF Covered, Cut
        <5>2. buf_'[3] = buf_[3] /\ pc = "body"
          BY <2>15, <3>1, <5>1, BodyChunk DEF ReadSubmissionResponse
        <5>3. QED
          BY <2>15, <4>4, <5>2 DEF ReadSubmissionResponse, Written,
             PaddingBehindField, Awaiting
      <4>5. header_' = header_ /\ tries' = tries
        BY <2>15 DEF ReadSubmissionResponse
      <4>6. QED
        BY <4>3, <4>4, <4>5
    <3>3. CASE header_.len < 3
      BY <2>15, <3>1, <3>3 DEF ReadSubmissionResponse
    <3>4. CASE pc' # "write"
      BY <3>4
    <3>5. QED
      BY <3>1, <3>2, <3>3, <3>4
  <2>16. CASE ReadLogoutResponse
    BY <2>0, <2>16 DEF ReadLogoutResponse, EndRunOne, Return
  <2>17. CASE UNCHANGED vars
    BY <2>0, <2>17 DEF vars
  <2>18. QED
    BY <2>1, <2>2, <2>3, <2>4, <2>5, <2>6, <2>7, <2>8, <2>9, <2>10, <2>11,
       <2>12, <2>13, <2>14, <2>15, <2>16, <2>17 DEF Next, InRun
<1>3. QED
  BY <1>1, <1>2, Layer1, Layer2, Layer4Written, PTL DEF Spec

\* An answer that fills and ends the token field gives its own token.
THEOREM FullAnswerGivesItsToken == Spec => []FullResponseGivesItsToken
BY Layer4FullResponse, PTL

-----------------------------------------------------------------------------
\* To the contract, writing a request is invisible, unless it kills.
LEMMA WriteStep ==
  ASSUME NEW t, WriteExact(t), pc = "write", cur > 0, outcome = "none",
         UNCHANGED <<addrs, cur, phase, runs>>
  PROVE  [Contract!Next]_(Contract!vars)
<1>1. CASE pc' = "killed"
  <2>1. Contract!Die
    BY <1>1 DEF WriteExact, EndRunOne, Return, Contract!Die, Verdict, Stage
  <2>2. QED
    BY <2>1 DEF Contract!Next, Contract!Proceed
<1>2. CASE pc' # "killed"
  BY <1>2 DEF WriteExact, EndRunOne, Return, Contract!vars, Verdict, Stage
<1>3. QED
  BY <1>1, <1>2

\* Every step of the client, seen through Verdict and Stage, is a step of
\* RunContract or changes nothing in it.  The contract's guards come from
\* the invariants: an attempt is under way (WireMatchesPhase), and it has no
\* outcome yet (ReturnsAreFinal).
THEOREM RefinesContract == Spec => Contract!Spec
<1>1. Init => Contract!Init
  BY DEF Init, Contract!Init, Verdict, Stage
<1>2. Inv1 /\ Inv2 /\ Inv1' /\ [Next]_vars => [Contract!Next]_(Contract!vars)
  <2> SUFFICES ASSUME Inv1, Inv2, Inv1', [Next]_vars
               PROVE  [Contract!Next]_(Contract!vars)
    OBVIOUS
  <2>0. /\ pc \in {"idle", "resolve", "loop", "connect", "write", "header",
                   "body", "killed"}
        /\ result \in {"none", "true", "false"}
        /\ outcome \in {"none", "true", "false", "throw"}
        /\ phase \in {"login", "submission", "logout"}
        /\ addrs' \in 0..MaxAddrs
        /\ pc \in {"write", "header", "body"} => cur > 0
        /\ pc \in {"connect", "write", "header", "body"} => outcome = "none"
        /\ outcome = "true" => pc = "idle"
    BY DEF Inv1, Inv2, TypeOK, Phases, WireMatchesPhase, ReturnsAreFinal,
       InSession
  <2> USE <2>0 DEF Verdict, Stage
  <2>1. CASE CallRun
    <3>1. Contract!Call
      BY <2>1 DEF CallRun, Enter, Contract!Call
    <3>2. QED
      BY <3>1 DEF Contract!Next
  <2>2. CASE CallRunOnAddrs
    <3>1. Contract!CallWith(addrs')
      BY <2>2 DEF CallRunOnAddrs, Enter, Contract!CallWith
    <3>2. QED
      BY <3>1 DEF Contract!Next
  <2>3. CASE Resolve
    <3>1. Contract!Resolved(addrs')
      BY <2>3 DEF Resolve, Contract!Resolved
    <3>2. QED
      BY <3>1 DEF Contract!Next, Contract!Proceed
  <2>4. CASE ResolveFails
    <3>1. Contract!Unresolved
      BY <2>4 DEF ResolveFails, Return, Contract!Unresolved
    <3>2. QED
      BY <3>1 DEF Contract!Next, Contract!Proceed
  <2>5. CASE TryNext
    <3>1. Contract!Attempt
      BY <2>5 DEF TryNext, Contract!Attempt
    <3>2. QED
      BY <3>1 DEF Contract!Next, Contract!Proceed
  <2>6. CASE Exhausted
    <3>1. Contract!GiveUp
      BY <2>6 DEF Exhausted, Return, Contract!GiveUp
    <3>2. QED
      BY <3>1 DEF Contract!Next, Contract!Proceed
  <2>7. CASE Connect
    BY <2>7 DEF Connect, EndRunOne, Return, Contract!vars
  <2>8. CASE WriteLoginRequest
    <3>1. /\ WriteExact("L") /\ pc = "write"
          /\ UNCHANGED <<addrs, cur, phase, runs>>
      BY <2>8 DEF WriteLoginRequest
    <3>2. QED
      BY <3>1, WriteStep
  <2>9. CASE WriteSubmissionRequest
    <3>1. /\ WriteExact("S") /\ pc = "write"
          /\ UNCHANGED <<addrs, cur, phase, runs>>
      BY <2>9 DEF WriteSubmissionRequest
    <3>2. QED
      BY <3>1, WriteStep
  <2>10. CASE WriteLogoutRequest
    <3>1. /\ WriteExact("O") /\ pc = "write"
          /\ UNCHANGED <<addrs, cur, phase, runs>>
      BY <2>10 DEF WriteLogoutRequest
    <3>2. QED
      BY <3>1, WriteStep
  <2>11. CASE ReadHeader
    BY <2>11 DEF ReadHeader, EndRunOne, Return, Contract!vars
  <2>12. CASE ReadFails
    BY <2>12 DEF ReadFails, EndRunOne, Return, Contract!vars
  <2>13. CASE RejectFrame
    BY <2>13 DEF RejectFrame, BadFrame, BodyRead, EndRunOne, Return,
       Contract!vars
  <2>14. CASE ReadLoginResponse
    <3>1. CASE phase' = "submission"
      <4>1. Contract!Advance
        BY <2>14, <3>1 DEF ReadLoginResponse, BodyRead, EndRunOne, Return,
           Contract!Advance
      <4>2. QED
        BY <4>1 DEF Contract!Next, Contract!Proceed
    <3>2. CASE phase' # "submission"
      BY <2>14, <3>2 DEF ReadLoginResponse, BodyRead, EndRunOne, Return,
         Contract!vars
    <3>3. QED
      BY <3>1, <3>2
  <2>15. CASE ReadSubmissionResponse
    <3>1. CASE phase' = "logout"
      <4>1. Contract!Advance
        BY <2>15, <3>1 DEF ReadSubmissionResponse, BodyRead, EndRunOne,
           Return, Contract!Advance
      <4>2. QED
        BY <4>1 DEF Contract!Next, Contract!Proceed
    <3>2. CASE phase' # "logout"
      BY <2>15, <3>2 DEF ReadSubmissionResponse, BodyRead, EndRunOne, Return,
         Contract!vars
    <3>3. QED
      BY <3>1, <3>2
  <2>16. CASE ReadLogoutResponse
    <3>1. Contract!Succeed
      BY <2>16 DEF ReadLogoutResponse, BodyRead, EndRunOne, Return,
         Contract!Succeed
    <3>2. QED
      BY <3>1 DEF Contract!Next, Contract!Proceed
  <2>17. CASE UNCHANGED vars
    BY <2>17 DEF vars, Contract!vars
  <2>18. QED
    BY <2>1, <2>2, <2>3, <2>4, <2>5, <2>6, <2>7, <2>8, <2>9, <2>10, <2>11,
       <2>12, <2>13, <2>14, <2>15, <2>16, <2>17 DEF Next, InRun
<1>3. QED
  BY <1>1, <1>2, Layer1, Layer2, PTL DEF Spec, Contract!Spec

-----------------------------------------------------------------------------
(***************************************************************************)
(* Run has a bounded number of steps                                       *)
(***************************************************************************)

\* The most steps of one exchange: connecting or coming from the exchange
\* before, the request, and a header and a body for each round.
PerExchange == 2 * MaxRetries + 2

\* The most steps of one address: three exchanges, and taking the address.
PerAddress == 3 * PerExchange + 1

ExchangesAfter ==
  IF phase = "login" THEN 2 ELSE IF phase = "submission" THEN 1 ELSE 0

InExchange ==
  IF pc = "connect" THEN PerExchange
  ELSE IF pc = "write" THEN PerExchange - 1
  ELSE IF pc = "header" THEN 2 * (MaxRetries - tries)
  ELSE 2 * (MaxRetries - tries) - 1

\* What is left to do for the current address.
AtAddress ==
  IF pc = "loop" THEN 0 ELSE ExchangesAfter * PerExchange + InExchange

\* An upper bound of the steps that Run still has before it.
StepsLeft ==
  IF pc \in {"idle", "killed"} THEN 0
  ELSE IF pc = "resolve" THEN MaxAddrs * PerAddress + 2
  ELSE (addrs - cur) * PerAddress + AtAddress + 1

\* One call of Run takes at most StepsLeft steps, whatever the peer sends:
\* neither the loop over the addresses nor the one over bad frames can be
\* prolonged, and no step leads back into a call that is over.
RunDescends ==
  /\ [](StepsLeft \in 0..(MaxAddrs * PerAddress + 2))
  /\ [][InRun => StepsLeft' < StepsLeft]_vars

\* Of products of numbers, what the bound needs.
LEMMA Products ==
  ASSUME NEW a \in Nat, NEW b \in Nat, NEW c \in Nat, a <= b
  PROVE  a * c \in Nat /\ a * c <= b * c /\ (a + 1) * c = (a * c) + c
OBVIOUS

\* The allotments are numbers.
LEMMA Allotted ==
  /\ PerExchange \in Nat /\ PerExchange = 2 * MaxRetries + 2
  /\ PerAddress \in Nat /\ PerAddress = 3 * PerExchange + 1
  /\ ExchangesAfter \in {0, 1, 2}
BY ProtoClientAssumption DEF PerExchange, PerAddress, ExchangesAfter

\* What is left for an address fits what it is allotted.
LEMMA AtAddressFits ==
  ASSUME TypeOK, RoundsLeft
  PROVE  /\ pc = "connect" \/ InSession => AtAddress \in 1..(3 * PerExchange)
         /\ pc = "loop" => AtAddress = 0
<1>1. MaxRetries \in Nat \ {0} /\ tries \in 0..MaxRetries
  BY ProtoClientAssumption DEF TypeOK
<1>2. ASSUME pc = "connect" \/ InSession
      PROVE  AtAddress \in 1..(3 * PerExchange)
  <2>1. InExchange \in 1..PerExchange
    BY <1>1, <1>2, Allotted DEF InExchange, InSession, Awaiting, RoundsLeft
  <2>2. AtAddress = ExchangesAfter * PerExchange + InExchange
    BY <1>2 DEF AtAddress, InSession
  <2>3. CASE ExchangesAfter = 0
    BY <2>1, <2>2, <2>3, Allotted
  <2>4. CASE ExchangesAfter = 1
    BY <2>1, <2>2, <2>4, Allotted
  <2>5. CASE ExchangesAfter = 2
    BY <2>1, <2>2, <2>5, Allotted
  <2>6. QED
    BY <2>3, <2>4, <2>5, Allotted
<1>3. QED
  BY <1>2 DEF AtAddress

\* The bound is one: of an address that is being tried nothing is counted
\* twice.
LEMMA StepsLeftFit ==
  ASSUME Inv1, Inv2
  PROVE  /\ StepsLeft \in 0..(MaxAddrs * PerAddress + 2)
         /\ pc \notin {"idle", "killed"} => StepsLeft > 0
<1>1. /\ MaxAddrs \in Nat /\ addrs \in Nat /\ addrs <= MaxAddrs
      /\ cur \in Nat /\ cur <= addrs
      /\ pc \in {"idle", "resolve", "loop", "connect", "write", "header",
                 "body", "killed"}
  BY ProtoClientAssumption DEF Inv1, TypeOK
<1>2. MaxAddrs * PerAddress \in Nat
  BY <1>1, Allotted, Products
<1>3. CASE pc \in {"idle", "killed", "resolve"}
  BY <1>2, <1>3 DEF StepsLeft
<1>4. CASE pc = "loop"
  <2>1. /\ (addrs - cur) * PerAddress \in Nat
        /\ (addrs - cur) * PerAddress <= MaxAddrs * PerAddress
    BY <1>1, Allotted, Products
  <2>2. StepsLeft = (addrs - cur) * PerAddress + 1
    BY <1>4, <2>1 DEF StepsLeft, AtAddress
  <2>3. QED
    BY <1>2, <2>1, <2>2
<1>5. CASE pc = "connect" \/ InSession
  <2>1. cur > 0
    BY <1>5 DEF Inv2, WireMatchesPhase
  <2>2. AtAddress \in 1..(3 * PerExchange)
    BY <1>5, AtAddressFits DEF Inv1
  <2>3. /\ (addrs - cur) * PerAddress \in Nat
        /\ ((addrs - cur) + 1) * PerAddress =
             ((addrs - cur) * PerAddress) + PerAddress
        /\ ((addrs - cur) + 1) * PerAddress <= MaxAddrs * PerAddress
    <3>1. addrs - cur \in Nat /\ (addrs - cur) + 1 \in Nat
      BY <1>1
    <3>2. (addrs - cur) + 1 <= MaxAddrs
      BY <1>1, <2>1
    <3>3. QED
      BY <1>1, <3>1, <3>2, Allotted, Products
  <2>4. StepsLeft = (addrs - cur) * PerAddress + AtAddress + 1
    BY <1>5 DEF StepsLeft, InSession
  <2>5. QED
    BY <1>2, <2>2, <2>3, <2>4, Allotted
<1>6. QED
  BY <1>1, <1>3, <1>4, <1>5 DEF InSession

\* Within an address less of it is left after the step.
LEMMA DescendsAtAddress ==
  ASSUME TypeOK, UNCHANGED <<addrs, cur>>,
         {pc, pc'} \subseteq {"loop", "connect", "write", "header", "body"},
         AtAddress \in Nat, AtAddress' \in Nat, AtAddress' < AtAddress
  PROVE  StepsLeft' < StepsLeft
<1>1. PICK k \in Nat : k = (addrs - cur) * PerAddress
  <2>1. addrs - cur \in Nat
    BY ProtoClientAssumption DEF TypeOK
  <2>2. QED
    BY <2>1, Allotted, Products
<1>2. PICK m \in Nat : m = AtAddress
  OBVIOUS
<1>3. PICK n \in Nat : n = AtAddress'
  OBVIOUS
<1>4. n < m
  BY <1>2, <1>3
<1>5. StepsLeft = k + m + 1
  BY <1>1, <1>2 DEF StepsLeft
<1>6. StepsLeft' = k + n + 1
  <2>1. PerAddress' = PerAddress
    BY DEF PerAddress, PerExchange
  <2>2. QED
    BY <1>1, <1>3, <2>1 DEF StepsLeft
<1>7. k + n + 1 < k + m + 1
  BY <1>4
<1>8. QED
  BY <1>5, <1>6, <1>7

\* Whatever RunOne comes to, the loop is nearer to its end than RunOne was.
LEMMA DescendsAtEnd ==
  ASSUME Inv1, Inv2, pc = "connect" \/ InSession, UNCHANGED <<addrs, cur>>,
         pc' \in {"loop", "idle", "killed"}
  PROVE  StepsLeft' < StepsLeft
<1>1. CASE pc' = "loop"
  <2>1. AtAddress' = 0
    BY <1>1 DEF AtAddress
  <2>2. AtAddress \in 1..(3 * PerExchange)
    BY AtAddressFits DEF Inv1
  <2>3. {pc, pc'} \subseteq {"loop", "connect", "write", "header", "body"}
    BY <1>1 DEF InSession
  <2>4. QED
    BY <2>1, <2>2, <2>3, DescendsAtAddress DEF Inv1
<1>2. CASE pc' \in {"idle", "killed"}
  <2>1. StepsLeft' = 0
    BY <1>2 DEF StepsLeft
  <2>2. StepsLeft > 0
    BY StepsLeftFit DEF InSession
  <2>3. QED
    BY <2>1, <2>2
<1>3. QED
  BY <1>1, <1>2

\* A request leaves and its first round begins, or RunOne is over.
LEMMA DescendsAtWrite ==
  ASSUME Inv1, Inv2, pc = "write", NEW t, WriteExact(t),
         UNCHANGED <<addrs, cur, phase>>
  PROVE  StepsLeft' < StepsLeft
<1>1. CASE pc' = "header" /\ tries' = 0
  <2>1. InExchange = PerExchange - 1 /\ InExchange' = 2 * MaxRetries
    BY <1>1, ProtoClientAssumption DEF InExchange, PerExchange
  <2>2. ExchangesAfter' = ExchangesAfter /\ PerExchange' = PerExchange
    BY DEF ExchangesAfter, PerExchange
  <2>3. PICK k \in Nat : k = ExchangesAfter * PerExchange
    BY Allotted
  <2>4. AtAddress = k + (PerExchange - 1) /\ AtAddress' = k + 2 * MaxRetries
    BY <1>1, <2>1, <2>2, <2>3 DEF AtAddress
  <2>5. /\ AtAddress \in Nat /\ AtAddress' \in Nat
        /\ AtAddress' < AtAddress
    BY <2>4, Allotted, ProtoClientAssumption
  <2>6. {pc, pc'} \subseteq {"loop", "connect", "write", "header", "body"}
    BY <1>1
  <2>7. QED
    BY <2>5, <2>6, DescendsAtAddress DEF Inv1
<1>2. CASE pc' \in {"loop", "idle", "killed"}
  BY <1>2, DescendsAtEnd DEF InSession
<1>3. QED
  BY <1>1, <1>2 DEF WriteExact, EndRunOne, Return

\* The exchange is over, and the next one shorter by as much as an exchange.
LEMMA DescendsAtExchange ==
  ASSUME Inv1, pc = "body", pc' = "write", UNCHANGED <<addrs, cur>>,
         \/ phase = "login" /\ phase' = "submission"
         \/ phase = "submission" /\ phase' = "logout"
  PROVE  StepsLeft' < StepsLeft
<1>1. /\ ExchangesAfter' \in {0, 1}
      /\ ExchangesAfter = ExchangesAfter' + 1
  BY DEF ExchangesAfter
<1>2. InExchange \in Nat /\ InExchange > 0
  BY ProtoClientAssumption
     DEF InExchange, Inv1, TypeOK, RoundsLeft, Awaiting
<1>3. AtAddress = ExchangesAfter * PerExchange + InExchange
  BY DEF AtAddress
<1>4. AtAddress' = ExchangesAfter' * PerExchange + (PerExchange - 1)
  <2>1. PerExchange' = PerExchange
    BY DEF PerExchange
  <2>2. QED
    BY <2>1 DEF AtAddress, InExchange
<1>5. AtAddress \in Nat /\ AtAddress' \in Nat /\ AtAddress' < AtAddress
  <2>1. PICK p \in Nat : p = PerExchange /\ p > 0
    BY Allotted, ProtoClientAssumption
  <2>2. PICK n \in {0, 1} : n = ExchangesAfter' /\ n + 1 = ExchangesAfter
    BY <1>1
  <2>3. PICK i \in Nat : i = InExchange /\ i > 0
    BY <1>2
  <2>4. AtAddress = (n + 1) * p + i /\ AtAddress' = n * p + (p - 1)
    BY <1>3, <1>4, <2>1, <2>2, <2>3
  <2>5. /\ (n + 1) * p + i \in Nat /\ n * p + (p - 1) \in Nat
        /\ n * p + (p - 1) < (n + 1) * p + i
    <3>1. n = 0 \/ n = 1
      OBVIOUS
    <3>2. QED
      BY <2>1, <2>3, <3>1
  <2>6. QED
    BY <2>4, <2>5
<1>6. QED
  BY <1>5, DescendsAtAddress DEF Inv1

\* A step to another place of the same exchange.
LEMMA DescendsInExchange ==
  ASSUME Inv1, UNCHANGED <<addrs, cur, phase>>,
         {pc, pc'} \subseteq {"connect", "write", "header", "body"},
         InExchange \in Nat, InExchange' \in Nat, InExchange' < InExchange
  PROVE  StepsLeft' < StepsLeft
<1>1. ExchangesAfter' = ExchangesAfter /\ PerExchange' = PerExchange
  BY DEF ExchangesAfter, PerExchange
<1>2. PICK k \in Nat : k = ExchangesAfter * PerExchange
  BY Allotted
<1>3. PICK m \in Nat : m = InExchange
  OBVIOUS
<1>4. PICK n \in Nat : n = InExchange'
  OBVIOUS
<1>5. AtAddress = k + m /\ AtAddress' = k + n
  BY <1>1, <1>2, <1>3, <1>4 DEF AtAddress
<1>6. k + m \in Nat /\ k + n \in Nat /\ k + n < k + m
  <2>1. n < m
    BY <1>3, <1>4
  <2>2. QED
    BY <2>1
<1>7. QED
  BY <1>5, <1>6, DescendsAtAddress DEF Inv1

\* Each step inside Run leaves fewer steps to be done.  By cases: the two
\* steps before the loop, the loop itself, and what RunOne does, which goes
\* on within its exchange, on to the next, or back to the loop.
LEMMA StepDescends ==
  ASSUME Inv1, Inv2, Inv1', InRun
  PROVE  StepsLeft' < StepsLeft
<1>1. /\ MaxAddrs \in Nat /\ addrs \in Nat /\ addrs <= MaxAddrs
      /\ cur \in Nat /\ cur <= addrs
      /\ addrs' \in Nat /\ addrs' <= MaxAddrs
      /\ MaxRetries \in Nat \ {0}
      /\ tries \in Nat /\ tries' \in Nat
      /\ phase \in {"login", "submission", "logout"}
  BY ProtoClientAssumption DEF Inv1, TypeOK, Phases
<1>2. Awaiting => tries < MaxRetries
  BY DEF Inv1, RoundsLeft
<1>3. Awaiting' => tries' < MaxRetries
  BY DEF Inv1, RoundsLeft
<1>4. PerAddress' = PerAddress /\ PerExchange' = PerExchange
  BY DEF PerAddress, PerExchange
<1>5. CASE Resolve
  <2>1. cur' = 0 /\ pc = "resolve" /\ pc' = "loop"
    BY <1>5 DEF Resolve, Inv1, NothingToTryYet
  <2>2. PICK n \in Nat : n = addrs' /\ n <= MaxAddrs
    BY <1>1
  <2>3. /\ n * PerAddress \in Nat /\ MaxAddrs * PerAddress \in Nat
        /\ n * PerAddress <= MaxAddrs * PerAddress
    <3>1. MaxAddrs \in Nat /\ PerAddress \in Nat /\ n <= MaxAddrs
      BY <1>1, <2>2, Allotted
    <3>2. QED
      BY <3>1, Products
  <2>4. StepsLeft' = n * PerAddress + 1
    <3>1. addrs' - cur' = n
      <4>1. n - 0 = n
        OBVIOUS
      <4>2. QED
        BY <2>1, <2>2, <4>1, Zenon
    <3>2. QED
      BY <1>4, <2>1, <2>3, <3>1 DEF StepsLeft, AtAddress
  <2>5. StepsLeft = MaxAddrs * PerAddress + 2
    BY <2>1 DEF StepsLeft
  <2>6. QED
    BY <2>3, <2>4, <2>5
<1>6. CASE ResolveFails \/ Exhausted
  <2>1. pc \notin {"idle", "killed"} /\ pc' = "idle"
    BY <1>6 DEF ResolveFails, Exhausted, Return
  <2>2. StepsLeft > 0
    BY <2>1, StepsLeftFit
  <2>3. QED
    BY <2>1, <2>2 DEF StepsLeft
<1>7. CASE TryNext
  <2>1. /\ pc = "loop" /\ cur < addrs
        /\ pc' = "connect" /\ cur' = cur + 1
        /\ addrs' = addrs /\ phase' = "login"
    BY <1>7 DEF TryNext
  <2>2. PICK a \in Nat : a = addrs - cur'
    BY <1>1, <2>1
  <2>3. addrs - cur = a + 1 /\ addrs' - cur' = a
    BY <1>1, <2>1, <2>2
  <2>4. PICK k \in Nat : /\ k = a * PerAddress
                         /\ (a + 1) * PerAddress = k + PerAddress
    BY Allotted, Products
  <2>5. StepsLeft = k + PerAddress + 1
    BY <2>1, <2>3, <2>4, Allotted DEF StepsLeft, AtAddress
  <2>6. AtAddress' = 3 * PerExchange
    BY <1>4, <2>1, Allotted DEF AtAddress, ExchangesAfter, InExchange
  <2>7. StepsLeft' = k + 3 * PerExchange + 1
    BY <1>4, <2>1, <2>3, <2>4, <2>6, Allotted DEF StepsLeft
  <2>8. QED
    BY <2>5, <2>7, Allotted
<1>8. CASE Connect
  <2>1. pc = "connect" /\ UNCHANGED <<addrs, cur, phase>>
    BY <1>8 DEF Connect
  <2>2. CASE pc' = "write"
    <3>1. InExchange = PerExchange /\ InExchange' = PerExchange - 1
      BY <1>4, <2>1, <2>2 DEF InExchange
    <3>2. /\ InExchange \in Nat /\ InExchange' \in Nat
          /\ InExchange' < InExchange
      BY <1>1, <3>1, Allotted
    <3>3. QED
      BY <2>1, <2>2, <3>2, DescendsInExchange
  <2>3. CASE pc' = "loop"
    BY <2>1, <2>3, DescendsAtEnd
  <2>4. QED
    BY <1>8, <2>2, <2>3 DEF Connect, EndRunOne, Return
<1>9. CASE WriteLoginRequest \/ WriteSubmissionRequest \/ WriteLogoutRequest
  <2>1. /\ pc = "write" /\ UNCHANGED <<addrs, cur, phase>>
        /\ \E t \in RequestTypes : WriteExact(t)
    BY <1>9 DEF WriteLoginRequest, WriteSubmissionRequest,
       WriteLogoutRequest, RequestTypes
  <2>2. QED
    BY <2>1, DescendsAtWrite
<1>10. CASE ReadHeader
  <2>1. pc = "header" /\ UNCHANGED <<addrs, cur, phase, tries>>
    BY <1>10 DEF ReadHeader
  <2>2. CASE pc' = "body"
    <3>1. PICK i \in Nat : i = MaxRetries - tries /\ i > 0
      BY <1>1, <1>2, <2>1 DEF Awaiting
    <3>2. InExchange = 2 * i /\ InExchange' = 2 * i - 1
      BY <2>1, <2>2, <3>1 DEF InExchange
    <3>3. /\ InExchange \in Nat /\ InExchange' \in Nat
          /\ InExchange' < InExchange
      BY <3>1, <3>2
    <3>4. QED
      BY <2>1, <2>2, <3>3, DescendsInExchange
  <2>3. CASE pc' = "loop"
    BY <2>1, <2>3, DescendsAtEnd DEF InSession
  <2>4. QED
    BY <1>10, <2>2, <2>3 DEF ReadHeader, EndRunOne, Return
<1>11. CASE ReadFails
  <2>1. InSession /\ UNCHANGED <<addrs, cur>> /\ pc' = "loop"
    BY <1>11 DEF ReadFails, EndRunOne, Return, InSession
  <2>2. QED
    BY <2>1, DescendsAtEnd
<1>12. CASE RejectFrame
  <2>1. /\ pc = "body" /\ UNCHANGED <<addrs, cur, phase>>
        /\ tries' = tries + 1
    BY <1>12 DEF RejectFrame, BadFrame, BodyRead
  <2>2. CASE pc' = "header"
    <3>1. PICK i \in Nat : i = MaxRetries - tries' /\ i > 0
      <4>1. PICK n \in Nat : n = tries'
        BY <1>1
      <4>2. n < MaxRetries
        BY <1>3, <2>2, <4>1 DEF Awaiting
      <4>3. MaxRetries - n \in Nat /\ MaxRetries - n > 0
        BY <1>1, <4>2
      <4>4. QED
        BY <4>1, <4>3
    <3>2. InExchange = 2 * (i + 1) - 1 /\ InExchange' = 2 * i
      <4>1. MaxRetries - tries = i + 1
        BY <1>1, <2>1, <3>1
      <4>2. QED
        BY <2>1, <2>2, <3>1, <4>1 DEF InExchange
    <3>3. /\ InExchange \in Nat /\ InExchange' \in Nat
          /\ InExchange' < InExchange
      BY <3>1, <3>2
    <3>4. QED
      BY <2>1, <2>2, <3>3, DescendsInExchange
  <2>3. CASE pc' = "loop"
    BY <2>1, <2>3, DescendsAtEnd DEF InSession
  <2>4. QED
    BY <1>12, <2>2, <2>3 DEF RejectFrame, BadFrame, EndRunOne, Return
<1>13. CASE ReadLoginResponse \/ ReadSubmissionResponse
            \/ ReadLogoutResponse
  <2>1. pc = "body" /\ InSession /\ UNCHANGED <<addrs, cur>>
    BY <1>13 DEF ReadLoginResponse, ReadSubmissionResponse,
       ReadLogoutResponse, BodyRead, InSession
  <2>2. CASE pc' = "write"
    <3>1. \/ phase = "login" /\ phase' = "submission"
          \/ phase = "submission" /\ phase' = "logout"
      BY <1>13, <2>2 DEF ReadLoginResponse, ReadSubmissionResponse,
         ReadLogoutResponse, EndRunOne, Return
    <3>2. QED
      BY <2>1, <2>2, <3>1, DescendsAtExchange
  <2>3. CASE pc' \in {"loop", "idle"}
    BY <2>1, <2>3, DescendsAtEnd
  <2>4. QED
    BY <1>13, <2>2, <2>3 DEF ReadLoginResponse, ReadSubmissionResponse,
       ReadLogoutResponse, EndRunOne, Return
<1>14. QED
  BY <1>5, <1>6, <1>7, <1>8, <1>9, <1>10, <1>11, <1>12, <1>13 DEF InRun

\* The bound and the descent hold of every behaviour of the client, for every
\* number of addresses and of rounds, and without any fairness: what is left
\* for RunReturns to assume is that a step inside Run is taken at all.
THEOREM RunIsBounded == Spec => RunDescends
<1>1. Inv1 /\ Inv2 => StepsLeft \in 0..(MaxAddrs * PerAddress + 2)
  BY StepsLeftFit
<1>2. Inv1 /\ Inv2 /\ Inv1' /\ [Next]_vars
        => [InRun => StepsLeft' < StepsLeft]_vars
  BY StepDescends
<1>3. QED
  BY <1>1, <1>2, Layer1, Layer2, PTL DEF Spec, RunDescends

=============================================================================
