------------------------------ MODULE TcpStream ------------------------------
(***************************************************************************)
(* ReadExact and WriteExact (tcp_stream.cpp): the two ends of one          *)
(* direction of a connection, each looping over a system call that moves   *)
(* any part of what it is asked for, with a socket buffer in between.      *)
(*                                                                         *)
(* A byte is the number of its place in all that the writer was asked to   *)
(* write, so a byte lost, doubled or misplaced shows.  Memory is 1-based.  *)
(* An exception of either function destroys its stream, as it does in      *)
(* RunOne and in the threads of test.cpp, and so closes that end.          *)
(***************************************************************************)
EXTENDS Naturals, Sequences

CONSTANTS Lengths,     \* bound: the lengths callers pass
          MemSize,     \* bytes at b, which the caller makes at least len
          MaxBytes,    \* bound: bytes written altogether
          Capacity     \* bytes the kernel holds between the two ends

ASSUME TcpStreamAssumption ==
  /\ MemSize \in Nat /\ MaxBytes \in Nat /\ Capacity \in Nat
  /\ Lengths \subseteq 0..MemSize

VARIABLES
  wpc, wlen, wsofar,   \* the writer, and len and n_sofar of WriteExact
  asked,               \* history: bytes of the WriteExact that returned
  stream,              \* every byte write has taken, in order
  taken,               \* how many of them read has given
  rpc, rlen, rsofar,   \* the reader, and len and n_sofar of ReadExact
  mem,                 \* the memory at b; 0 is untouched
  handed,              \* history: bytes of the ReadExact that returned
  why                  \* history: what ReadExact has thrown

writer == <<wpc, wlen, wsofar, asked, stream>>
reader == <<rpc, rlen, rsofar, mem, handed, why, taken>>
vars == <<writer, reader>>

Mem == 1..MemSize
Untouched == [i \in Mem |-> 0]

Init ==
  /\ wpc = "idle" /\ wlen = 0 /\ wsofar = 0 /\ asked = 0 /\ stream = <<>>
  /\ rpc = "idle" /\ rlen = 0 /\ rsofar = 0 /\ mem = Untouched
  /\ handed = 0 /\ why = "none" /\ taken = 0

-----------------------------------------------------------------------------
(***************************************************************************)
(* WriteExact                                                              *)
(***************************************************************************)
CallWrite ==
  /\ wpc = "idle"
  /\ \E n \in Lengths : asked + n <= MaxBytes /\ wlen' = n
  /\ wsofar' = 0 /\ wpc' = "writing"
  /\ UNCHANGED <<asked, stream, reader>>

\* Mutant: every write starts at b.
WriteSomeFromStart ==
  /\ wpc = "writing" /\ wsofar < wlen
  /\ \E n \in 1..(wlen - wsofar) :
       /\ Len(stream) + n <= taken + Capacity
       /\ stream' = stream \o [i \in 1..n |-> asked + i]
       /\ wsofar' = wsofar + n
  /\ UNCHANGED <<wpc, wlen, asked, reader>>

\* write() takes some of the bytes from b + n_sofar on.
WriteSome ==
  /\ wpc = "writing" /\ wsofar < wlen
  /\ \E n \in 1..(wlen - wsofar) :
       /\ Len(stream) + n <= taken + Capacity
       /\ stream' = stream \o [i \in 1..n |-> asked + wsofar + i]
       /\ wsofar' = wsofar + n
  /\ UNCHANGED <<wpc, wlen, asked, reader>>

WriteReturns ==
  /\ wpc = "writing" /\ wsofar = wlen
  /\ asked' = asked + wlen
  /\ wpc' = "idle" /\ wlen' = 0 /\ wsofar' = 0
  /\ UNCHANGED <<stream, reader>>

\* No room for SO_SNDTIMEO.
WriteTimesOut ==
  /\ wpc = "writing" /\ wsofar < wlen
  /\ Len(stream) = taken + Capacity
  /\ wpc' = "closed"
  /\ UNCHANGED <<wlen, wsofar, asked, stream, reader>>

\* write() fails; or the other end is gone, and SIGPIPE ends the process.
WriteError ==
  /\ wpc = "writing" /\ wsofar < wlen
  /\ \/ wpc' = "closed"
     \/ rpc = "closed" /\ wpc' = "killed"
  /\ UNCHANGED <<wlen, wsofar, asked, stream, reader>>

CloseWriter ==
  /\ wpc = "idle" /\ wpc' = "closed"
  /\ UNCHANGED <<wlen, wsofar, asked, stream, reader>>

-----------------------------------------------------------------------------
(***************************************************************************)
(* ReadExact                                                               *)
(***************************************************************************)
CallRead ==
  /\ rpc = "idle"
  /\ rlen' \in Lengths
  /\ rsofar' = 0 /\ rpc' = "reading" /\ mem' = Untouched
  /\ UNCHANGED <<handed, why, taken, writer>>

\* read() gives up to limit bytes, n of them, to the memory from at on.
ReadInto(at, limit) ==
  /\ rpc = "reading" /\ rsofar < rlen
  /\ \E n \in 1..limit :
       /\ taken + n <= Len(stream)
       /\ mem' = [i \in Mem |-> IF at < i /\ i <= at + n
                                  THEN stream[taken + (i - at)]
                                  ELSE mem[i]]
       /\ rsofar' = rsofar + n
       /\ taken' = taken + n
  /\ UNCHANGED <<rpc, rlen, handed, why, writer>>

\* Mutants: every read starts at b; every read asks for len bytes.
ReadSomeToStart == ReadInto(0, rlen - rsofar)
ReadSomeTooMuch == ReadInto(rsofar, rlen)

ReadSome == ReadInto(rsofar, rlen - rsofar)

\* Mutant: one read() will do.
ReadReturnsShort ==
  /\ rpc = "reading" /\ (rsofar > 0 \/ rlen = 0)
  /\ handed' = handed + rsofar
  /\ rpc' = "idle"
  /\ UNCHANGED <<rlen, rsofar, mem, why, taken, writer>>

ReadReturns ==
  /\ rpc = "reading" /\ rsofar = rlen
  /\ handed' = handed + rlen
  /\ rpc' = "idle"
  /\ UNCHANGED <<rlen, rsofar, mem, why, taken, writer>>

ReadThrows(what) ==
  /\ why' = what /\ rpc' = "closed"
  /\ UNCHANGED <<rlen, rsofar, mem, handed, taken, writer>>

WriterGone == wpc \in {"closed", "killed"}

\* Mutant: the loop calls read() before it looks at n_sofar.
ReadEndOfFileFirst ==
  /\ rpc = "reading"
  /\ taken = Len(stream) /\ WriterGone
  /\ ReadThrows("shutdown")

\* read() returns 0: the peer has shut down and nothing is left.
ReadEndOfFile ==
  /\ rpc = "reading" /\ rsofar < rlen
  /\ taken = Len(stream) /\ WriterGone
  /\ ReadThrows("shutdown")

\* Mutant: no SO_RCVTIMEO.
ReadNeverTimesOut == FALSE

\* Nothing comes for SO_RCVTIMEO.
ReadTimesOut ==
  /\ rpc = "reading" /\ rsofar < rlen
  /\ taken = Len(stream) /\ ~WriterGone
  /\ ReadThrows("timeout")

\* read() fails, for instance because the peer has reset the connection.
ReadError ==
  /\ rpc = "reading" /\ rsofar < rlen
  /\ ReadThrows("error")

CloseReader ==
  /\ rpc = "idle" /\ rpc' = "closed"
  /\ UNCHANGED <<rlen, rsofar, mem, handed, why, taken, writer>>

-----------------------------------------------------------------------------
InWriteExact == WriteSome \/ WriteReturns \/ WriteTimesOut
InReadExact == ReadSome \/ ReadReturns \/ ReadEndOfFile \/ ReadTimesOut

Next ==
  \/ CallWrite \/ InWriteExact \/ WriteError \/ CloseWriter
  \/ CallRead \/ InReadExact \/ ReadError \/ CloseReader

Spec == Init /\ [][Next]_vars

\* A system call moves something or, after its timeout, nothing; that it may
\* fail is nothing to count on.  No end need call the other's counterpart.
FairSpec == Spec /\ WF_vars(InWriteExact) /\ WF_vars(InReadExact)

-----------------------------------------------------------------------------
(***************************************************************************)
(* Properties                                                              *)
(***************************************************************************)

\* Type invariant; neither loop goes past the length it was given.
TypeOK ==
  /\ wpc \in {"idle", "writing", "closed", "killed"}
  /\ wlen \in Nat /\ wsofar \in Nat /\ wsofar <= wlen
  /\ asked \in Nat /\ taken \in Nat /\ handed \in Nat
  /\ stream \in Seq(Nat)
  /\ rpc \in {"idle", "reading", "closed"}
  /\ rlen \in Nat /\ rsofar \in Nat /\ rsofar <= rlen
  /\ mem \in [Mem -> Nat]
  /\ why \in {"none", "shutdown", "timeout", "error"}

\* However write cuts it, the stream is what WriteExact was given, in order
\* and without a gap: all of it once WriteExact has returned, and a prefix
\* of the last call's when it has thrown.
WrittenInOrder ==
  /\ \A i \in 1..Len(stream) : stream[i] = i
  /\ wpc = "idle" => Len(stream) = asked

\* When ReadExact returns, the len bytes at b are the next ones of the
\* stream, each in its place, and the memory behind them is untouched; the
\* next call goes on with the byte after them.
ReadIsExact ==
  rpc = "idle" =>
    /\ handed = taken
    /\ \A i \in Mem :
         mem[i] = IF i <= rlen THEN (handed - rlen) + i ELSE 0

\* "peer has shutdown" is thrown only if bytes are missing: an answer sent
\* whole is read whole even if the peer closes at once, and a body of no
\* bytes is never missing.
ShutdownMeansMissing ==
  why = "shutdown" => Len(stream) < handed + rlen

\* ReadExact returns or throws, whatever the peer does; so does WriteExact.
CallsEnd ==
  /\ (rpc = "reading") ~> (rpc # "reading")
  /\ (wpc = "writing") ~> (wpc # "writing")

\* The loops over pieces implement reads in one step.
Exact == INSTANCE ExactIO WITH offered <- Len(stream), got <- handed,
                               failed <- (why # "none")
ImplementsExactIO == Exact!Spec
=============================================================================
