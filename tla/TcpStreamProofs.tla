--------------------------- MODULE TcpStreamProofs ---------------------------
(***************************************************************************)
(* The two loops of TcpStream, for all lengths, memories and buffers: what *)
(* arrives at b is the next piece of what was written, and nothing else.   *)
(***************************************************************************)
EXTENDS TcpStream, SequenceTheorems, TLAPS

\* In the middle of WriteExact: what is on its way is a prefix.
WriterInv ==
  /\ \A i \in 1..Len(stream) : stream[i] = i
  /\ Len(stream) = asked + wsofar
  /\ wpc = "idle" => wsofar = 0

\* In the middle of ReadExact: n_sofar bytes are in place.
ReaderInv ==
  /\ taken <= Len(stream)
  /\ rlen <= MemSize
  /\ rpc = "reading" =>
       /\ rlen \in Lengths
       /\ taken = handed + rsofar
       /\ \A i \in Mem : mem[i] = IF i <= rsofar THEN handed + i ELSE 0
  /\ rpc = "idle" =>
       /\ taken = handed /\ rsofar = rlen /\ rlen <= handed
       /\ \A i \in Mem :
            mem[i] = IF i <= rlen THEN (handed - rlen) + i ELSE 0
  /\ why # "none" => rpc = "closed"
  /\ why = "shutdown" => WriterGone /\ Len(stream) < handed + rlen

Inv == TypeOK /\ WriterInv /\ ReaderInv

\* A write appends the bytes that follow.
LEMMA WriteSomeKeeps ==
  ASSUME Inv, WriteSome
  PROVE  Inv'
<1> USE TcpStreamAssumption DEF WriteSome, reader
<1>1. PICK n \in 1..(wlen - wsofar) :
        /\ stream' = stream \o [i \in 1..n |-> asked + wsofar + i]
        /\ wsofar' = wsofar + n
  OBVIOUS
<1> DEFINE more == [i \in 1..n |-> asked + wsofar + i]
<1>2. /\ n \in Nat /\ wlen \in Nat /\ wsofar \in Nat /\ asked \in Nat
      /\ n <= wlen - wsofar
  BY DEF Inv, TypeOK
<1>3. more \in Seq(Nat) /\ Len(more) = n
  BY <1>2
<1>4. \A i \in 1..n : more[i] = asked + wsofar + i
  OBVIOUS
<1>5. stream' = stream \o more
  BY <1>1
<1> HIDE DEF more
<1>6. /\ stream' \in Seq(Nat)
      /\ Len(stream') = Len(stream) + n
      /\ \A i \in 1..Len(stream) + n :
           stream'[i] = IF i <= Len(stream) THEN stream[i]
                                            ELSE more[i - Len(stream)]
  BY <1>3, <1>5, ConcatProperties DEF Inv, TypeOK
<1>7. TypeOK'
  BY <1>1, <1>2, <1>6 DEF Inv, TypeOK
<1>8. WriterInv'
  <2>1. Len(stream) \in Nat /\ Len(stream) = asked + wsofar
    BY DEF Inv, TypeOK, WriterInv
  <2>2. \A i \in 1..Len(stream') : stream'[i] = i
    <3> SUFFICES ASSUME NEW i \in 1..Len(stream')
                 PROVE  stream'[i] = i
      OBVIOUS
    <3>1. CASE i <= Len(stream)
      BY <1>2, <1>6, <2>1, <3>1 DEF Inv, WriterInv
    <3>2. CASE i > Len(stream)
      <4>1. i - Len(stream) \in 1..n
        BY <1>2, <1>6, <2>1, <3>2
      <4>2. more[i - Len(stream)] = asked + wsofar + (i - Len(stream))
        BY <1>4, <4>1
      <4>3. i \in 1..Len(stream) + n
        BY <1>6
      <4>4. stream'[i] = more[i - Len(stream)]
        <5>1. ~(i <= Len(stream))
          BY <1>2, <2>1, <3>2, <4>3
        <5>2. QED
          BY <1>6, <4>3, <5>1, Zenon
      <4>5. asked + wsofar + (i - Len(stream)) = i
        BY <1>2, <2>1, <4>3
      <4>6. QED
        BY <4>2, <4>4, <4>5
    <3>3. QED
      BY <2>1, <3>1, <3>2, <1>6, <1>2
  <2>3. Len(stream') = asked' + wsofar'
    BY <1>1, <1>2, <1>6, <2>1
  <2>4. wpc' # "idle"
    OBVIOUS
  <2>5. QED
    BY <2>2, <2>3, <2>4 DEF WriterInv
<1>9. ReaderInv'
  <2>1. /\ wpc = "writing" /\ wpc' = wpc
        /\ UNCHANGED <<taken, rpc, rlen, rsofar, mem, handed, why>>
    OBVIOUS
  <2>2. why # "shutdown" /\ taken <= Len(stream)
    BY <2>1 DEF Inv, ReaderInv, WriterGone
  <2>3. Len(stream) \in Nat /\ taken \in Nat
    BY DEF Inv, TypeOK
  <2>4. taken' <= Len(stream')
    BY <1>2, <1>6, <2>1, <2>2, <2>3
  <2>5. QED
    BY <2>1, <2>2, <2>4 DEF Inv, ReaderInv
<1>10. QED
  BY <1>7, <1>8, <1>9 DEF Inv

\* A read puts the bytes that follow behind those that are in place.
LEMMA ReadSomeKeeps ==
  ASSUME Inv, ReadSome
  PROVE  Inv'
<1> USE TcpStreamAssumption DEF ReadSome, ReadInto, writer
<1>1. PICK n \in 1..(rlen - rsofar) :
        /\ taken + n <= Len(stream)
        /\ mem' = [i \in Mem |-> IF rsofar < i /\ i <= rsofar + n
                                   THEN stream[taken + (i - rsofar)]
                                   ELSE mem[i]]
        /\ rsofar' = rsofar + n
        /\ taken' = taken + n
  OBVIOUS
<1>2. /\ n \in Nat /\ rlen \in Nat /\ rsofar \in Nat /\ taken \in Nat
      /\ n <= rlen - rsofar /\ handed \in Nat /\ Len(stream) \in Nat
      /\ mem \in [Mem -> Nat] /\ taken = handed + rsofar
  BY DEF Inv, TypeOK, ReaderInv
<1>3. \A i \in Mem : mem'[i] = IF i <= rsofar' THEN handed' + i ELSE 0
  <2> SUFFICES ASSUME NEW i \in Mem
               PROVE  mem'[i] = IF i <= rsofar' THEN handed + i ELSE 0
    OBVIOUS
  <2>0. i \in Nat /\ 1 <= i
    BY DEF Mem
  <2>1. mem[i] = IF i <= rsofar THEN handed + i ELSE 0
    BY DEF Inv, ReaderInv
  <2>2. CASE rsofar < i /\ i <= rsofar + n
    <3>1. taken + (i - rsofar) \in 1..Len(stream)
      BY <1>1, <1>2, <2>0, <2>2
    <3>2. stream[taken + (i - rsofar)] = taken + (i - rsofar)
      BY <3>1 DEF Inv, WriterInv
    <3>3. mem'[i] = taken + (i - rsofar)
      BY <1>1, <2>2, <3>2
    <3>4. QED
      BY <1>1, <1>2, <2>0, <2>2, <3>3
  <2>3. CASE ~(rsofar < i /\ i <= rsofar + n)
    <3>1. mem'[i] = mem[i]
      BY <1>1, <2>3
    <3>2. QED
      BY <1>1, <1>2, <2>0, <2>1, <2>3, <3>1
  <2>4. QED
    BY <2>2, <2>3
<1>4. mem' \in [Mem -> Nat]
  <2>1. \A i \in Mem : mem'[i] \in Nat
    <3> SUFFICES ASSUME NEW i \in Mem
                 PROVE  mem'[i] \in Nat
      OBVIOUS
    <3>1. handed + i \in Nat
      BY <1>2 DEF Mem
    <3>2. QED
      BY <1>3, <3>1
  <2>2. QED
    BY <1>1, <2>1
<1>5. TypeOK'
  BY <1>1, <1>2, <1>4 DEF Inv, TypeOK
<1>6. WriterInv'
  BY DEF Inv, WriterInv
<1>7. ReaderInv'
  BY <1>1, <1>2, <1>3 DEF Inv, TypeOK, ReaderInv, WriterGone
<1>8. QED
  BY <1>5, <1>6, <1>7 DEF Inv

\* The other steps of the writer.
LEMMA WriterKeeps ==
  ASSUME Inv, CallWrite \/ WriteReturns \/ WriteTimesOut \/ WriteError
                \/ CloseWriter
  PROVE  Inv'
<1> USE TcpStreamAssumption DEF reader
<1>0. Len(stream) \in Nat
  BY DEF Inv, TypeOK
<1>1. CASE CallWrite
  <2>1. TypeOK'
    BY <1>1 DEF CallWrite, Inv, TypeOK
  <2>2. WriterInv'
    BY <1>1 DEF CallWrite, Inv, TypeOK, WriterInv
  <2>3. ReaderInv'
    BY <1>1 DEF CallWrite, Inv, ReaderInv, WriterGone
  <2>4. QED
    BY <2>1, <2>2, <2>3 DEF Inv
<1>2. CASE WriteReturns
  <2>1. TypeOK'
    BY <1>2 DEF WriteReturns, Inv, TypeOK
  <2>2. WriterInv'
    BY <1>2 DEF WriteReturns, Inv, TypeOK, WriterInv
  <2>3. ReaderInv'
    BY <1>2 DEF WriteReturns, Inv, ReaderInv, WriterGone
  <2>4. QED
    BY <2>1, <2>2, <2>3 DEF Inv
<1>3. CASE WriteTimesOut \/ WriteError \/ CloseWriter
  <2> USE <1>3 DEF WriteTimesOut, WriteError, CloseWriter
  <2>1. TypeOK'
    BY DEF Inv, TypeOK
  <2>2. WriterInv'
    BY DEF Inv, WriterInv
  <2>3. ReaderInv'
    BY DEF Inv, ReaderInv, WriterGone
  <2>4. QED
    BY <2>1, <2>2, <2>3 DEF Inv
<1>4. QED
  BY <1>1, <1>2, <1>3

\* The other steps of the reader.
LEMMA ReaderKeeps ==
  ASSUME Inv, CallRead \/ ReadReturns \/ ReadEndOfFile \/ ReadTimesOut
                \/ ReadError \/ CloseReader
  PROVE  Inv'
<1> USE TcpStreamAssumption DEF writer
<1>1. Len(stream) \in Nat
  BY DEF Inv, TypeOK
<1>2. WriterInv'
  <2>1. UNCHANGED writer
    BY DEF CallRead, ReadReturns, ReadEndOfFile, ReadTimesOut, ReadError,
           CloseReader, ReadThrows
  <2>2. QED
    BY <2>1 DEF Inv, WriterInv
<1>3. CASE CallRead
  <2>1. rlen' \in Nat /\ rlen' <= MemSize
    BY <1>3 DEF CallRead
  <2>2. mem' \in [Mem -> Nat] /\ \A i \in Mem : mem'[i] = 0
    BY <1>3 DEF CallRead, Untouched
  <2>3. \A i \in Mem : i \in Nat /\ 1 <= i
    BY DEF Mem
  <2>4. TypeOK'
    BY <1>3, <2>1, <2>2 DEF CallRead, Inv, TypeOK
  <2>5. ReaderInv'
    BY <1>3, <2>1, <2>2, <2>3 DEF CallRead, Inv, TypeOK, ReaderInv
  <2>6. QED
    BY <1>2, <2>4, <2>5 DEF Inv
<1>4. CASE ReadReturns
  <2>1. TypeOK'
    BY <1>4 DEF ReadReturns, Inv, TypeOK
  <2>2. /\ rlen \in Nat /\ handed \in Nat /\ rsofar = rlen
        /\ handed' = handed + rlen /\ rlen' = rlen /\ mem' = mem
        /\ rpc' = "idle" /\ rpc = "reading"
    BY <1>4 DEF ReadReturns, Inv, TypeOK
  <2>3. \A i \in Mem :
          mem'[i] = IF i <= rlen' THEN (handed' - rlen') + i ELSE 0
    <3> SUFFICES ASSUME NEW i \in Mem
                 PROVE  mem[i] = IF i <= rlen
                                   THEN ((handed + rlen) - rlen) + i ELSE 0
      BY <2>2
    <3>1. mem[i] = IF i <= rlen THEN handed + i ELSE 0
      BY <2>2 DEF Inv, ReaderInv
    <3>2. (handed + rlen) - rlen = handed
      BY <2>2
    <3>3. QED
      BY <3>1, <3>2
  <2>4. ReaderInv'
    BY <1>4, <2>2, <2>3 DEF ReadReturns, Inv, TypeOK, ReaderInv
  <2>5. QED
    BY <1>2, <2>1, <2>4 DEF Inv
<1>5. CASE ReadEndOfFile \/ ReadTimesOut \/ ReadError
  <2> USE <1>5 DEF ReadEndOfFile, ReadTimesOut, ReadError, ReadThrows
  <2>1. TypeOK'
    BY DEF Inv, TypeOK
  <2>2. /\ rpc = "reading" /\ rsofar < rlen /\ rpc' = "closed"
        /\ UNCHANGED <<wpc, stream, taken, handed, rlen, rsofar>>
        /\ why' = "shutdown" => WriterGone /\ taken = Len(stream)
    OBVIOUS
  <2>3. /\ taken = handed + rsofar /\ taken <= Len(stream)
        /\ rlen <= MemSize
        /\ {taken, handed, rlen, rsofar} \subseteq Nat
    BY <2>2 DEF Inv, TypeOK, ReaderInv
  <2>4. WriterGone' <=> WriterGone
    BY <2>2 DEF WriterGone
  <2>5. ReaderInv'
    BY <1>1, <2>2, <2>3, <2>4 DEF ReaderInv
  <2>6. QED
    BY <1>2, <2>1, <2>5 DEF Inv
<1>6. CASE CloseReader
  <2>1. TypeOK'
    BY <1>6 DEF CloseReader, Inv, TypeOK
  <2>2. ReaderInv'
    BY <1>6 DEF CloseReader, Inv, ReaderInv
  <2>3. QED
    BY <1>2, <2>1, <2>2 DEF Inv
<1>7. QED
  BY <1>3, <1>4, <1>5, <1>6

LEMMA InvHolds == Spec => []Inv
<1> USE TcpStreamAssumption
<1>1. ASSUME Init
      PROVE  Inv
  <2>1. stream \in Seq(Nat) /\ Len(stream) = 0
    BY <1>1 DEF Init
  <2>2. mem \in [Mem -> Nat] /\ \A i \in Mem : mem[i] = 0
    BY <1>1 DEF Init, Untouched
  <2>3. \A i \in Mem : i \in Nat /\ 1 <= i
    BY DEF Mem
  <2>4. QED
    BY <1>1, <2>1, <2>2, <2>3
    DEF Init, Inv, TypeOK, WriterInv, ReaderInv
<1>2. ASSUME Inv, [Next]_vars
      PROVE  Inv'
  <2>1. CASE UNCHANGED vars
    BY <1>2, <2>1
    DEF vars, writer, reader, Inv, TypeOK, WriterInv, ReaderInv, WriterGone
  <2>2. CASE Next
    BY <1>2, <2>2, WriteSomeKeeps, ReadSomeKeeps, WriterKeeps, ReaderKeeps
    DEF Next, InWriteExact, InReadExact
  <2>3. QED
    BY <1>2, <2>1, <2>2
<1>3. QED
  BY <1>1, <1>2, PTL DEF Spec

\* Types: neither loop of TcpStream passes the length it was given.
THEOREM TypeCorrect == Spec => []TypeOK
<1>1. Inv => TypeOK
  BY DEF Inv
<1>2. QED
  BY <1>1, InvHolds, PTL

\* Whatever write takes at a time, what WriteExact sends is what it was
\* given, in order, and all of it when it returns.
THEOREM WritesAreWhole == Spec => []WrittenInOrder
<1>1. Inv => WrittenInOrder
  BY DEF Inv, TypeOK, WriterInv, WrittenInOrder
<1>2. QED
  BY <1>1, InvHolds, PTL

\* When ReadExact returns, the next len bytes of the stream are at b, and
\* nothing else has been written.
THEOREM ReadsAreExact == Spec => []ReadIsExact
<1>1. Inv => ReadIsExact
  BY DEF Inv, ReaderInv, ReadIsExact
<1>2. QED
  BY <1>1, InvHolds, PTL

\* ReadExact throws "peer has shutdown" only when bytes are missing.
THEOREM ShutdownIsHonest == Spec => []ShutdownMeansMissing
<1>1. Inv => ShutdownMeansMissing
  BY DEF Inv, ReaderInv, ShutdownMeansMissing
<1>2. QED
  BY <1>1, InvHolds, PTL

\* The loops implement ExactIO: each of their steps is a write, a whole
\* read, a failure or a stutter there.
THEOREM RefinesExactIO == Spec => ImplementsExactIO
<1> USE TcpStreamAssumption
<1>1. ASSUME Init
      PROVE  Exact!Init
  BY <1>1 DEF Init, Exact!Init
<1>2. ASSUME Inv, Inv', [Next]_vars
      PROVE  [Exact!Next]_(Exact!vars)
  <2> DEFINE abstract == <<Len(stream), handed, why # "none">>
  <2>0. Len(stream) \in Nat /\ Len(stream') \in Nat
    BY <1>2 DEF Inv, TypeOK
  <2>1. CASE WriteSome
    <3>1. PICK n \in 1..(wlen - wsofar) : wsofar' = wsofar + n
      BY <2>1 DEF WriteSome
    <3>2. Len(stream') > Len(stream)
      BY <1>2, <2>0, <2>1, <3>1
      DEF Inv, TypeOK, WriterInv, WriteSome
    <3>3. Exact!Write
      BY <2>0, <2>1, <3>2 DEF WriteSome, reader, Exact!Write
    <3>4. QED
      BY <3>3 DEF Exact!Next
  <2>2. CASE ReadReturns
    <3>1. /\ handed' = handed + rlen /\ rlen \in Lengths
          /\ UNCHANGED <<stream, why>> /\ why = "none"
      BY <1>2, <2>2 DEF ReadReturns, writer, Inv, ReaderInv
    <3>2. handed' <= Len(stream)
      BY <1>2, <2>2 DEF ReadReturns, Inv, TypeOK, ReaderInv
    <3>3. Exact!Read
      BY <3>1, <3>2 DEF Exact!Read
    <3>4. QED
      BY <3>3 DEF Exact!Next
  <2>3. CASE ReadEndOfFile \/ ReadTimesOut \/ ReadError
    <3>1. UNCHANGED <<stream, handed>> /\ why' # "none"
      BY <2>3
      DEF ReadEndOfFile, ReadTimesOut, ReadError, ReadThrows, writer
    <3>2. Exact!Fail
      BY <3>1 DEF Exact!Fail
    <3>3. QED
      BY <3>2 DEF Exact!Next
  <2>4. CASE \/ CallWrite \/ WriteReturns \/ WriteTimesOut \/ WriteError
             \/ CloseWriter \/ CallRead \/ ReadSome \/ CloseReader
             \/ UNCHANGED vars
    <3>1. UNCHANGED <<stream, handed, why>>
      BY <2>4 DEF CallWrite, WriteReturns, WriteTimesOut, WriteError,
                  CloseWriter, CallRead, ReadSome, ReadInto, CloseReader,
                  writer, reader, vars
    <3>2. QED
      BY <3>1 DEF Exact!vars
  <2>5. QED
    BY <1>2, <2>1, <2>2, <2>3, <2>4
    DEF Next, InWriteExact, InReadExact
<1>3. QED
  BY <1>1, <1>2, InvHolds, PTL DEF Spec, ImplementsExactIO, Exact!Spec
=============================================================================
