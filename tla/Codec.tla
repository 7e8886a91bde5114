------------------------------- MODULE Codec -------------------------------
(***************************************************************************)
(* The seven message classes (msg_*.hpp) as views of one buffer: a header  *)
(* at its front and a message behind it, as ProtoClient and the server of  *)
(* the tests lay them out.  Addresses, lengths and offsets are those of    *)
(* the code.  An integer is the sequence of its bytes, the least           *)
(* significant first; a text is the sequence of its characters.            *)
(***************************************************************************)
EXTENDS Naturals, Sequences

CONSTANTS Texts,       \* bound: the texts put in a field
          Ints,        \* bound: the integers put in a field
          Fills,       \* bound: what the memory holds at first
          Limits,      \* bound: the lengths of the buffer
          MemorySize   \* bound: the buffer, and what lies behind it

Byte == 0..255
Memory == 0..(MemorySize - 1)

ASSUME CodecAssumption ==
  /\ MemorySize \in Nat
  /\ Texts \subseteq Seq(Byte \ {0}) /\ Ints \subseteq Seq(Byte)
  /\ Fills \subseteq Byte /\ Limits \subseteq 0..MemorySize

VARIABLES mem,         \* the bytes at each address
          bigEndian,   \* __BYTE_ORDER of the host
          limit,       \* buffer_length_, of a buffer that starts at 0
          header,      \* the fields of the MsgHeader, once there is one
          body,        \* the fields of the message, once there is one
          given        \* history: what each field was last set to

vars == <<mem, bigEndian, limit, header, body, given>>

-----------------------------------------------------------------------------
(***************************************************************************)
(* The layouts                                                             *)
(***************************************************************************)
Text(at, len) == [text |-> TRUE, at |-> at, len |-> len]
Integer(at, len) == [text |-> FALSE, at |-> at, len |-> len]

\* MsgType, MsgLen, Timestamp, Checksum
MsgHeader ==
  [length |-> 13, fields |-> {Integer(0, 1), Integer(1, 2), Integer(3, 8),
                              Integer(11, 2)}]

\* User, Password
LoginRequest == [length |-> 96, fields |-> {Text(0, 64), Text(64, 32)}]

\* Code, Reason
LoginResponse == [length |-> 33, fields |-> {Integer(0, 1), Text(1, 32)}]

\* Name, Email, Repo
SubmissionRequest ==
  [length |-> 192, fields |-> {Text(0, 64), Text(64, 64), Text(128, 64)}]

\* Token
SubmissionResponse == [length |-> 32, fields |-> {Text(0, 32)}]

LogoutRequest == [length |-> 0, fields |-> {}]

\* Reason
LogoutResponse == [length |-> 32, fields |-> {Text(0, 32)}]

Bodies == {LoginRequest, LoginResponse, SubmissionRequest,
           SubmissionResponse, LogoutRequest, LogoutResponse}

\* The addresses of a field; a layout at its buffer_offset_.
Bytes(f) == f.at..(f.at + f.len - 1)
Placed(layout, offset) ==
  {[text |-> f.text, at |-> offset + f.at, len |-> f.len] :
     f \in layout.fields}

-----------------------------------------------------------------------------
(***************************************************************************)
(* Constructors, setters and getters                                       *)
(***************************************************************************)
Init ==
  /\ \E b \in Fills : mem = [a \in Memory |-> b]
  /\ bigEndian \in BOOLEAN
  /\ limit \in Limits
  /\ header = {} /\ body = {} /\ given = <<>>

\* Mutant: the offset is not counted.
FitsAtFront(layout, offset) == limit >= layout.length

\* What every constructor checks; it throws if the message does not fit.
Fits(layout, offset) == limit >= offset + layout.length

ConstructHeader ==
  /\ header = {} /\ Fits(MsgHeader, 0)
  /\ header' = Placed(MsgHeader, 0)
  /\ UNCHANGED <<mem, bigEndian, limit, body, given>>

ConstructBody ==
  /\ header # {} /\ body = {}
  /\ \E layout \in Bodies :
       /\ Fits(layout, MsgHeader.length)
       /\ body' = Placed(layout, MsgHeader.length)
  /\ UNCHANGED <<mem, bigEndian, limit, header, given>>

\* There is no object then, and no field to set.
ConstructThrows ==
  /\ \/ header = {} /\ ~Fits(MsgHeader, 0)
     \/ body = {} /\ \E layout \in Bodies : ~Fits(layout, MsgHeader.length)
  /\ UNCHANGED vars

Store(f, bytes) ==
  mem' = [a \in Memory |-> IF a \in Bytes(f) THEN bytes[a - f.at + 1]
                                             ELSE mem[a]]

\* Mutants: the rest of the field is left as it was; what does not fit is
\* written all the same.
SetTextUnpadded(f, val) ==
  mem' = [a \in Memory |->
            IF a \in Bytes(f) /\ a - f.at < Len(val)
              THEN val[a - f.at + 1] ELSE mem[a]]
SetTextWhole(f, val) ==
  mem' = [a \in Memory |->
            IF a >= f.at /\ a - f.at < Len(val) THEN val[a - f.at + 1]
            ELSE IF a \in Bytes(f) THEN 0 ELSE mem[a]]

\* memcpy of what fits, memset of the rest.
SetText(f, val) ==
  Store(f, [i \in 1..f.len |-> IF i <= Len(val) THEN val[i] ELSE 0])

Swapped(bytes) ==
  [i \in 1..Len(bytes) |-> bytes[Len(bytes) + 1 - i]]

\* The bytes of an integer as they lie in the host's memory, and the integer
\* whose bytes lie there like this.
Native(val) == IF bigEndian THEN Swapped(val) ELSE val

\* Mutant: the bytes are not swapped.
EncodeNothing(val) == val

\* LITTLE_ENDIAN_ENCODE_16, LITTLE_ENDIAN_ENCODE_64
Encode(val) == IF bigEndian THEN Swapped(val) ELSE val

SetInt(f, val) == Store(f, Native(Encode(val)))

Set(f, val) ==
  /\ IF f.text THEN SetText(f, val) ELSE SetInt(f, val)
  /\ given' = [g \in DOMAIN given \cup {f} |->
                 IF g = f THEN val ELSE given[g]]
  /\ UNCHANGED <<bigEndian, limit, header, body>>

Next ==
  \/ ConstructHeader \/ ConstructBody \/ ConstructThrows
  \/ \E f \in header \cup body :
       \E val \in IF f.text THEN Texts ELSE {v \in Ints : Len(v) = f.len} :
         Set(f, val)

Spec == Init /\ [][Next]_vars

\* Where a string that starts at a ends: at the first NUL byte, or nowhere.
IsEnd(a, e) ==
  /\ e \in a..MemorySize
  /\ \A k \in a..(e - 1) : mem[k] # 0
  /\ e < MemorySize => mem[e] = 0

End(a) == CHOOSE e \in a..MemorySize : IsEnd(a, e)

\* std::string{b}
GetText(f) == [i \in 1..(End(f.at) - f.at) |-> mem[f.at + i - 1]]

GetInt(f) == Encode(Native([i \in 1..f.len |-> mem[f.at + i - 1]]))

-----------------------------------------------------------------------------
(***************************************************************************)
(* Properties                                                              *)
(***************************************************************************)

\* Whatever the buffer held before, in whatever order the fields of header
\* and message are set, and set again, each of them gives back what it was
\* last set to; of the texts, those that leave room for a NUL byte do.
GivesBackLastSet ==
  \A f \in DOMAIN given :
    IF f.text THEN Len(given[f]) < f.len => GetText(f) = given[f]
              ELSE GetInt(f) = given[f]

\* The two ends of a connection may have different byte orders: an integer
\* lies in the buffer with its least significant byte first on either.
SameOnEveryHost ==
  \A f \in DOMAIN given :
    ~f.text => \A i \in 1..f.len : mem[f.at + i - 1] = given[f][i]

\* A string that is too long runs on into the fields behind its own, but not
\* past the message if the text there is short enough.
EndsInMessage ==
  \A f, g \in DOMAIN given :
    (f.text /\ g.text /\ f.at <= g.at /\ Len(given[g]) < g.len)
      => End(f.at) < g.at + g.len

\* What lies behind the buffer is never written, although the setters know
\* nothing of its length: the constructor's check is enough.
StaysInBuffer ==
  [][\A a \in Memory : mem'[a] # mem[a] => a < limit]_vars
=============================================================================
