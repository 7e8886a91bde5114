---------------------------- MODULE CodecProofs ----------------------------
(***************************************************************************)
(* The fields of a header and of the message behind it, for texts of any   *)
(* length, integers of any value and buffers of any size: no two of them   *)
(* share a byte, so each keeps what it was given, and none passes the end  *)
(* of the buffer.                                                          *)
(***************************************************************************)
EXTENDS Codec, WellFoundedInduction, TLAPS

Field == [text : BOOLEAN, at : Nat, len : Nat]

Apart(f, g) == f.at + f.len <= g.at \/ g.at + g.len <= f.at

-----------------------------------------------------------------------------
(***************************************************************************)
(* Layouts                                                                 *)
(***************************************************************************)

\* The fields of a layout lie within its length, apart from each other.
WellLaid(layout) ==
  /\ layout.length \in Nat
  /\ \A f \in layout.fields :
       f \in Field /\ f.at + f.len <= layout.length
  /\ \A f, g \in layout.fields : f # g => Apart(f, g)

\* The offsets and the lengths of the seven classes agree.
THEOREM LayoutsWell ==
  WellLaid(MsgHeader) /\ \A layout \in Bodies : WellLaid(layout)
<1>1. ASSUME NEW a \in Nat, NEW n \in Nat
      PROVE  /\ Text(a, n) \in Field /\ Integer(a, n) \in Field
             /\ Text(a, n).at = a /\ Text(a, n).len = n
             /\ Integer(a, n).at = a /\ Integer(a, n).len = n
  BY DEF Text, Integer, Field
<1>2. WellLaid(MsgHeader)
  <2>1. PICK a \in Field : a = Integer(0, 1) /\ a.at = 0 /\ a.len = 1
    BY <1>1
  <2>2. PICK b \in Field : b = Integer(1, 2) /\ b.at = 1 /\ b.len = 2
    BY <1>1
  <2>3. PICK c \in Field : c = Integer(3, 8) /\ c.at = 3 /\ c.len = 8
    BY <1>1
  <2>4. PICK d \in Field : d = Integer(11, 2) /\ d.at = 11 /\ d.len = 2
    BY <1>1
  <2>5. MsgHeader.fields = {a, b, c, d} /\ MsgHeader.length = 13
    BY <2>1, <2>2, <2>3, <2>4, Zenon DEF MsgHeader
  <2>6. \A f \in {a, b, c, d} : f \in Field /\ f.at + f.len <= 13
    BY <2>1, <2>2, <2>3, <2>4
  <2>7. /\ Apart(a, b) /\ Apart(b, a) /\ Apart(c, d) /\ Apart(d, c)
        /\ Apart(a, c) /\ Apart(a, d) /\ Apart(b, c) /\ Apart(b, d)
        /\ Apart(c, a) /\ Apart(d, a) /\ Apart(c, b) /\ Apart(d, b)
    BY <2>1, <2>2, <2>3, <2>4 DEF Apart
  <2>8. \A f, g \in {a, b, c, d} : f # g => Apart(f, g)
    BY <2>7, Zenon
  <2>9. QED
    BY <2>5, <2>6, <2>8 DEF WellLaid
<1>3. WellLaid(LoginRequest)
  BY <1>1 DEF LoginRequest, WellLaid, Apart
<1>4. WellLaid(LoginResponse)
  BY <1>1 DEF LoginResponse, WellLaid, Apart
<1>5. WellLaid(SubmissionRequest)
  BY <1>1 DEF SubmissionRequest, WellLaid, Apart
<1>6. WellLaid(SubmissionResponse)
  BY <1>1 DEF SubmissionResponse, WellLaid, Apart
<1>7. WellLaid(LogoutRequest)
  BY <1>1 DEF LogoutRequest, WellLaid, Apart
<1>8. WellLaid(LogoutResponse)
  BY <1>1 DEF LogoutResponse, WellLaid, Apart
<1>9. QED
  BY <1>2, <1>3, <1>4, <1>5, <1>6, <1>7, <1>8 DEF Bodies

\* So are they wherever the layout is placed.
LEMMA PlacedWell ==
  ASSUME NEW layout, WellLaid(layout), NEW offset \in Nat
  PROVE  /\ \A f \in Placed(layout, offset) :
              /\ f \in Field /\ offset <= f.at
              /\ f.at + f.len <= offset + layout.length
         /\ \A f, g \in Placed(layout, offset) : f # g => Apart(f, g)
<1>1. ASSUME NEW f \in Placed(layout, offset)
      PROVE  \E h \in layout.fields :
               /\ h \in Field /\ h.at + h.len <= layout.length
               /\ f = [text |-> h.text, at |-> offset + h.at, len |-> h.len]
               /\ f \in Field /\ f.at = offset + h.at /\ f.len = h.len
  BY DEF Placed, WellLaid, Field
<1>2. ASSUME NEW f \in Placed(layout, offset)
      PROVE  /\ f \in Field /\ offset <= f.at
             /\ f.at + f.len <= offset + layout.length
  <2>1. PICK h \in layout.fields :
          /\ h \in Field /\ h.at + h.len <= layout.length
          /\ f \in Field /\ f.at = offset + h.at /\ f.len = h.len
    BY <1>1
  <2>2. h.at \in Nat /\ h.len \in Nat /\ layout.length \in Nat
    BY <2>1 DEF Field, WellLaid
  <2>3. QED
    BY <2>1, <2>2
<1>3. ASSUME NEW f \in Placed(layout, offset),
             NEW g \in Placed(layout, offset), f # g
      PROVE  Apart(f, g)
  <2>1. PICK h \in layout.fields :
          /\ h \in Field /\ f.at = offset + h.at /\ f.len = h.len
          /\ f = [text |-> h.text, at |-> offset + h.at, len |-> h.len]
    BY <1>1
  <2>2. PICK k \in layout.fields :
          /\ k \in Field /\ g.at = offset + k.at /\ g.len = k.len
          /\ g = [text |-> k.text, at |-> offset + k.at, len |-> k.len]
    BY <1>1
  <2>3. Apart(h, k)
    BY <1>3, <2>1, <2>2 DEF WellLaid
  <2>4. /\ h.at \in Nat /\ h.len \in Nat
        /\ k.at \in Nat /\ k.len \in Nat
    BY <2>1, <2>2 DEF Field
  <2>5. QED
    BY <2>1, <2>2, <2>3, <2>4 DEF Apart
<1>4. QED
  BY <1>2, <1>3

-----------------------------------------------------------------------------
(***************************************************************************)
(* Bytes                                                                   *)
(***************************************************************************)

\* Swapping twice, and so encoding for a host and reading there, changes
\* nothing.
LEMMA NativeEncode ==
  ASSUME NEW val \in Seq(Byte)
  PROVE  /\ Native(Encode(val)) = val /\ Encode(Native(val)) = val
<1>1. \A i \in 1..Len(val) : val[Len(val) + 1 - i] \in Byte
  OBVIOUS
<1>2. Swapped(val) \in Seq(Byte) /\ Len(Swapped(val)) = Len(val)
  BY <1>1 DEF Swapped
<1>3. Swapped(Swapped(val)) = val
  <2>1. Swapped(Swapped(val)) = [i \in 1..Len(val) |-> val[i]]
    <3>1. \A i \in 1..Len(val) :
            /\ Len(val) + 1 - i \in 1..Len(val)
            /\ Len(val) + 1 - (Len(val) + 1 - i) = i
      OBVIOUS
    <3>2. \A i \in 1..Len(val) : Swapped(val)[Len(val) + 1 - i] = val[i]
      BY <3>1 DEF Swapped
    <3>3. Swapped(Swapped(val)) =
            [i \in 1..Len(val) |-> Swapped(val)[Len(val) + 1 - i]]
      BY <1>2 DEF Swapped
    <3>4. QED
      BY <3>2, <3>3
  <2>2. QED
    BY <2>1
<1>4. QED
  BY <1>3 DEF Native, Encode

\* Storing writes the bytes of the field and no other.
LEMMA StoreWrites ==
  ASSUME NEW f \in Field, f.at + f.len <= MemorySize,
         mem \in [Memory -> Byte],
         NEW bytes, \A i \in 1..f.len : bytes[i] \in Byte,
         Store(f, bytes)
  PROVE  /\ mem' \in [Memory -> Byte]
         /\ \A i \in 1..f.len : mem'[f.at + i - 1] = bytes[i]
         /\ \A a \in Memory \ Bytes(f) : mem'[a] = mem[a]
<1>1. f.at \in Nat /\ f.len \in Nat /\ MemorySize \in Nat
  BY CodecAssumption DEF Field
<1>2. \A a \in Bytes(f) : a \in Memory /\ a - f.at + 1 \in 1..f.len
  BY <1>1 DEF Bytes, Memory
<1>3. \A i \in 1..f.len :
        /\ f.at + i - 1 \in Bytes(f) /\ f.at + i - 1 \in Memory
        /\ (f.at + i - 1) - f.at + 1 = i
  BY <1>1 DEF Bytes, Memory
<1>4. mem' \in [Memory -> Byte]
  BY <1>2 DEF Store
<1>5. \A i \in 1..f.len : mem'[f.at + i - 1] = bytes[i]
  BY <1>3 DEF Store
<1>6. \A a \in Memory \ Bytes(f) : mem'[a] = mem[a]
  BY DEF Store
<1>7. QED
  BY <1>4, <1>5, <1>6

\* Strings end: there is a first NUL byte, or none up to the last byte.
LEMMA EndIsFirst ==
  ASSUME NEW a \in Nat, NEW e \in a..MemorySize, IsEnd(a, e)
  PROVE  End(a) = e
<1>1. MemorySize \in Nat
  BY CodecAssumption
<1>2. ASSUME NEW d \in a..MemorySize, IsEnd(a, d)
      PROVE  d = e
  <2>1. d \in Nat /\ e \in Nat
    BY <1>1
  <2>2. ~(d < e)
    BY <1>1, <1>2, <2>1 DEF IsEnd
  <2>3. ~(e < d)
    BY <1>1, <1>2, <2>1 DEF IsEnd
  <2>4. QED
    BY <2>1, <2>2, <2>3
<1>3. End(a) \in a..MemorySize /\ IsEnd(a, End(a))
  BY Zenon DEF End
<1>4. QED
  BY <1>2, <1>3

\* A NUL byte ends every string that starts before it, there or earlier.
LEMMA EndsAtNul ==
  ASSUME NEW a \in Nat, NEW z \in Nat, a <= z, z < MemorySize, mem[z] = 0
  PROVE  End(a) \in Nat /\ a <= End(a) /\ End(a) <= z
<1> DEFINE T == {k \in a..z : mem[k] = 0}
           R == OpToRel(<, Nat)
<1>1. IsWellFoundedOn(R, Nat)
  BY NatLessThanWellFounded
<1>2. \A x, y \in Nat : <<x, y>> \in R <=> x < y
  BY DEF OpToRel
<1> HIDE DEF R
<1>3. T \subseteq Nat /\ z \in T
  OBVIOUS
<1>4. PICK e \in T : \A y \in T : ~(<<y, e>> \in R)
  BY <1>1, <1>3, WFMin
<1>5. \A y \in T : y \in Nat /\ ~(y < e)
  BY <1>2, <1>3, <1>4
<1>6. e \in Nat /\ a <= e /\ e <= z /\ mem[e] = 0
  OBVIOUS
<1>7. MemorySize \in Nat
  BY CodecAssumption
<1>8. \A k \in a..(e - 1) : mem[k] # 0
  BY <1>5, <1>6
<1>9. e \in a..MemorySize /\ IsEnd(a, e)
  BY <1>6, <1>7, <1>8 DEF IsEnd
<1>10. QED
  BY <1>6, <1>9, EndIsFirst

-----------------------------------------------------------------------------
(***************************************************************************)
(* The objects                                                             *)
(***************************************************************************)

\* What may be given to a field, and the bytes the field then has.
Value(f, val) ==
  IF f.text THEN val \in Seq(Byte \ {0})
            ELSE val \in Seq(Byte) /\ Len(val) = f.len

Contents(f, val) ==
  IF f.text THEN [i \in 1..f.len |-> IF i <= Len(val) THEN val[i] ELSE 0]
            ELSE val

\* The fields there are lie in the buffer, the message's behind the header's
\* and none over another, and each has the bytes of what it was last given.
TypesOK ==
  /\ mem \in [Memory -> Byte] /\ bigEndian \in BOOLEAN
  /\ limit \in Nat /\ limit <= MemorySize

FieldsApart ==
  /\ header = {} => body = {}
  /\ \A f \in header : f.at + f.len <= 13
  /\ \A f \in header \cup body : f \in Field /\ f.at + f.len <= limit
  /\ \A f, g \in header \cup body : f # g => Apart(f, g)

FieldsHold ==
  /\ DOMAIN given \subseteq header \cup body
  /\ \A f \in DOMAIN given :
       /\ Value(f, given[f])
       /\ \A i \in 1..f.len : mem[f.at + i - 1] = Contents(f, given[f])[i]

Inv == TypesOK /\ FieldsApart /\ FieldsHold

\* No object, no field.
LEMMA InvInit == Init => Inv
<1> SUFFICES ASSUME Init
             PROVE  Inv
  OBVIOUS
<1>1. TypesOK
  <2>1. limit \in 0..MemorySize /\ MemorySize \in Nat
    BY CodecAssumption DEF Init
  <2>2. mem \in [Memory -> Byte]
    BY CodecAssumption DEF Init
  <2>3. bigEndian \in BOOLEAN
    BY DEF Init
  <2>4. QED
    BY <2>1, <2>2, <2>3 DEF TypesOK
<1>2. header = {} /\ body = {} /\ DOMAIN given = {}
  BY DEF Init
<1>3. QED
  BY <1>1, <1>2 DEF Inv, FieldsApart, FieldsHold

\* A constructor that does not throw adds fields within the buffer.
LEMMA ConstructKeeps ==
  ASSUME Inv, ConstructHeader \/ ConstructBody
  PROVE  Inv'
<1>1. TypesOK'
  BY DEF Inv, TypesOK, ConstructHeader, ConstructBody
<1>2. FieldsHold' /\ limit \in Nat /\ limit' = limit
  BY DEF Inv, TypesOK, FieldsHold, ConstructHeader, ConstructBody
<1>3. CASE ConstructHeader
  <2>1. MsgHeader.length = 13
    BY DEF MsgHeader
  <2>2. /\ \A f \in Placed(MsgHeader, 0) :
             f \in Field /\ 0 <= f.at /\ f.at + f.len <= 0 + 13
        /\ \A f, g \in Placed(MsgHeader, 0) : f # g => Apart(f, g)
    BY <2>1, LayoutsWell, PlacedWell
  <2>3. \A f \in Field : f.at \in Nat /\ f.len \in Nat
    BY DEF Field
  <2>4. /\ header' = Placed(MsgHeader, 0) /\ body' = {}
        /\ limit >= 0 + 13
    BY <1>3, <2>1 DEF ConstructHeader, Fits, Inv, FieldsApart
  <2>5. \A f \in header' :
          f \in Field /\ f.at + f.len <= 13 /\ f.at + f.len <= limit
    BY <1>2, <2>2, <2>3, <2>4
  <2>6. FieldsApart'
    BY <1>2, <2>2, <2>4, <2>5 DEF FieldsApart, Apart
  <2>7. QED
    BY <1>1, <1>2, <2>6 DEF Inv
<1>4. CASE ConstructBody
  <2>1. PICK layout \in Bodies :
          /\ Fits(layout, MsgHeader.length)
          /\ body' = Placed(layout, MsgHeader.length)
    BY <1>4 DEF ConstructBody
  <2>2. MsgHeader.length = 13 /\ layout.length \in Nat
    BY LayoutsWell DEF MsgHeader, WellLaid
  <2>3. /\ \A f \in body' :
             /\ f \in Field /\ 13 <= f.at
             /\ f.at + f.len <= 13 + layout.length
        /\ \A f, g \in body' : f # g => Apart(f, g)
    BY <2>1, <2>2, LayoutsWell, PlacedWell
  <2>4. limit >= 13 + layout.length
    BY <2>1, <2>2 DEF Fits
  <2>5. header' = header /\ header # {}
    BY <1>4 DEF ConstructBody
  <2>6. /\ \A f \in header :
             f \in Field /\ f.at + f.len <= 13 /\ f.at + f.len <= limit
        /\ \A f, g \in header : f # g => Apart(f, g)
    BY DEF Inv, FieldsApart
  <2>7. \A f \in Field : f.at \in Nat /\ f.len \in Nat
    BY DEF Field
  <2>8. \A f \in body' : f \in Field /\ f.at + f.len <= limit
    BY <1>2, <2>2, <2>3, <2>4, <2>7
  <2>9. \A f \in header, g \in body' : Apart(f, g) /\ Apart(g, f)
    BY <2>3, <2>6, <2>7 DEF Apart
  <2>10. \A f, g \in header \cup body' : f # g => Apart(f, g)
    BY <2>3, <2>6, <2>9
  <2>11. FieldsApart'
    BY <1>2, <2>5, <2>6, <2>8, <2>10 DEF FieldsApart, Apart
  <2>12. QED
    BY <1>1, <1>2, <2>11 DEF Inv
<1>5. QED
  BY <1>3, <1>4

\* A setter that is given a value its parameter type allows stores the
\* contents of the field, all of it.
LEMMA SetStores ==
  ASSUME Inv, NEW f \in header \cup body, NEW val, Value(f, val),
         Set(f, val)
  PROVE  /\ \A i \in 1..f.len : Contents(f, val)[i] \in Byte
         /\ Store(f, Contents(f, val))
<1>1. f \in Field
  BY DEF Inv, FieldsApart
<1>2. f.len \in Nat /\ 0 \in Byte
  BY <1>1 DEF Field, Byte
<1>3. CASE f.text
  <2>1. val \in Seq(Byte \ {0})
    BY <1>3 DEF Value
  <2>2. \A i \in 1..f.len : i <= Len(val) => val[i] \in Byte
    BY <1>2, <2>1
  <2>3. Store(f, Contents(f, val))
    BY <1>3 DEF Set, SetText, Contents
  <2>4. \A i \in 1..f.len : Contents(f, val)[i] \in Byte
    BY <1>2, <1>3, <2>2 DEF Contents
  <2>5. QED
    BY <2>3, <2>4
<1>4. CASE ~f.text
  <2>1. val \in Seq(Byte) /\ Len(val) = f.len /\ Contents(f, val) = val
    BY <1>4 DEF Value, Contents
  <2>2. Native(Encode(val)) = val
    BY <2>1, NativeEncode
  <2>3. QED
    BY <1>4, <2>1, <2>2 DEF Set, SetInt
<1>5. QED
  BY <1>3, <1>4

\* Nothing else changes, and nothing outside the field.
LEMMA SetKeeps ==
  ASSUME Inv, NEW f \in header \cup body, NEW val, Value(f, val),
         Set(f, val)
  PROVE  /\ Inv'
         /\ \A a \in Memory \ Bytes(f) : mem'[a] = mem[a]
<1>1. f \in Field /\ f.at + f.len <= limit
  BY DEF Inv, FieldsApart
<1>2. \A g \in Field : g.at \in Nat /\ g.len \in Nat
  BY DEF Field
<1>3. /\ mem \in [Memory -> Byte] /\ limit \in Nat /\ limit <= MemorySize
      /\ MemorySize \in Nat
  BY CodecAssumption DEF Inv, TypesOK
<1>4. f.at + f.len <= MemorySize
  BY <1>1, <1>2, <1>3
<1>5. /\ mem' \in [Memory -> Byte]
      /\ \A i \in 1..f.len : mem'[f.at + i - 1] = Contents(f, val)[i]
      /\ \A a \in Memory \ Bytes(f) : mem'[a] = mem[a]
  BY <1>1, <1>3, <1>4, SetStores, StoreWrites
<1>6. /\ UNCHANGED <<bigEndian, limit, header, body>>
      /\ DOMAIN given' = DOMAIN given \cup {f}
      /\ given'[f] = val
      /\ \A g \in DOMAIN given : g # f => given'[g] = given[g]
  BY DEF Set
<1>7. TypesOK'
  BY <1>5, <1>6 DEF Inv, TypesOK
<1>8. FieldsApart'
  BY <1>6 DEF Inv, FieldsApart, Apart
<1>9. FieldsHold'
  <2>1. DOMAIN given' \subseteq header' \cup body'
    BY <1>6 DEF Inv, FieldsHold
  <2>2. ASSUME NEW g \in DOMAIN given, g # f
        PROVE  /\ Value(g, given'[g])
               /\ \A i \in 1..g.len :
                    mem'[g.at + i - 1] = Contents(g, given'[g])[i]
    <3>1. /\ given'[g] = given[g] /\ g \in header \cup body
          /\ Value(g, given[g])
          /\ \A i \in 1..g.len : mem[g.at + i - 1] = Contents(g, given[g])[i]
      BY <1>6, <2>2 DEF Inv, FieldsHold
    <3>2. g \in Field /\ g.at + g.len <= limit /\ Apart(f, g)
      BY <2>2, <3>1 DEF Inv, FieldsApart
    <3>3. \A i \in 1..g.len : g.at + i - 1 \in Memory \ Bytes(f)
      <4>1. /\ f.at \in Nat /\ f.len \in Nat /\ g.at \in Nat /\ g.len \in Nat
            /\ g.at + g.len <= MemorySize
        BY <1>1, <1>2, <1>3, <3>2
      <4>2. \A i \in 1..g.len : g.at + i - 1 \in Memory
        BY <1>3, <4>1 DEF Memory
      <4>3. \A i \in 1..g.len : g.at + i - 1 \notin Bytes(f)
        BY <3>2, <4>1 DEF Apart, Bytes
      <4>4. QED
        BY <4>2, <4>3
    <3>4. QED
      BY <1>5, <3>1, <3>3
  <2>3. QED
    BY <1>5, <1>6, <2>1, <2>2 DEF FieldsHold
<1>10. QED
  BY <1>5, <1>7, <1>8, <1>9 DEF Inv

\* The values that Next gives fit their fields.
LEMMA NextGives ==
  ASSUME Inv, NEW f \in header \cup body,
         NEW val \in IF f.text THEN Texts ELSE {v \in Ints : Len(v) = f.len}
  PROVE  Value(f, val)
BY CodecAssumption DEF Value

\* The fields lie apart and hold what they were given in every state.
THEOREM FieldsKept == Spec => []Inv
<1>1. Inv /\ [Next]_vars => Inv'
  <2> SUFFICES ASSUME Inv, [Next]_vars
               PROVE  Inv'
    OBVIOUS
  <2>1. CASE ConstructHeader \/ ConstructBody
    BY <2>1, ConstructKeeps
  <2>2. CASE UNCHANGED vars
    BY <2>2 DEF vars, Inv, TypesOK, FieldsApart, FieldsHold, Apart
  <2>3. ASSUME NEW f \in header \cup body,
               NEW val \in IF f.text THEN Texts
                           ELSE {v \in Ints : Len(v) = f.len},
               Set(f, val)
        PROVE  Inv'
    BY <2>3, NextGives, SetKeeps
  <2>4. QED
    BY <2>1, <2>2, <2>3 DEF Next, ConstructThrows
<1>2. QED
  BY InvInit, <1>1, PTL DEF Spec

-----------------------------------------------------------------------------
(***************************************************************************)
(* The properties                                                          *)
(***************************************************************************)

\* A field that has been set, with the ranges of what belongs to it.
LEMMA GivenField ==
  ASSUME Inv, NEW f \in DOMAIN given
  PROVE  /\ f.at \in Nat /\ f.len \in Nat /\ f.at + f.len <= MemorySize
         /\ Value(f, given[f])
         /\ \A i \in 1..f.len :
              mem[f.at + i - 1] = Contents(f, given[f])[i]
<1>1. f \in header \cup body
  BY DEF Inv, FieldsHold
<1>2. f \in Field /\ f.at + f.len <= limit
  BY <1>1 DEF Inv, FieldsApart
<1>3. f.at \in Nat /\ f.len \in Nat
  BY <1>2 DEF Field
<1>4. limit \in Nat /\ limit <= MemorySize /\ MemorySize \in Nat
  BY CodecAssumption DEF Inv, TypesOK
<1>5. Value(f, given[f]) /\ \A i \in 1..f.len :
        mem[f.at + i - 1] = Contents(f, given[f])[i]
  BY DEF Inv, FieldsHold
<1>6. QED
  BY <1>2, <1>3, <1>4, <1>5

\* A text that leaves room for a NUL byte has one after its last character.
LEMMA TextIsEnded ==
  ASSUME Inv, NEW f \in DOMAIN given, f.text, Len(given[f]) < f.len
  PROVE  /\ given[f] \in Seq(Byte) /\ Len(given[f]) \in Nat
         /\ f.at + Len(given[f]) \in Nat
         /\ f.at + Len(given[f]) < MemorySize
         /\ mem[f.at + Len(given[f])] = 0
         /\ \A i \in 1..Len(given[f]) :
              mem[f.at + i - 1] = given[f][i] /\ given[f][i] # 0
<1>1. PICK val \in Seq(Byte \ {0}) : val = given[f]
  BY GivenField DEF Value
<1>2. /\ f.at \in Nat /\ f.len \in Nat /\ f.at + f.len <= MemorySize
      /\ \A i \in 1..f.len :
           mem[f.at + i - 1] = IF i <= Len(val) THEN val[i] ELSE 0
  BY <1>1, GivenField DEF Contents
<1>3. Len(val) \in Nat /\ Len(val) < f.len /\ MemorySize \in Nat
  BY <1>1, CodecAssumption
<1>4. mem[f.at + Len(val)] = 0
  <2>1. /\ Len(val) + 1 \in 1..f.len /\ ~(Len(val) + 1 <= Len(val))
        /\ f.at + (Len(val) + 1) - 1 = f.at + Len(val)
    BY <1>2, <1>3
  <2>2. QED
    BY <1>2, <2>1
<1>5. \A i \in 1..Len(val) : mem[f.at + i - 1] = val[i] /\ val[i] # 0
  <2>1. \A i \in 1..Len(val) : i \in 1..f.len /\ i <= Len(val)
    BY <1>2, <1>3
  <2>2. \A i \in 1..Len(val) : val[i] # 0
    OBVIOUS
  <2>3. QED
    BY <1>2, <2>1, <2>2
<1>6. val \in Seq(Byte)
  OBVIOUS
<1>7. QED
  BY <1>1, <1>2, <1>3, <1>4, <1>5, <1>6

\* Whatever order the fields are set in, and however often, each gives back
\* what it was last set to: for all texts, integers and sizes of the buffer.
THEOREM GivenIsGivenBack == Spec => []GivesBackLastSet
<1>1. ASSUME Inv, NEW f \in DOMAIN given, f.text, Len(given[f]) < f.len
      PROVE  GetText(f) = given[f]
  <2>1. PICK val \in Seq(Byte) : val = given[f]
    BY <1>1, TextIsEnded
  <2>2. /\ Len(val) \in Nat /\ f.at \in Nat
        /\ f.at + Len(val) \in Nat /\ f.at + Len(val) < MemorySize
        /\ mem[f.at + Len(val)] = 0
        /\ \A i \in 1..Len(val) :
             mem[f.at + i - 1] = val[i] /\ val[i] # 0
    BY <1>1, <2>1, TextIsEnded, GivenField
  <2>3. MemorySize \in Nat
    BY CodecAssumption
  <2>4. \A k \in f.at..(f.at + Len(val) - 1) : mem[k] # 0
    <3>1. TAKE k \in f.at..(f.at + Len(val) - 1)
    <3>2. PICK i \in 1..Len(val) : f.at + i - 1 = k
      <4>1. PICK x \in Nat, n \in Nat : x = f.at /\ n = Len(val)
        BY <2>2
      <4>2. k \in x..(x + n - 1)
        BY <4>1
      <4>3. k - x + 1 \in 1..n /\ x + (k - x + 1) - 1 = k
        BY <4>2
      <4>4. QED
        BY <4>1, <4>3
    <3>3. mem[f.at + i - 1] # 0
      BY <2>2
    <3>4. QED
      BY <3>2, <3>3
  <2>5. End(f.at) = f.at + Len(val)
    <3>1. f.at + Len(val) \in f.at..MemorySize
      BY <2>2, <2>3
    <3>2. IsEnd(f.at, f.at + Len(val))
      BY <2>2, <2>4, <3>1 DEF IsEnd
    <3>3. QED
      BY <2>2, <3>1, <3>2, EndIsFirst
  <2>6. End(f.at) - f.at = Len(val)
    BY <2>2, <2>5
  <2>7. GetText(f) = [i \in 1..Len(val) |-> val[i]]
    BY <2>2, <2>6 DEF GetText
  <2>8. QED
    BY <2>1, <2>7
<1>2. ASSUME Inv, NEW f \in DOMAIN given, ~f.text
      PROVE  GetInt(f) = given[f]
  <2>1. PICK val \in Seq(Byte) : val = given[f] /\ Len(val) = f.len
    BY <1>2, GivenField DEF Value
  <2>2. \A i \in 1..Len(val) : mem[f.at + i - 1] = val[i]
    BY <1>2, <2>1, GivenField DEF Contents
  <2>3. [i \in 1..f.len |-> mem[f.at + i - 1]] = val
    BY <2>1, <2>2
  <2>4. QED
    BY <2>1, <2>3, NativeEncode DEF GetInt
<1>3. Inv => GivesBackLastSet
  BY <1>1, <1>2 DEF GivesBackLastSet
<1>4. QED
  BY FieldsKept, <1>3, PTL

\* Integers lie least significant byte first on either host.
THEOREM ByteOrderIsFixed == Spec => []SameOnEveryHost
<1>1. Inv => SameOnEveryHost
  BY GivenField DEF SameOnEveryHost, Contents
<1>2. QED
  BY FieldsKept, <1>1, PTL

\* A string runs on, if it does, no further than the next text that leaves
\* room for a NUL byte.
THEOREM StringsEndInMessage == Spec => []EndsInMessage
<1>1. ASSUME Inv, NEW f \in DOMAIN given, NEW g \in DOMAIN given,
             g.text, f.at <= g.at, Len(given[g]) < g.len
      PROVE  End(f.at) < g.at + g.len
  <2>1. PICK n \in Nat : n = Len(given[g]) /\ n < g.len
    BY <1>1, TextIsEnded
  <2>2. /\ g.at + n \in Nat /\ g.at + n < MemorySize /\ mem[g.at + n] = 0
    BY <1>1, <2>1, TextIsEnded
  <2>3. f.at \in Nat /\ g.at \in Nat /\ g.len \in Nat
    BY <1>1, GivenField
  <2>4. f.at <= g.at + n /\ g.at + n < g.at + g.len
    BY <1>1, <2>1, <2>3
  <2>5. End(f.at) \in Nat /\ End(f.at) <= g.at + n
    BY <2>2, <2>3, <2>4, EndsAtNul
  <2>6. QED
    BY <2>1, <2>3, <2>4, <2>5
<1>2. Inv => EndsInMessage
  BY <1>1 DEF EndsInMessage
<1>3. QED
  BY FieldsKept, <1>2, PTL

\* No setter writes behind the buffer, whatever it is given.
THEOREM BehindIsUntouched == Spec => StaysInBuffer
<1> DEFINE Kept == \A a \in Memory : mem'[a] # mem[a] => a < limit
<1>1. Inv /\ [Next]_vars => [Kept]_vars
  <2> SUFFICES ASSUME Inv, Next
               PROVE  Kept
    OBVIOUS
  <2>1. CASE ConstructHeader \/ ConstructBody \/ ConstructThrows
    BY <2>1 DEF ConstructHeader, ConstructBody, ConstructThrows, vars
  <2>2. ASSUME NEW f \in header \cup body,
               NEW val \in IF f.text THEN Texts
                           ELSE {v \in Ints : Len(v) = f.len},
               Set(f, val)
        PROVE  Kept
    <3>1. \A a \in Memory \ Bytes(f) : mem'[a] = mem[a]
      BY <2>2, NextGives, SetKeeps
    <3>2. f \in Field /\ f.at + f.len <= limit /\ limit \in Nat
      BY DEF Inv, FieldsApart, TypesOK
    <3>3. \A a \in Bytes(f) : a < limit
      BY <3>2 DEF Bytes, Field
    <3>4. QED
      BY <3>1, <3>3
  <2>3. QED
    BY <2>1, <2>2 DEF Next
<1>2. QED
  BY FieldsKept, <1>1, PTL DEF Spec, StaysInBuffer
=============================================================================
