------------------------------ MODULE Handles ------------------------------
(***************************************************************************)
(* TcpStream and TcpServer as owners of descriptors: construction, with    *)
(* its failures, Accept, moves, Close and destruction, in any order.  The  *)
(* kernel gives out a number again as soon as it has been closed, so a     *)
(* descriptor closed twice may be one that somebody else has by then.      *)
(***************************************************************************)
EXTENDS Integers

CONSTANTS Streams, Servers,  \* bound: the objects there may be at a time
          Descriptors        \* bound: the numbers the kernel can give out

ASSUME HandlesAssumption ==
  /\ Descriptors \subseteq Nat
  /\ Streams \cap Servers = {}

Objects == Streams \cup Servers

VARIABLES alive,     \* the objects constructed and not destroyed
          sockfd_,   \* the member of each
          open,      \* the kernel's open sockets
          left       \* history: those that a throw has left to nobody

vars == <<alive, sockfd_, open, left>>

Init ==
  /\ alive = {} /\ open = {} /\ left = {}
  /\ sockfd_ = [o \in Objects |-> -1]

\* The kernel gives the lowest number it has not given out.
Free == Descriptors \ open
Given(fd) == fd \in Free /\ \A other \in Free : fd <= other

\* An object holds a descriptor the kernel has just given out.
Construct(o, fd) ==
  /\ alive' = alive \cup {o}
  /\ sockfd_' = [sockfd_ EXCEPT ![o] = fd]
  /\ open' = open \cup {fd}
  /\ UNCHANGED left

\* There is a throw, and nothing was given out or all is closed again:
\* socket(), bind() or listen() failed, or accept(), or the second of Connect
\* ran out, or a timeout could not be set.
ConstructionFails == UNCHANGED vars

\* A failure to set SO_REUSEADDR leaves the new socket open.
ReuseAddrFails(fd) ==
  /\ open' = open \cup {fd}
  /\ left' = left \cup {fd}
  /\ UNCHANGED <<alive, sockfd_>>

\* ConnectWithTimeout throws, and the exception passes Connect, which would
\* have closed the socket if it had returned false.
ConnectThrows(fd) ==
  /\ open' = open \cup {fd}
  /\ left' = left \cup {fd}
  /\ UNCHANGED <<alive, sockfd_>>

\* TcpServer{addr}
NewServer(s) ==
  /\ s \in Servers \ alive
  /\ \/ ConstructionFails
     \/ \E fd \in Free : Given(fd) /\ (Construct(s, fd) \/ ReuseAddrFails(fd))

\* Connect(addr), which makes the TcpStream{sockfd} that it returns
NewStream(t) ==
  /\ t \in Streams \ alive
  /\ \/ ConstructionFails
     \/ \E fd \in Free : Given(fd) /\ (Construct(t, fd) \/ ConnectThrows(fd))

\* s.Accept(): accept() fails on a server moved from or closed; and, the
\* length it is given never having been set, on any other.
Accept(s, t) ==
  /\ s \in Servers \cap alive /\ t \in Streams \ alive
  /\ \/ ConstructionFails
     \/ /\ sockfd_[s] \in open
        /\ \E fd \in Free : Given(fd) /\ Construct(t, fd)

Alike(o, p) == {o, p} \subseteq Streams \/ {o, p} \subseteq Servers

\* T to{std::move(from)}
MoveConstruct(to, from) ==
  /\ from \in alive /\ to \in Objects \ alive /\ Alike(to, from)
  /\ alive' = alive \cup {to}
  /\ sockfd_' = [sockfd_ EXCEPT ![to] = sockfd_[from], ![from] = -1]
  /\ UNCHANGED <<open, left>>

\* to = std::move(from): Close() comes first, so an object assigned to
\* itself has nothing left to take.
MoveAssign(to, from) ==
  /\ {to, from} \subseteq alive /\ Alike(to, from)
  /\ open' = open \ {sockfd_[to]}
  /\ sockfd_' = [sockfd_ EXCEPT ![to] = sockfd_[from], ![from] = -1]
  /\ UNCHANGED <<alive, left>>

\* Mutant: the member keeps the closed descriptor.
CloseKeeps(o) ==
  /\ o \in alive
  /\ open' = open \ {sockfd_[o]}
  /\ UNCHANGED <<alive, sockfd_, left>>

Close(o) ==
  /\ o \in alive
  /\ open' = open \ {sockfd_[o]}
  /\ sockfd_' = [sockfd_ EXCEPT ![o] = -1]
  /\ UNCHANGED <<alive, left>>

\* Mutant: nothing is closed, or forgotten, on destruction.
DestroyOnly(o) ==
  /\ o \in alive
  /\ alive' = alive \ {o}
  /\ UNCHANGED <<sockfd_, open, left>>

\* The destructor closes.
Destroy(o) ==
  /\ o \in alive
  /\ open' = open \ {sockfd_[o]}
  /\ sockfd_' = [sockfd_ EXCEPT ![o] = -1]
  /\ alive' = alive \ {o}
  /\ UNCHANGED left

Next ==
  \/ \E s \in Servers : NewServer(s)
  \/ \E t \in Streams : NewStream(t)
  \/ \E s \in Servers, t \in Streams : Accept(s, t)
  \/ \E o, p \in Objects : MoveConstruct(o, p) \/ MoveAssign(o, p)
  \/ \E o \in Objects : Close(o) \/ Destroy(o)

Spec == Init /\ [][Next]_vars

-----------------------------------------------------------------------------
(***************************************************************************)
(* Properties                                                              *)
(***************************************************************************)
Held == {sockfd_[o] : o \in alive} \ {-1}

\* Type invariant; an object that does not exist holds nothing.
TypeOK ==
  /\ alive \subseteq Objects
  /\ sockfd_ \in [Objects -> Descriptors \cup {-1}]
  /\ open \subseteq Descriptors /\ left \subseteq Descriptors
  /\ \A o \in Objects \ alive : sockfd_[o] = -1

\* After any chain of moves, closings and failures each open socket has
\* exactly one object that will close it, or is one of those left behind for
\* good, by a TcpServer that could not be constructed or a Connect that threw;
\* and no object holds a number it has closed, which may by now be another's.
OneOwner ==
  /\ open = Held \cup left
  /\ Held \cap left = {}
  /\ \A o, p \in alive : sockfd_[o] = sockfd_[p] /\ o # p => sockfd_[o] = -1

\* A socket is closed by its owner only, which then has forgotten it: no
\* step of one object closes what another one uses.
ClosedByOwner ==
  [][\A fd \in open \ open' :
       \E o \in alive : sockfd_[o] = fd /\ fd \notin Held']_vars
=============================================================================
