------------------------------ MODULE Connect ------------------------------
(***************************************************************************)
(* From an address to a stream: TcpClient::Connect (tcp_client.cpp), which *)
(* makes a socket, ConnectWithTimeout (net.cpp), which connects it without *)
(* blocking and waits for the outcome, and the TcpStream constructor       *)
(* (tcp_stream.cpp).  One thread calls Connect again and again, as the     *)
(* loop of ProtoClient::Run does, and destroys the stream before the next  *)
(* call.  Descriptors are what the calls share: each system call may fail, *)
(* and what happens to the socket then depends on who notices.             *)
(***************************************************************************)
EXTENDS Naturals

CONSTANTS Descriptors,   \* bound: what the process may have open for sockets
          NoFd,          \* -1
          MaxCalls       \* bound: calls of Connect

ASSUME ConnectAssumption == NoFd \notin Descriptors /\ MaxCalls \in Nat

VARIABLES pc,        \* the next system call; "idle" between calls of Connect,
                     \* "open" while its caller holds the stream
          sockfd,    \* Connect's local, then the stream's sockfd_
          flags,     \* the file flags ConnectWithTimeout has saved
          file,      \* the kernel's side of every descriptor
          calls,     \* history: calls of Connect so far
          left       \* history: sockets open when ConnectWithTimeout threw

vars == <<pc, sockfd, flags, file, calls, left>>

\* A connection is decided when it is established or has failed.
Decided == {"established", "refused"}

\* Flags are kept to O_NONBLOCK; the timeouts are SO_RCVTIMEO, SO_SNDTIMEO.
File == [conn : {"none", "fresh", "pending"} \cup Decided,
         nonblock : BOOLEAN, rcvtimeo : BOOLEAN, sndtimeo : BOOLEAN]

Closed == [conn |-> "none", nonblock |-> FALSE,
           rcvtimeo |-> FALSE, sndtimeo |-> FALSE]

IsOpen(fd) == file[fd].conn # "none"

-----------------------------------------------------------------------------
Init ==
  /\ pc = "idle" /\ sockfd = NoFd /\ flags = FALSE
  /\ file = [fd \in Descriptors |-> Closed]
  /\ calls = 0 /\ left = {}

Call ==
  /\ pc = "idle" /\ calls < MaxCalls
  /\ calls' = calls + 1
  /\ pc' = "socket"
  /\ UNCHANGED <<sockfd, flags, file, left>>

\* socket() gives a free descriptor, or fails and Connect throws.
Socket ==
  /\ pc = "socket"
  /\ \/ \E fd \in Descriptors :
          /\ ~IsOpen(fd)
          /\ file' = [file EXCEPT ![fd].conn = "fresh"]
          /\ sockfd' = fd
          /\ pc' = "getfl"
     \/ pc' = "idle" /\ UNCHANGED <<sockfd, file>>
  /\ UNCHANGED <<flags, calls, left>>

\* An exception of ConnectWithTimeout passes through Connect, whose sockfd
\* goes out of scope.
ConnectWithTimeoutThrows ==
  /\ pc' = "idle" /\ sockfd' = NoFd
  /\ left' = left \cup {sockfd}
  /\ UNCHANGED <<flags, calls>>

\* Mutant: the closed descriptor is kept.
CloseSocketKeepsFd ==
  /\ pc' = "idle" /\ UNCHANGED sockfd
  /\ file' = [file EXCEPT ![sockfd] = Closed]
  /\ UNCHANGED <<flags, calls, left>>

\* close(sockfd); the call of Connect, or the life of the stream, is over.
CloseSocket ==
  /\ pc' = "idle" /\ sockfd' = NoFd
  /\ file' = [file EXCEPT ![sockfd] = Closed]
  /\ UNCHANGED <<flags, calls, left>>

GetFlags ==
  /\ pc = "getfl"
  /\ \/ /\ flags' = file[sockfd].nonblock
        /\ pc' = "setfl"
        /\ UNCHANGED <<sockfd, calls, left>>
     \/ ConnectWithTimeoutThrows
  /\ UNCHANGED file

SetNonblock ==
  /\ pc = "setfl"
  /\ \/ /\ file' = [file EXCEPT ![sockfd].nonblock = TRUE]
        /\ pc' = "connect"
        /\ UNCHANGED <<sockfd, flags, calls, left>>
     \/ ConnectWithTimeoutThrows /\ UNCHANGED file

\* connect() succeeds at once, is in progress, or fails at once.
StartConnect ==
  /\ pc = "connect"
  /\ \/ \E c \in {"established", "pending"} :
          /\ file' = [file EXCEPT ![sockfd].conn = c]
          /\ pc' = "select"
          /\ UNCHANGED <<sockfd, flags, calls, left>>
     \/ /\ file' = [file EXCEPT ![sockfd].conn = "refused"]
        /\ ConnectWithTimeoutThrows

\* The peer or the network answers, at any time or never.
Decide ==
  \E fd \in Descriptors, c \in Decided :
    /\ file[fd].conn = "pending"
    /\ file' = [file EXCEPT ![fd].conn = c]
    /\ UNCHANGED <<pc, sockfd, flags, calls, left>>

\* select() finds the socket writable: the connection has been decided.
SelectWritable ==
  /\ pc = "select"
  /\ file[sockfd].conn \in Decided
  /\ pc' = "restore"
  /\ UNCHANGED <<sockfd, flags, file, calls, left>>

SelectFails ==
  /\ pc = "select"
  /\ ConnectWithTimeoutThrows
  /\ UNCHANGED file

\* Mutants: the false branch keeps the socket; select() has no timeout.
SelectTimesOutNoClose ==
  /\ pc = "select" /\ file[sockfd].conn = "pending"
  /\ pc' = "idle" /\ sockfd' = NoFd
  /\ UNCHANGED <<flags, file, calls, left>>
SelectNeverTimesOut == FALSE

\* A second passes first: ConnectWithTimeout returns false.
SelectTimesOut ==
  /\ pc = "select" /\ file[sockfd].conn = "pending"
  /\ CloseSocket

\* Mutant: the flags are restored to what they are now.
RestoreFlagsNonblock ==
  /\ pc = "restore"
  /\ pc' = "rcvtimeo"
  /\ UNCHANGED <<sockfd, flags, file, calls, left>>

\* ConnectWithTimeout gives the socket its flags back and returns true.
RestoreFlags ==
  /\ pc = "restore"
  /\ \/ /\ file' = [file EXCEPT ![sockfd].nonblock = flags]
        /\ pc' = "rcvtimeo"
        /\ UNCHANGED <<sockfd, flags, calls, left>>
     \/ ConnectWithTimeoutThrows /\ UNCHANGED file

\* The TcpStream constructor.
SetRcvTimeout ==
  /\ pc = "rcvtimeo"
  /\ \/ /\ file' = [file EXCEPT ![sockfd].rcvtimeo = TRUE]
        /\ pc' = "sndtimeo"
        /\ UNCHANGED <<sockfd, flags, calls, left>>
     \/ CloseSocket

SetSndTimeout ==
  /\ pc = "sndtimeo"
  /\ \/ /\ file' = [file EXCEPT ![sockfd].sndtimeo = TRUE]
        /\ pc' = "open"
        /\ UNCHANGED <<sockfd, flags, calls, left>>
     \/ CloseSocket

\* The stream goes out of scope.
Destroy ==
  /\ pc = "open"
  /\ CloseSocket

\* What the thread does in Connect as long as select() does not fail.
InConnect ==
  \/ Socket \/ GetFlags \/ SetNonblock \/ StartConnect
  \/ SelectWritable \/ SelectTimesOut
  \/ RestoreFlags \/ SetRcvTimeout \/ SetSndTimeout

Next == Call \/ InConnect \/ SelectFails \/ Decide \/ Destroy

Spec == Init /\ [][Next]_vars

\* System calls return, select() after a second at the latest; that it may
\* fail is nothing to count on.  Nothing is assumed of the peer.
FairSpec == Spec /\ WF_vars(InConnect)

-----------------------------------------------------------------------------
(***************************************************************************)
(* Properties                                                              *)
(***************************************************************************)

\* Type invariant; Connect has a descriptor from socket() on and no longer
\* than the stream.
TypeOK ==
  /\ pc \in {"idle", "socket", "getfl", "setfl", "connect", "select",
             "restore", "rcvtimeo", "sndtimeo", "open"}
  /\ sockfd \in Descriptors \cup {NoFd}
  /\ (sockfd = NoFd) <=> (pc \in {"idle", "socket"})
  /\ flags \in BOOLEAN
  /\ file \in [Descriptors -> File]
  /\ calls \in 0..MaxCalls
  /\ left \subseteq Descriptors

\* Whoever gets a stream may rely on it: blocking again, with both timeouts
\* set, and its connection decided, so that a read neither fails at once on
\* an empty socket nor waits for ever.
StreamIsReady ==
  pc = "open" =>
    /\ ~file[sockfd].nonblock
    /\ file[sockfd].rcvtimeo /\ file[sockfd].sndtimeo
    /\ file[sockfd].conn \in Decided

\* Every open socket is the one in hand or was left behind by an exception
\* of ConnectWithTimeout, however many attempts have failed in between; and
\* what was left behind is never closed or handed out again.
OnlyThrowsLeave ==
  /\ sockfd \notin left
  /\ {fd \in Descriptors : IsOpen(fd)} = left \cup ({sockfd} \ {NoFd})

\* Connect comes back, with a stream or an exception, even if the peer never
\* answers.
ConnectReturns == (pc = "socket") ~> (pc \in {"idle", "open"})
=============================================================================
