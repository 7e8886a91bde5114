--------------------------- MODULE ConnectProofs ---------------------------
(***************************************************************************)
(* The safety of Connect, for every set of descriptors and any number of   *)
(* calls.                                                                  *)
(***************************************************************************)
EXTENDS Connect, TLAPS

\* A closed descriptor keeps nothing of the socket it was.
NothingKept == \A fd \in Descriptors : ~IsOpen(fd) => file[fd] = Closed

\* What has been done to the socket in hand before each system call.
SocketByStep ==
  /\ pc = "getfl" => ~file[sockfd].nonblock
  /\ pc \in {"setfl", "connect", "select", "restore"} => ~flags
  /\ pc \in {"restore", "rcvtimeo", "sndtimeo", "open"} =>
       file[sockfd].conn \in Decided
  /\ pc \in {"rcvtimeo", "sndtimeo", "open"} => ~file[sockfd].nonblock
  /\ pc \in {"sndtimeo", "open"} => file[sockfd].rcvtimeo
  /\ pc = "open" => file[sockfd].sndtimeo

Inv == TypeOK /\ NothingKept /\ OnlyThrowsLeave /\ SocketByStep

\* The socket in hand is closed.
LEMMA CloseSocketKeeps ==
  ASSUME Inv, sockfd # NoFd, CloseSocket
  PROVE  Inv'
<1> USE ConnectAssumption DEF CloseSocket
<1>1. sockfd \in Descriptors
  BY DEF Inv, TypeOK
<1>2. TypeOK'
  BY <1>1 DEF Inv, TypeOK, File, Closed
<1>3. NothingKept'
  BY <1>1 DEF Inv, TypeOK, NothingKept, IsOpen, Closed
<1>4. OnlyThrowsLeave'
  BY <1>1 DEF Inv, TypeOK, OnlyThrowsLeave, IsOpen, Closed
<1>5. SocketByStep'
  BY DEF SocketByStep
<1>6. QED
  BY <1>2, <1>3, <1>4, <1>5 DEF Inv

\* The socket in hand is left behind, its connection refused or not.
LEMMA ThrowKeeps ==
  ASSUME Inv, sockfd # NoFd, ConnectWithTimeoutThrows,
         \/ UNCHANGED file
         \/ file' = [file EXCEPT ![sockfd].conn = "refused"]
  PROVE  Inv'
<1> USE ConnectAssumption DEF ConnectWithTimeoutThrows
<1>1. sockfd \in Descriptors
  BY DEF Inv, TypeOK
<1>2. IsOpen(sockfd)
  BY <1>1 DEF Inv, OnlyThrowsLeave
<1>3. TypeOK'
  BY <1>1 DEF Inv, TypeOK, File, Decided
<1>4. \A fd \in Descriptors :
        /\ IsOpen(fd)' <=> IsOpen(fd)
        /\ ~IsOpen(fd) => file'[fd] = file[fd]
  <2>1. CASE UNCHANGED file
    BY <2>1 DEF IsOpen
  <2>2. CASE file' = [file EXCEPT ![sockfd].conn = "refused"]
    <3>1. file \in [Descriptors -> File]
      BY DEF Inv, TypeOK
    <3>2. \A fd \in Descriptors \ {sockfd} : file'[fd] = file[fd]
      BY <2>2, <3>1
    <3>3. file'[sockfd].conn = "refused"
      BY <1>1, <2>2, <3>1 DEF File
    <3>4. QED
      BY <1>1, <1>2, <3>2, <3>3 DEF IsOpen
  <2>3. QED
    BY <2>1, <2>2
<1>5. NothingKept'
  BY <1>4 DEF Inv, NothingKept
<1>6. OnlyThrowsLeave'
  BY <1>1, <1>4 DEF Inv, TypeOK, OnlyThrowsLeave
<1>7. SocketByStep'
  BY DEF SocketByStep
<1>8. QED
  BY <1>3, <1>5, <1>6, <1>7 DEF Inv

\* A step that changes the socket in hand, or a pending one, and leaves open
\* what is open.
LEMMA OpenKept ==
  ASSUME Inv, TypeOK', UNCHANGED <<sockfd, left>>,
         \A fd \in Descriptors :
           /\ IsOpen(fd)' <=> IsOpen(fd)
           /\ ~IsOpen(fd) => file'[fd] = file[fd]
  PROVE  NothingKept' /\ OnlyThrowsLeave'
BY DEF Inv, NothingKept, OnlyThrowsLeave

\* The invariant is inductive, by cases on the system calls.
LEMMA InvHolds == Spec => []Inv
<1> USE ConnectAssumption
<1>1. ASSUME Init
      PROVE  Inv
  <2>1. Closed \in File
    BY DEF Closed, File
  <2>2. TypeOK
    <3>1. 0 \in 0..MaxCalls
      OBVIOUS
    <3>2. file \in [Descriptors -> File]
      BY <1>1, <2>1 DEF Init
    <3>3. QED
      BY <1>1, <3>1, <3>2 DEF Init, TypeOK
  <2>3. \A fd \in Descriptors : file[fd] = Closed /\ ~IsOpen(fd)
    BY <1>1 DEF Init, IsOpen, Closed
  <2>4. NothingKept
    BY <2>3 DEF NothingKept
  <2>5. OnlyThrowsLeave
    BY <1>1, <2>3 DEF Init, OnlyThrowsLeave
  <2>6. SocketByStep
    BY <1>1 DEF Init, SocketByStep
  <2>7. QED
    BY <2>2, <2>4, <2>5, <2>6 DEF Inv
<1>2. ASSUME Inv, [Next]_vars
      PROVE  Inv'
  <2> USE <1>2
  <2>0. sockfd # NoFd => sockfd \in Descriptors /\ IsOpen(sockfd)
    BY DEF Inv, TypeOK, OnlyThrowsLeave
  <2>1. CASE Call
    <3>1. TypeOK'
      BY <2>1 DEF Call, Inv, TypeOK
    <3>2. SocketByStep'
      BY <2>1 DEF Call, SocketByStep
    <3>3. QED
      BY <2>1, <3>1, <3>2 DEF Call, Inv, NothingKept, OnlyThrowsLeave, IsOpen
  <2>2. CASE Socket
    <3>1. CASE pc' = "idle" /\ UNCHANGED <<sockfd, file>>
      BY <2>2, <3>1 DEF Socket, Inv, TypeOK, SocketByStep, NothingKept,
                        OnlyThrowsLeave, IsOpen
    <3>2. ASSUME NEW fd \in Descriptors, ~IsOpen(fd),
                 file' = [file EXCEPT ![fd].conn = "fresh"],
                 sockfd' = fd, pc' = "getfl"
          PROVE  Inv'
      <4>1. file[fd] = Closed /\ fd \notin left /\ sockfd = NoFd
        BY <2>2, <3>2 DEF Socket, Inv, TypeOK, NothingKept, OnlyThrowsLeave
      <4>2. TypeOK'
        BY <2>2, <3>2 DEF Socket, Inv, TypeOK, File
      <4>3. /\ file'[fd] = [Closed EXCEPT !.conn = "fresh"]
            /\ \A g \in Descriptors \ {fd} : file'[g] = file[g]
        BY <3>2, <4>1 DEF Inv, TypeOK
      <4>4. NothingKept'
        BY <3>2, <4>3 DEF Inv, NothingKept, IsOpen, Closed
      <4>5. OnlyThrowsLeave'
        <5>1. IsOpen(fd)' /\ \A g \in Descriptors \ {fd} :
                               IsOpen(g)' <=> IsOpen(g)
          BY <4>3 DEF IsOpen, Closed
        <5>2. QED
          BY <2>2, <3>2, <4>1, <5>1 DEF Socket, Inv, OnlyThrowsLeave
      <4>6. SocketByStep'
        BY <3>2, <4>3 DEF SocketByStep, Closed
      <4>7. QED
        BY <4>2, <4>4, <4>5, <4>6 DEF Inv
    <3>3. QED
      BY <2>2, <3>1, <3>2 DEF Socket
  <2>3. CASE GetFlags
    <3>1. CASE ConnectWithTimeoutThrows
      BY <2>3, <3>1, ThrowKeeps DEF GetFlags, Inv, TypeOK
    <3>2. CASE flags' = file[sockfd].nonblock /\ pc' = "setfl"
                 /\ UNCHANGED <<sockfd, calls, left>>
      <4>1. TypeOK'
        BY <2>0, <2>3, <3>2 DEF GetFlags, Inv, TypeOK, File
      <4>2. SocketByStep'
        BY <2>3, <3>2 DEF GetFlags, Inv, SocketByStep
      <4>3. QED
        BY <2>3, <3>2, <4>1, <4>2, OpenKept DEF GetFlags, Inv, IsOpen
    <3>3. QED
      BY <2>3, <3>1, <3>2 DEF GetFlags
  <2>4. CASE SetNonblock
    <3>1. CASE ConnectWithTimeoutThrows /\ UNCHANGED file
      BY <2>4, <3>1, ThrowKeeps DEF SetNonblock, Inv, TypeOK
    <3>2. CASE /\ file' = [file EXCEPT ![sockfd].nonblock = TRUE]
               /\ pc' = "connect"
               /\ UNCHANGED <<sockfd, flags, calls, left>>
      <4>1. TypeOK'
        BY <2>0, <2>4, <3>2 DEF SetNonblock, Inv, TypeOK, File
      <4>2. SocketByStep'
        BY <2>4, <3>2 DEF SetNonblock, Inv, SocketByStep
      <4>3. \A fd \in Descriptors : /\ IsOpen(fd)' <=> IsOpen(fd)
                                    /\ ~IsOpen(fd) => file'[fd] = file[fd]
        BY <2>0, <2>4, <3>2 DEF SetNonblock, Inv, TypeOK, IsOpen
      <4>4. QED
        BY <3>2, <4>1, <4>2, <4>3, OpenKept DEF Inv
    <3>3. QED
      BY <2>4, <3>1, <3>2 DEF SetNonblock
  <2>5. CASE StartConnect
    <3>1. CASE /\ file' = [file EXCEPT ![sockfd].conn = "refused"]
               /\ ConnectWithTimeoutThrows
      BY <2>5, <3>1, ThrowKeeps DEF StartConnect, Inv, TypeOK
    <3>2. ASSUME NEW c \in {"established", "pending"},
                 file' = [file EXCEPT ![sockfd].conn = c],
                 pc' = "select", UNCHANGED <<sockfd, flags, calls, left>>
          PROVE  Inv'
      <4>1. TypeOK'
        BY <2>0, <2>5, <3>2 DEF StartConnect, Inv, TypeOK, File, Decided
      <4>2. SocketByStep'
        BY <2>5, <3>2 DEF StartConnect, Inv, SocketByStep
      <4>3. \A fd \in Descriptors : /\ IsOpen(fd)' <=> IsOpen(fd)
                                    /\ ~IsOpen(fd) => file'[fd] = file[fd]
        BY <2>0, <2>5, <3>2 DEF StartConnect, Inv, TypeOK, IsOpen
      <4>4. QED
        BY <3>2, <4>1, <4>2, <4>3, OpenKept DEF Inv
    <3>3. QED
      BY <2>5, <3>1, <3>2 DEF StartConnect
  <2>6. CASE Decide
    <3>1. PICK fd \in Descriptors, c \in Decided :
            /\ file[fd].conn = "pending"
            /\ file' = [file EXCEPT ![fd].conn = c]
      BY <2>6 DEF Decide
    <3>2. UNCHANGED <<pc, sockfd, flags, calls, left>>
      BY <2>6 DEF Decide
    <3>3. TypeOK'
      BY <3>1, <3>2 DEF Inv, TypeOK, File
    <3>4. /\ \A g \in Descriptors \ {fd} : file'[g] = file[g]
          /\ file'[fd] = [file[fd] EXCEPT !.conn = c]
      BY <3>1 DEF Inv, TypeOK
    <3>5. \A g \in Descriptors : /\ IsOpen(g)' <=> IsOpen(g)
                                 /\ ~IsOpen(g) => file'[g] = file[g]
      BY <3>1, <3>4 DEF Inv, TypeOK, File, IsOpen, Decided
    <3>6. SocketByStep'
      BY <2>0, <3>1, <3>2, <3>4 DEF Inv, TypeOK, File, SocketByStep, Decided
    <3>7. QED
      BY <3>2, <3>3, <3>5, <3>6, OpenKept DEF Inv
  <2>7. CASE SelectWritable
    <3>1. TypeOK' /\ SocketByStep'
      BY <2>7 DEF SelectWritable, Inv, TypeOK, SocketByStep
    <3>2. QED
      BY <2>7, <3>1, OpenKept DEF SelectWritable, Inv, IsOpen
  <2>8. CASE SelectFails
    BY <2>8, ThrowKeeps DEF SelectFails, Inv, TypeOK
  <2>9. CASE SelectTimesOut
    BY <2>9, CloseSocketKeeps DEF SelectTimesOut, Inv, TypeOK
  <2>10. CASE RestoreFlags
    <3>1. CASE ConnectWithTimeoutThrows /\ UNCHANGED file
      BY <2>10, <3>1, ThrowKeeps DEF RestoreFlags, Inv, TypeOK
    <3>2. CASE /\ file' = [file EXCEPT ![sockfd].nonblock = flags]
               /\ pc' = "rcvtimeo"
               /\ UNCHANGED <<sockfd, flags, calls, left>>
      <4>1. TypeOK'
        BY <2>0, <2>10, <3>2 DEF RestoreFlags, Inv, TypeOK, File
      <4>2. SocketByStep'
        BY <2>0, <2>10, <3>2 DEF RestoreFlags, Inv, TypeOK, File,
                                 SocketByStep
      <4>3. \A fd \in Descriptors : /\ IsOpen(fd)' <=> IsOpen(fd)
                                    /\ ~IsOpen(fd) => file'[fd] = file[fd]
        BY <2>0, <2>10, <3>2 DEF RestoreFlags, Inv, TypeOK, IsOpen
      <4>4. QED
        BY <3>2, <4>1, <4>2, <4>3, OpenKept DEF Inv
    <3>3. QED
      BY <2>10, <3>1, <3>2 DEF RestoreFlags
  <2>11. CASE SetRcvTimeout
    <3>1. CASE CloseSocket
      BY <2>11, <3>1, CloseSocketKeeps DEF SetRcvTimeout, Inv, TypeOK
    <3>2. CASE /\ file' = [file EXCEPT ![sockfd].rcvtimeo = TRUE]
               /\ pc' = "sndtimeo"
               /\ UNCHANGED <<sockfd, flags, calls, left>>
      <4>1. TypeOK'
        BY <2>0, <2>11, <3>2 DEF SetRcvTimeout, Inv, TypeOK, File
      <4>2. SocketByStep'
        BY <2>0, <2>11, <3>2 DEF SetRcvTimeout, Inv, TypeOK, File,
                                 SocketByStep
      <4>3. \A fd \in Descriptors : /\ IsOpen(fd)' <=> IsOpen(fd)
                                    /\ ~IsOpen(fd) => file'[fd] = file[fd]
        BY <2>0, <2>11, <3>2 DEF SetRcvTimeout, Inv, TypeOK, IsOpen
      <4>4. QED
        BY <3>2, <4>1, <4>2, <4>3, OpenKept DEF Inv
    <3>3. QED
      BY <2>11, <3>1, <3>2 DEF SetRcvTimeout
  <2>12. CASE SetSndTimeout
    <3>1. CASE CloseSocket
      BY <2>12, <3>1, CloseSocketKeeps DEF SetSndTimeout, Inv, TypeOK
    <3>2. CASE /\ file' = [file EXCEPT ![sockfd].sndtimeo = TRUE]
               /\ pc' = "open"
               /\ UNCHANGED <<sockfd, flags, calls, left>>
      <4>1. TypeOK'
        BY <2>0, <2>12, <3>2 DEF SetSndTimeout, Inv, TypeOK, File
      <4>2. SocketByStep'
        BY <2>0, <2>12, <3>2 DEF SetSndTimeout, Inv, TypeOK, File,
                                 SocketByStep
      <4>3. \A fd \in Descriptors : /\ IsOpen(fd)' <=> IsOpen(fd)
                                    /\ ~IsOpen(fd) => file'[fd] = file[fd]
        BY <2>0, <2>12, <3>2 DEF SetSndTimeout, Inv, TypeOK, IsOpen
      <4>4. QED
        BY <3>2, <4>1, <4>2, <4>3, OpenKept DEF Inv
    <3>3. QED
      BY <2>12, <3>1, <3>2 DEF SetSndTimeout
  <2>13. CASE Destroy
    BY <2>13, CloseSocketKeeps DEF Destroy, Inv, TypeOK
  <2>14. CASE UNCHANGED vars
    BY <2>14 DEF vars, Inv, TypeOK, NothingKept, OnlyThrowsLeave,
                 SocketByStep, IsOpen
  <2>15. QED
    BY <2>1, <2>2, <2>3, <2>4, <2>5, <2>6, <2>7, <2>8, <2>9, <2>10, <2>11,
       <2>12, <2>13, <2>14 DEF Next, InConnect
<1>3. QED
  BY <1>1, <1>2, PTL DEF Spec

\* Types, and a descriptor is held exactly as long as there is one.
THEOREM TypeCorrect == Spec => []TypeOK
<1>1. Inv => TypeOK
  BY DEF Inv
<1>2. QED
  BY <1>1, InvHolds, PTL

\* A stream that is handed out is blocking, has both timeouts and a decided
\* connection.
THEOREM StreamsAreReady == Spec => []StreamIsReady
<1>1. Inv => StreamIsReady
  BY DEF Inv, SocketByStep, StreamIsReady
<1>2. QED
  BY <1>1, InvHolds, PTL

\* No attempt loses its socket except by an exception of ConnectWithTimeout.
THEOREM OnlyThrowsLoseSockets == Spec => []OnlyThrowsLeave
<1>1. Inv => OnlyThrowsLeave
  BY DEF Inv
<1>2. QED
  BY <1>1, InvHolds, PTL
=============================================================================
