------------------------- MODULE TestThreadsProofs -------------------------
(***************************************************************************)
(* The handshake between RunServerThread and its server's thread, and whom *)
(* join may wait for in vain, for any number of calls.                     *)
(***************************************************************************)
EXTENDS TestThreads, TLAPS

\* The server of RunServerThread has not said that it is ready.
Early == test # 0 /\ server \in {"resolve", "listen", "ready"}

\* Locals exist while the main thread spins, that is as long as the server
\* is early; then the server waits in accept until the client connects.
Handshake ==
  /\ test \in Nat /\ frame \in BOOLEAN /\ ready \in BOOLEAN
  /\ terminated \in BOOLEAN
  /\ frame <=> main = "spin"
  /\ main = "call" =>
       server \in {"none", "ended"} /\ client \in {"none", "ended"}
  /\ main = "sleep" => test = 0
  /\ main = "spin" => test # 0 /\ client = "none" /\ ~pending
  /\ main = "spin" /\ ~terminated => Early \/ server = "accept"
  /\ main = "join server" => client = "ended"
  /\ Early => main = "spin" /\ ~ready
  /\ test # 0 /\ client = "connect" /\ ~terminated =>
       main = "join client" /\ server = "accept" /\ ~pending

\* A client that is done, in a test that is not, has been connected, has
\* failed, or came too soon.
ClientDone ==
  /\ client = "exchange" => pending
  /\ client = "ended" /\ main # "call" =>
       pending \/ failed \/ test \in refused

Inv == Handshake /\ ClientDone /\ NobodyRefused /\ FrameOutlivesUse

\* At first no thread runs.
LEMMA InvInit == Init => Inv
<1>1. Init => test \in Nat
  BY DEF Init
<1>2. QED
  BY <1>1, Zenon
  DEF Init, Inv, Handshake, Early, ClientDone, NobodyRefused,
      FrameOutlivesUse

\* The next call of RunServerThread is not TestTcp.
LEMMA Another == \A n \in Nat : n + 1 \in Nat /\ n + 1 # 0
  OBVIOUS

\* The steps of the main thread use and refuse nothing.
LEMMA MainKeeps ==
  ASSUME Inv, ~terminated, MainStep
  PROVE  Inv'
<1> USE DEF Inv, Handshake, Early, ClientDone, NobodyRefused,
            FrameOutlivesUse
<1>1. CASE StartServer
  <2>1. CASE test = 0
    BY <1>1, <2>1 DEF StartServer
  <2>2. CASE test # 0
    BY <1>1, <2>2 DEF StartServer
  <2>3. QED
    BY <2>1, <2>2
<1>2. CASE Awake
  BY <1>2 DEF Awake
<1>3. CASE ReturnWhenReady
  BY <1>3 DEF ReturnWhenReady
<1>4. CASE JoinClient
  BY <1>4 DEF JoinClient
<1>5. CASE JoinServer
  <2>1. test' \in Nat /\ test' # 0
    <3>1. test \in Nat /\ test' = test + 1
      BY <1>5 DEF JoinServer
    <3>2. QED
      BY <3>1, Another, Zenon
  <2>2. /\ main' = "call" /\ server' = "ended" /\ client' = "ended"
        /\ ~frame' /\ ~Early'
        /\ frame' \in BOOLEAN /\ ready' \in BOOLEAN
        /\ terminated' \in BOOLEAN
    BY <1>5 DEF JoinServer
  <2>3. Handshake'
    BY <2>1, <2>2
  <2>4. QED
    BY <1>5, <2>3 DEF JoinServer
<1>6. QED
  BY <1>1, <1>2, <1>3, <1>4, <1>5 DEF MainStep

\* The server's thread uses the frame only while it is early, and leaves
\* accept only when a client has connected.
LEMMA ServerKeeps ==
  ASSUME Inv, ~terminated, ServerStep
  PROVE  Inv'
<1> USE DEF Inv, Handshake, Early, ClientDone, NobodyRefused,
            FrameOutlivesUse
<1>1. CASE ServerResolves
  BY <1>1 DEF ServerResolves, Uses
<1>2. CASE ServerListens
  BY <1>2 DEF ServerListens
<1>3. CASE ServerIsReady
  BY <1>3 DEF ServerIsReady, Uses
<1>4. CASE ServerAccepts
  BY <1>4 DEF ServerAccepts
<1>5. CASE ServerServes
  BY <1>5 DEF ServerServes, Uses
<1>6. CASE ServerFails
  BY <1>6 DEF ServerFails
<1>7. QED
  BY <1>1, <1>2, <1>3, <1>4, <1>5, <1>6 DEF ServerStep

\* A client of RunServerThread's server finds it listening.
LEMMA ClientKeeps ==
  ASSUME Inv, ~terminated, ClientStep
  PROVE  Inv'
<1> USE DEF Inv, Handshake, Early, ClientDone, NobodyRefused,
            FrameOutlivesUse
<1>1. CASE ClientConnects
  <2>1. CASE Listening
    BY <1>1, <2>1 DEF ClientConnects
  <2>2. CASE ~Listening
    <3>1. test = 0
      BY <1>1, <2>2 DEF ClientConnects, Listening
    <3>2. client' = "ended"
      BY <1>1, <2>2 DEF ClientConnects
    <3>3. QED
      BY <1>1, <2>2, <3>1, <3>2 DEF ClientConnects
  <2>3. QED
    BY <2>1, <2>2
<1>2. CASE ClientFails
  BY <1>2 DEF ClientFails
<1>3. CASE ClientEnds
  BY <1>3 DEF ClientEnds
<1>4. QED
  BY <1>1, <1>2, <1>3 DEF ClientStep

\* The handshake holds in every interleaving of the three threads, fair or
\* not.
THEOREM HandshakeHolds == Spec => []Inv
<1>1. Inv /\ [Next]_vars => Inv'
  <2>1. Inv /\ Next => Inv'
    BY MainKeeps, ServerKeeps, ClientKeeps DEF Next
  <2>2. ASSUME Inv, UNCHANGED vars
        PROVE  Inv'
    BY <2>2 DEF Inv, Handshake, Early, ClientDone, NobodyRefused,
       FrameOutlivesUse, vars
  <2>3. QED
    BY <2>1, <2>2
<1>2. QED
  BY InvInit, <1>1, PTL DEF Spec

\* However many calls, and however late the server's thread gets to run, no
\* client of RunServerThread's server is refused.
THEOREM NobodyIsRefused == FairSpec => []NobodyRefused
<1>1. Inv => NobodyRefused
  BY DEF Inv
<1>2. QED
  BY HandshakeHolds, <1>1, PTL DEF FairSpec

\* However many calls, the address, the port and the flag are used only
\* while they exist.
THEOREM FrameIsThere == FairSpec => []FrameOutlivesUse
<1>1. Inv => FrameOutlivesUse
  BY DEF Inv
<1>2. QED
  BY HandshakeHolds, <1>1, PTL DEF FairSpec

\* The thread that main joins is in accept.
JoinsAccept == main = "join server" /\ server = "accept" /\ ~pending

\* However many calls, a join that waits for an accept without a connection
\* under way is that of a test whose client has failed or came too soon: no
\* interleaving leaves main waiting for a client that is still to come.
THEOREM JoinExplained == Spec => [](JoinsAccept => Stranded)
<1>1. Inv => (JoinsAccept => Stranded)
  BY DEF Inv, Handshake, ClientDone, JoinsAccept, Stranded
<1>2. QED
  BY HandshakeHolds, <1>1, PTL
=============================================================================
