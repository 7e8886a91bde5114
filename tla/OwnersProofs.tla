---------------------------- MODULE OwnersProofs ----------------------------
(***************************************************************************)
(* One owner for each descriptor, each list freed once: for every set of   *)
(* objects, of numbers, of resolvers and of lists.  First of Handles and   *)
(* of Resolver by themselves, then of a program that uses both.            *)
(***************************************************************************)
EXTENDS Owners, TLAPS

-----------------------------------------------------------------------------
(***************************************************************************)
(* Handles                                                                 *)
(***************************************************************************)

Inv == TypeOK /\ OneOwner

\* A number just given out is nobody's.
LEMMA ConstructKeeps ==
  ASSUME Inv, NEW o \in Objects \ alive, NEW fd \in Free,
         Construct(o, fd)
  PROVE  Inv'
<1> USE HandlesAssumption DEF Construct
<1>1. fd \in Descriptors /\ fd \notin open /\ fd # -1
  BY DEF Free
<1>2. \A p \in Objects : sockfd_'[p] = IF p = o THEN fd ELSE sockfd_[p]
  BY DEF Inv, TypeOK
<1>3. TypeOK'
  BY <1>1 DEF Inv, TypeOK
<1>4. \A p \in alive : p \in Objects /\ p # o
  BY DEF Inv, TypeOK
<1>5. Held' = Held \cup {fd}
  BY <1>1, <1>2, <1>4 DEF Held
<1>6. \A p \in alive : sockfd_[p] # fd
  BY <1>1 DEF Inv, OneOwner, Held
<1>7. OneOwner'
  BY <1>1, <1>2, <1>4, <1>5, <1>6 DEF Inv, OneOwner
<1>8. QED
  BY <1>3, <1>7 DEF Inv

\* A socket left behind has no owner.
LEMMA LeaveKeeps ==
  ASSUME Inv, NEW fd \in Free, ReuseAddrFails(fd) \/ ConnectThrows(fd)
  PROVE  Inv'
<1> USE DEF ReuseAddrFails, ConnectThrows
<1>1. fd \in Descriptors /\ fd \notin open
  BY DEF Free
<1>2. TypeOK'
  BY <1>1 DEF Inv, TypeOK
<1>3. Held' = Held
  BY DEF Held
<1>4. OneOwner'
  BY <1>1, <1>3 DEF Inv, OneOwner
<1>5. QED
  BY <1>2, <1>4 DEF Inv

LEMMA MoveConstructKeeps ==
  ASSUME Inv, NEW to \in Objects, NEW from \in Objects,
         MoveConstruct(to, from)
  PROVE  Inv' /\ open' = open
<1> USE HandlesAssumption DEF MoveConstruct
<1>1. /\ to # from /\ from \in alive /\ to \notin alive
      /\ sockfd_[to] = -1
  BY DEF Inv, TypeOK
<1>2. \A p \in Objects : sockfd_'[p] = IF p = from THEN -1
                           ELSE IF p = to THEN sockfd_[from] ELSE sockfd_[p]
  BY <1>1 DEF Inv, TypeOK
<1>3. \A p \in alive : p \in Objects
  BY DEF Inv, TypeOK
<1>4. TypeOK'
  <2>1. sockfd_[from] \in Descriptors \cup {-1}
    BY DEF Inv, TypeOK
  <2>2. sockfd_' \in [Objects -> Descriptors \cup {-1}]
    BY <2>1 DEF Inv, TypeOK
  <2>3. \A o \in Objects \ alive' : sockfd_'[o] = -1
    BY <1>1, <1>2 DEF Inv, TypeOK
  <2>4. QED
    BY <2>2, <2>3 DEF Inv, TypeOK
<1>5. Held' = Held
  BY <1>1, <1>2, <1>3 DEF Held
<1>6. \A o, p \in alive' : sockfd_'[o] = sockfd_'[p] /\ o # p
                             => sockfd_'[o] = -1
  <2> SUFFICES ASSUME NEW o \in alive', NEW p \in alive', o # p,
                      sockfd_'[o] = sockfd_'[p]
               PROVE  sockfd_'[o] = -1
    OBVIOUS
  <2>0. /\ o \in Objects /\ p \in Objects
        /\ o \in alive \/ o = to
        /\ p \in alive \/ p = to
    BY <1>3
  <2>1. \A q \in alive : q # from /\ sockfd_[q] = sockfd_[from]
                            => sockfd_[q] = -1
    BY <1>1 DEF Inv, OneOwner
  <2>2. CASE o = from \/ p = from
    BY <1>2, <2>0, <2>2
  <2>3. CASE o # from /\ p # from
    <3>1. CASE o = to
      BY <1>1, <1>2, <2>0, <2>1, <2>3, <3>1
    <3>2. CASE p = to
      BY <1>1, <1>2, <2>0, <2>1, <2>3, <3>2
    <3>3. CASE o # to /\ p # to
      BY <1>2, <2>0, <2>3, <3>3 DEF Inv, OneOwner
    <3>4. QED
      BY <3>1, <3>2, <3>3
  <2>4. QED
    BY <2>2, <2>3
<1>7. OneOwner'
  BY <1>5, <1>6 DEF Inv, OneOwner
<1>8. QED
  BY <1>4, <1>7 DEF Inv

\* The two ways a socket is closed: its owner gives it up, and lives on with
\* what it takes from another object, if anything, or does not live on.
LEMMA MoveAssignKeeps ==
  ASSUME Inv, NEW to \in Objects, NEW from \in Objects,
         MoveAssign(to, from)
  PROVE  /\ Inv'
         /\ \A fd \in open \ open' : fd = sockfd_[to] /\ fd \notin Held'
<1> USE HandlesAssumption DEF MoveAssign
<1>1. {to, from} \subseteq alive
  OBVIOUS
<1>2. \A p \in Objects : sockfd_'[p] = IF p = from THEN -1
                           ELSE IF p = to THEN sockfd_[from] ELSE sockfd_[p]
  BY DEF Inv, TypeOK
<1>3. \A p \in alive : p \in Objects
  BY DEF Inv, TypeOK
<1>4. TypeOK'
  <2>1. sockfd_[from] \in Descriptors \cup {-1}
    BY DEF Inv, TypeOK
  <2>2. sockfd_' \in [Objects -> Descriptors \cup {-1}]
    BY <2>1 DEF Inv, TypeOK
  <2>3. \A o \in Objects \ alive' : sockfd_'[o] = -1
    BY <1>1, <1>2 DEF Inv, TypeOK
  <2>4. QED
    BY <2>2, <2>3 DEF Inv, TypeOK
<1>5. \A o, p \in alive :
        sockfd_[o] = sockfd_[p] /\ o # p => sockfd_[o] = -1
  BY DEF Inv, OneOwner
<1>6. Held' = Held \ {sockfd_[to]}
  <2>1. ASSUME NEW fd, fd # -1
        PROVE  (\E p \in alive : sockfd_'[p] = fd) <=>
                 /\ \E p \in alive : sockfd_[p] = fd
                 /\ fd # sockfd_[to]
    <3>1. ASSUME NEW p \in alive, sockfd_'[p] = fd
          PROVE  /\ \E q \in alive : sockfd_[q] = fd
                 /\ fd # sockfd_[to]
      <4>1. p # from
        BY <1>2, <1>3, <2>1, <3>1
      <4>2. CASE p = to
        <5>1. fd = sockfd_[from] /\ to # from
          BY <1>2, <1>3, <3>1, <4>1, <4>2
        <5>2. QED
          BY <1>1, <1>5, <2>1, <5>1
      <4>3. CASE p # to
        <5>1. fd = sockfd_[p]
          BY <1>2, <1>3, <3>1, <4>1, <4>3
        <5>2. QED
          BY <1>1, <1>5, <2>1, <4>3, <5>1
      <4>4. QED
        BY <4>2, <4>3
    <3>2. ASSUME NEW p \in alive, sockfd_[p] = fd, fd # sockfd_[to]
          PROVE  \E q \in alive : sockfd_'[q] = fd
      <4>1. p # to
        BY <3>2
      <4>2. CASE p = from
        BY <1>1, <1>2, <1>3, <3>2, <4>1, <4>2
      <4>3. CASE p # from
        BY <1>2, <1>3, <3>2, <4>1, <4>3
      <4>4. QED
        BY <4>2, <4>3
    <3>3. QED
      BY <3>1, <3>2
  <2>2. alive' = alive
    OBVIOUS
  <2>3. \A fd : fd \in Held' <=> fd \in Held /\ fd # sockfd_[to]
    <3> SUFFICES ASSUME NEW fd
                 PROVE  fd \in Held' <=> fd \in Held /\ fd # sockfd_[to]
      OBVIOUS
    <3>1. fd \in Held <=> fd # -1 /\ \E p \in alive : sockfd_[p] = fd
      BY DEF Held
    <3>2. fd \in Held' <=> fd # -1 /\ \E p \in alive : sockfd_'[p] = fd
      BY <2>2 DEF Held
    <3>3. QED
      BY <2>1, <3>1, <3>2, Zenon
  <2>4. QED
    BY <2>3
<1>7. OneOwner'
  <2>1. sockfd_[to] \notin left
    BY <1>1, <1>3 DEF Inv, OneOwner, TypeOK, Held
  <2>2. open' = Held' \cup left' /\ Held' \cap left' = {}
    BY <1>6, <2>1 DEF Inv, OneOwner
  <2>3. \A o, p \in alive : sockfd_'[o] = sockfd_'[p] /\ o # p
                              => sockfd_'[o] = -1
    <3> SUFFICES ASSUME NEW o \in alive, NEW p \in alive, o # p,
                        sockfd_'[o] = sockfd_'[p]
                 PROVE  sockfd_'[o] = -1
      OBVIOUS
    <3>0. from \in alive /\ o \in Objects /\ p \in Objects
      BY <1>1, <1>3
    <3>1. CASE o = from \/ p = from
      BY <1>2, <3>0, <3>1
    <3>2. CASE o # from /\ p # from
      <4>1. CASE o = to
        BY <1>2, <1>5, <3>0, <3>2, <4>1
      <4>2. CASE p = to
        BY <1>2, <1>5, <3>0, <3>2, <4>2
      <4>3. CASE o # to /\ p # to
        BY <1>2, <1>5, <3>0, <3>2, <4>3
      <4>4. QED
        BY <4>1, <4>2, <4>3
    <3>3. QED
      BY <3>1, <3>2
  <2>4. QED
    BY <2>2, <2>3 DEF OneOwner
<1>8. QED
  BY <1>4, <1>6, <1>7 DEF Inv

LEMMA CloseKeepsInv ==
  ASSUME Inv, NEW o \in Objects, Close(o) \/ Destroy(o)
  PROVE  /\ Inv'
         /\ \A fd \in open \ open' : fd = sockfd_[o] /\ fd \notin Held'
<1> USE HandlesAssumption DEF Close, Destroy
<1>1. \A p \in Objects : sockfd_'[p] = IF p = o THEN -1 ELSE sockfd_[p]
  BY DEF Inv, TypeOK
<1>2. \A p \in alive : p \in Objects
  BY DEF Inv, TypeOK
<1>3. o \in alive /\ alive' \in {alive, alive \ {o}}
  OBVIOUS
<1>4. TypeOK'
  <2>1. sockfd_' \in [Objects -> Descriptors \cup {-1}]
    BY DEF Inv, TypeOK
  <2>2. QED
    BY <1>1, <2>1 DEF Inv, TypeOK
<1>5. Held' = Held \ {sockfd_[o]}
  BY <1>1, <1>2, <1>3 DEF Inv, OneOwner, Held
<1>6. sockfd_[o] \notin left
  BY <1>2, <1>3 DEF Inv, OneOwner, TypeOK, Held
<1>7. OneOwner'
  BY <1>1, <1>2, <1>3, <1>5, <1>6 DEF Inv, OneOwner
<1>8. QED
  BY <1>4, <1>5, <1>7 DEF Inv

\* A step keeps the invariant, and closes what its object has given up.
LEMMA StepKeeps ==
  ASSUME Inv, [Next]_vars
  PROVE  /\ Inv'
         /\ \A fd \in open \ open' :
              \E o \in alive : sockfd_[o] = fd /\ fd \notin Held'
<1>1. CASE UNCHANGED vars
  BY <1>1 DEF vars, Inv, TypeOK, OneOwner, Held
<1>2. CASE \E o \in Objects \ alive, fd \in Free : Construct(o, fd)
  BY <1>2, ConstructKeeps DEF Construct
<1>3. CASE \E fd \in Free : ReuseAddrFails(fd) \/ ConnectThrows(fd)
  BY <1>3, LeaveKeeps DEF ReuseAddrFails, ConnectThrows
<1>4. CASE \E o, p \in Objects : MoveConstruct(o, p)
  BY <1>4, MoveConstructKeeps
<1>5. CASE \E o, p \in Objects : MoveAssign(o, p)
  BY <1>5, MoveAssignKeeps DEF MoveAssign
<1>6. CASE \E o \in Objects : Close(o) \/ Destroy(o)
  BY <1>6, CloseKeepsInv DEF Close, Destroy
<1>7. ASSUME Next
      PROVE  \/ UNCHANGED vars
             \/ \E o \in Objects \ alive, fd \in Free : Construct(o, fd)
             \/ \E fd \in Free : ReuseAddrFails(fd) \/ ConnectThrows(fd)
             \/ \E o, p \in Objects : MoveConstruct(o, p) \/ MoveAssign(o, p)
             \/ \E o \in Objects : Close(o) \/ Destroy(o)
  <2>1. Streams \subseteq Objects /\ Servers \subseteq Objects
    BY DEF Objects
  <2>2. QED
    BY <1>7, <2>1
    DEF Next, NewServer, NewStream, Accept, ConstructionFails
<1>8. QED
  BY <1>1, <1>2, <1>3, <1>4, <1>5, <1>6, <1>7

LEMMA InvHolds == Spec => []Inv
<1>1. ASSUME Init
      PROVE  Inv
  BY <1>1 DEF Init, Inv, TypeOK, OneOwner, Held
<1>2. QED
  BY <1>1, StepKeeps, PTL DEF Spec

\* Types, and an object that does not exist holds nothing.
THEOREM TypeCorrect == Spec => []TypeOK
<1>1. Inv => TypeOK
  BY DEF Inv
<1>2. QED
  BY <1>1, InvHolds, PTL

\* Each open socket has one owner, or was left behind, by the constructor of
\* TcpServer or by a Connect that threw.
THEOREM EachHasOneOwner == Spec => []OneOwner
<1>1. Inv => OneOwner
  BY DEF Inv
<1>2. QED
  BY <1>1, InvHolds, PTL

\* Only its owner closes a socket, and forgets it.
THEOREM OnlyOwnersClose == Spec => ClosedByOwner
<1>1. Inv /\ [Next]_vars =>
        [\A fd \in open \ open' :
           \E o \in alive : sockfd_[o] = fd /\ fd \notin Held']_vars
  BY StepKeeps
<1>2. QED
  BY <1>1, InvHolds, PTL DEF Spec, ClosedByOwner

-----------------------------------------------------------------------------
(***************************************************************************)
(* Resolver: it is neither copied nor moved                                *)
(***************************************************************************)

\* FreedOnce by the resolver, and what follows the lists not given out yet.
ListsInv ==
  /\ resolvers \subseteq Resolvers
  /\ ips_ \in [Resolvers -> Lists \cup {NoList}]
  /\ given \subseteq Lists /\ gathered \subseteq given
  /\ frees \in [Lists -> {0, 1}]
  /\ \A l \in Lists : frees[l] = 1 => l \in given
  /\ \A l \in given : frees[l] = 0 => \E r \in resolvers : ips_[r] = l
  /\ \A r \in resolvers : ips_[r] # NoList =>
       /\ ips_[r] \in given /\ frees[ips_[r]] = 0
       /\ \A q \in resolvers : ips_[q] = ips_[r] => q = r

\* FreedByHolder, of one step.
ByHolder ==
  \A l \in Lists : frees'[l] # frees[l] =>
    \E r \in resolvers : ips_[r] = l /\ r \notin Holders(l)'

\* What r holds is freed, and r holds no list or a new one, or is gone.
LEMMA FreeKeeps ==
  ASSUME ListsInv, NEW r \in resolvers, NEW l \in Lists \cup {NoList},
         l \notin given,
         frees' = [k \in Lists |->
                     IF k = ips_[r] THEN frees[k] + 1 ELSE frees[k]],
         ips_' = [ips_ EXCEPT ![r] = l],
         given' = given \cup ({l} \cap Lists),
         gathered' \subseteq given',
         resolvers' = resolvers \/ (l = NoList /\ resolvers' = resolvers \ {r})
  PROVE  ListsInv' /\ ByHolder
<1> USE ResolverAssumption
<1>1. /\ r \in Resolvers /\ resolvers \subseteq Resolvers
      /\ resolvers' \subseteq resolvers
  BY DEF ListsInv
<1>2. \A q \in Resolvers : ips_'[q] = IF q = r THEN l ELSE ips_[q]
  BY <1>1 DEF ListsInv
<1>3. \A k \in Lists : frees'[k] = IF k = ips_[r] THEN 1 ELSE frees[k]
  BY DEF ListsInv
<1>4. \A k \in Lists : frees[k] \in {0, 1}
  BY DEF ListsInv
<1>5. l \in Lists => frees[l] = 0 /\ l # ips_[r]
  BY <1>4 DEF ListsInv
<1>6. /\ resolvers' \subseteq Resolvers
      /\ ips_' \in [Resolvers -> Lists \cup {NoList}]
      /\ given' \subseteq Lists /\ gathered' \subseteq given'
  BY <1>1 DEF ListsInv
<1>7. frees' \in [Lists -> {0, 1}]
  <2>1. \A k \in Lists : frees'[k] \in {0, 1}
    BY <1>3, <1>4
  <2>2. frees' = [k \in Lists |-> frees'[k]]
    OBVIOUS
  <2>3. QED
    BY <2>1, <2>2
<1>8. \A k \in Lists : frees'[k] = 1 => k \in given'
  BY <1>3 DEF ListsInv
<1>9. \A k \in given' : frees'[k] = 0 => \E q \in resolvers' : ips_'[q] = k
  <2> SUFFICES ASSUME NEW k \in given', frees'[k] = 0
               PROVE  \E q \in resolvers' : ips_'[q] = k
    OBVIOUS
  <2>1. CASE k = l
    <3>1. l # NoList
      BY <1>6, <2>1
    <3>2. QED
      BY <1>1, <1>2, <2>1, <3>1
  <2>2. CASE k # l
    <3>1. k \in given /\ k # ips_[r] /\ frees[k] = 0
      BY <1>3, <1>4, <1>6, <2>2
    <3>2. PICK q \in resolvers : ips_[q] = k
      BY <3>1 DEF ListsInv
    <3>3. q # r
      BY <3>1, <3>2
    <3>4. QED
      BY <1>1, <1>2, <3>2, <3>3
  <2>3. QED
    BY <2>1, <2>2
<1>10. \A q \in resolvers' : ips_'[q] # NoList =>
         /\ ips_'[q] \in given' /\ frees'[ips_'[q]] = 0
         /\ \A p \in resolvers' : ips_'[p] = ips_'[q] => p = q
  <2> SUFFICES ASSUME NEW q \in resolvers', ips_'[q] # NoList
               PROVE  /\ ips_'[q] \in given' /\ frees'[ips_'[q]] = 0
                      /\ \A p \in resolvers' : ips_'[p] = ips_'[q] => p = q
    OBVIOUS
  <2>1. CASE q = r
    <3>1. ips_'[q] = l /\ l \in Lists
      BY <1>1, <1>2, <2>1
    <3>2. \A p \in resolvers' : p # r => ips_'[p] # l
      BY <1>1, <1>2, <3>1 DEF ListsInv
    <3>3. QED
      BY <1>3, <1>5, <2>1, <3>1, <3>2
  <2>2. CASE q # r
    <3>1. ips_'[q] = ips_[q] /\ q \in resolvers
      BY <1>1, <1>2, <2>2
    <3>2. ips_[q] \in given /\ frees[ips_[q]] = 0 /\ ips_[q] # ips_[r]
      BY <2>2, <3>1 DEF ListsInv
    <3>3. \A p \in resolvers' : ips_'[p] = ips_'[q] => p = q
      BY <1>1, <1>2, <3>1, <3>2 DEF ListsInv
    <3>4. QED
      BY <1>3, <3>1, <3>2, <3>3 DEF ListsInv
  <2>3. QED
    BY <2>1, <2>2
<1>11. \A k \in Lists : frees'[k] # frees[k] => k = ips_[r]
  BY <1>3
<1>12. ListsInv'
  BY <1>6, <1>7, <1>8, <1>9, <1>10 DEF ListsInv
<1>13. ASSUME NEW k \in Lists, frees'[k] # frees[k]
       PROVE  \E q \in resolvers : ips_[q] = k /\ q \notin Holders(k)'
  <2>1. k = ips_[r]
    BY <1>11, <1>13
  <2>2. ips_'[r] # k
    BY <1>1, <1>2, <1>5, <2>1
  <2>3. r \notin Holders(k)'
    BY <2>2 DEF Holders
  <2>4. QED
    BY <2>1, <2>3
<1>14. ByHolder
  BY <1>13 DEF ByHolder
<1>15. QED
  BY <1>12, <1>14

\* Every step keeps the invariant, and frees only what its resolver gives up.
LEMMA ResolverStepKeeps ==
  ASSUME ListsInv, [ResolverNext]_resolverVars
  PROVE  ListsInv' /\ ByHolder
<1> USE ResolverAssumption
<1>1. CASE UNCHANGED resolverVars
  BY <1>1 DEF resolverVars, ListsInv, ByHolder
<1>2. CASE Drop
  BY <1>2 DEF Drop, ListsInv, ByHolder
<1>3. ASSUME NEW r \in Resolvers, New(r)
      PROVE  ListsInv' /\ frees' = frees
  <2>1. \A q \in Resolvers : ips_'[q] = IF q = r THEN NoList ELSE ips_[q]
    BY <1>3 DEF New, ListsInv
  <2>2. ips_' \in [Resolvers -> Lists \cup {NoList}]
    BY <1>3 DEF New, ListsInv
  <2>3. QED
    BY <1>3, <2>1, <2>2 DEF New, ListsInv
<1>4. ASSUME NEW r \in Resolvers, Resolve(r)
      PROVE  ListsInv' /\ ByHolder
  <2>1. CASE ResolveFails(r)
    <3>1. /\ r \in resolvers /\ NoList \notin given
          /\ NoList \in Lists \cup {NoList}
          /\ \/ resolvers' = resolvers
             \/ NoList = NoList /\ resolvers' = resolvers \ {r}
      BY <1>4 DEF Resolve, ListsInv
    <3>2. /\ frees' = [k \in Lists |->
                         IF k = ips_[r] THEN frees[k] + 1 ELSE frees[k]]
          /\ ips_' = [ips_ EXCEPT ![r] = NoList]
      BY <2>1 DEF ResolveFails, FreeList
    <3>3. /\ given' = given \cup ({NoList} \cap Lists)
          /\ gathered' \subseteq given'
      BY <2>1 DEF ResolveFails, ListsInv
    <3>4. QED
      BY <3>1, <3>2, <3>3, FreeKeeps, Zenon
  <2>2. CASE \E l \in Lists \ given : Resolves(r, l)
    <3>1. PICK l \in Lists \ given : Resolves(r, l)
      BY <2>2
    <3>2. /\ r \in resolvers /\ l \notin given
          /\ l \in Lists \cup {NoList}
          /\ \/ resolvers' = resolvers
             \/ l = NoList /\ resolvers' = resolvers \ {r}
      BY <1>4 DEF Resolve
    <3>3. /\ frees' = [k \in Lists |->
                         IF k = ips_[r] THEN frees[k] + 1 ELSE frees[k]]
          /\ ips_' = [ips_ EXCEPT ![r] = l]
      BY <3>1 DEF Resolves, FreeList
    <3>4. /\ given' = given \cup ({l} \cap Lists)
          /\ gathered' \subseteq given'
      BY <3>1 DEF Resolves, ListsInv
    <3>5. QED
      BY <3>1, <3>2, <3>3, <3>4, FreeKeeps, Zenon
  <2>3. QED
    BY <1>4, <2>1, <2>2 DEF Resolve
<1>5. ASSUME NEW r \in Resolvers, CloseResolver(r) \/ DestroyResolver(r)
      PROVE  ListsInv' /\ ByHolder
  <2>1. /\ r \in resolvers /\ NoList \notin given
        /\ NoList \in Lists \cup {NoList}
        /\ \/ resolvers' = resolvers
           \/ NoList = NoList /\ resolvers' = resolvers \ {r}
    BY <1>5 DEF CloseResolver, DestroyResolver, ListsInv
  <2>2. /\ frees' = [k \in Lists |->
                       IF k = ips_[r] THEN frees[k] + 1 ELSE frees[k]]
        /\ ips_' = [ips_ EXCEPT ![r] = NoList]
    BY <1>5 DEF CloseResolver, DestroyResolver, FreeList
  <2>3. /\ given' = given \cup ({NoList} \cap Lists)
        /\ gathered' \subseteq given'
    BY <1>5 DEF CloseResolver, DestroyResolver, ListsInv
  <2>4. QED
    BY <2>1, <2>2, <2>3, FreeKeeps, Zenon
<1>6. QED
  BY <1>1, <1>2, <1>3, <1>4, <1>5 DEF ResolverNext, ByHolder

LEMMA ListsInvHolds == ResolverSpec => []ListsInv
<1>1. ASSUME ResolverInit
      PROVE  ListsInv
  BY <1>1, ResolverAssumption DEF ResolverInit, ListsInv
<1>2. QED
  BY <1>1, ResolverStepKeeps, PTL DEF ResolverSpec

\* Each list that was given out is held by one resolver, or has been freed
\* once.
THEOREM EachListFreedOnce == ResolverSpec => []FreedOnce
<1>1. ListsInv => FreedOnce
  <2> SUFFICES ASSUME ListsInv, NEW l \in given
               PROVE  \/ frees[l] = 0 /\ \E r \in resolvers : Holders(l) = {r}
                      \/ frees[l] = 1 /\ Holders(l) = {}
    BY DEF FreedOnce
  <2>1. l \in Lists /\ l # NoList /\ frees[l] \in {0, 1}
    BY ResolverAssumption DEF ListsInv
  <2>2. CASE frees[l] = 0
    <3>1. PICK r \in resolvers : ips_[r] = l
      BY <2>2 DEF ListsInv
    <3>2. \A q \in resolvers : ips_[q] = l => q = r
      BY <2>1, <3>1 DEF ListsInv
    <3>3. Holders(l) = {r}
      BY <3>1, <3>2 DEF Holders
    <3>4. QED
      BY <2>2, <3>3
  <2>3. CASE frees[l] = 1
    BY <2>1, <2>3 DEF ListsInv, Holders
  <2>4. QED
    BY <2>1, <2>2, <2>3
<1>2. QED
  BY <1>1, ListsInvHolds, PTL

\* A list is freed by the resolver that holds it, and by no other.
THEOREM HoldersFree == ResolverSpec => FreedByHolder
<1>1. ListsInv /\ [ResolverNext]_resolverVars =>
        [\A l \in Lists : frees'[l] # frees[l] =>
           \E r \in resolvers :
             ips_[r] = l /\ r \notin Holders(l)']_resolverVars
  BY ResolverStepKeeps DEF ByHolder
<1>2. QED
  BY <1>1, ListsInvHolds, PTL DEF ResolverSpec, FreedByHolder

-----------------------------------------------------------------------------
(***************************************************************************)
(* A program that uses both                                                *)
(***************************************************************************)

\* The program uses streams and servers as Handles describes, and resolvers
\* as Resolver does: needing addresses takes steps away and adds none.
THEOREM OwnersAreOwners == OwnersSpec => Spec /\ ResolverSpec
<1>1. OwnersInit => Init /\ ResolverInit
  BY DEF OwnersInit
<1>2. [OwnersNext]_ownersVars => [Next]_vars
  BY DEF OwnersNext, ownersVars, UseStreamsAndServers, UseResolvers, Next
<1>3. [OwnersNext]_ownersVars => [ResolverNext]_resolverVars
  BY DEF OwnersNext, ownersVars, UseStreamsAndServers, UseResolvers
<1>4. QED
  BY <1>1, <1>2, <1>3, PTL DEF OwnersSpec, Spec, ResolverSpec

\* Types, in the program as a whole.
THEOREM OwnersTypeCorrect == OwnersSpec => []OwnersTypeOK
<1>1. ListsInv => ResolverTypeOK
  BY DEF ListsInv, ResolverTypeOK
<1>2. TypeOK /\ ResolverTypeOK => OwnersTypeOK
  BY DEF OwnersTypeOK
<1>3. QED
  BY <1>1, <1>2, OwnersAreOwners, TypeCorrect, ListsInvHolds, PTL

\* In a program of both kinds of owner each open socket has one owner or has
\* been left behind, by TcpServer's constructor or by a Connect that threw;
\* each list is freed once; and each is given up by its owner only.
THEOREM OwnersKeep ==
  OwnersSpec => [](OneOwner /\ FreedOnce) /\ ClosedByOwner /\ FreedByHolder
BY OwnersAreOwners, EachHasOneOwner, EachListFreedOnce, OnlyOwnersClose,
   HoldersFree, PTL
=============================================================================
