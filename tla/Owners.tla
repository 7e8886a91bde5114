------------------------------- MODULE Owners -------------------------------
(***************************************************************************)
(* A program that uses both kinds of owner, as ProtoClient::Run and the    *)
(* servers of the tests do: it resolves, makes streams and servers with    *)
(* the addresses it has gathered, moves, closes and destroys them.         *)
(***************************************************************************)
EXTENDS Handles, Resolver

ownersVars == <<vars, resolverVars>>

\* addrs[0]: there is an address at hand, in a list that is still there.
\* Using another one is undefined; GatheredAreValid asks whether it is done.
HaveAddress == \E l \in gathered : frees[l] = 0

\* Connect, and TcpServer's constructor, are given an address; accept finds
\* its own.
UseStreamsAndServers ==
  /\ \/ /\ HaveAddress
        /\ \/ \E s \in Servers : NewServer(s)
           \/ \E t \in Streams : NewStream(t)
     \/ \E s \in Servers, t \in Streams : Accept(s, t)
     \/ \E o, p \in Objects : MoveConstruct(o, p) \/ MoveAssign(o, p)
     \/ \E o \in Objects : Close(o) \/ Destroy(o)
  /\ UNCHANGED resolverVars

UseResolvers == ResolverNext /\ UNCHANGED vars

OwnersInit == Init /\ ResolverInit

OwnersNext == UseStreamsAndServers \/ UseResolvers

OwnersSpec == OwnersInit /\ [][OwnersNext]_ownersVars

-----------------------------------------------------------------------------
\* Type invariant of the program: of the objects and descriptors, of the
\* resolvers and their lists.
OwnersTypeOK == TypeOK /\ ResolverTypeOK
=============================================================================
