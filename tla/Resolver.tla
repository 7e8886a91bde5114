------------------------------ MODULE Resolver ------------------------------
(***************************************************************************)
(* Resolver (resolver.cpp) as the owner of the list getaddrinfo gives it.  *)
(* The addresses that Resolve returns point into that list, and a caller   *)
(* gathers them in a vector, as the tests and ProtoClient::Run do.  A list *)
(* is never given out twice, so a second freeaddrinfo shows.               *)
(***************************************************************************)
EXTENDS Naturals

CONSTANTS Resolvers,   \* bound: the objects there may be
          Lists,       \* bound: the lists getaddrinfo can give
          NoList       \* nullptr

ASSUME ResolverAssumption == NoList \notin Lists

VARIABLES resolvers,   \* the resolvers that exist
          ips_,        \* the list each holds
          given,       \* the lists given out so far
          frees,       \* how often each has been freed
          gathered     \* the lists the caller's addresses point into

resolverVars == <<resolvers, ips_, given, frees, gathered>>

ResolverInit ==
  /\ resolvers = {} /\ given = {} /\ gathered = {}
  /\ ips_ = [r \in Resolvers |-> NoList]
  /\ frees = [l \in Lists |-> 0]

New(r) ==
  /\ r \in Resolvers \ resolvers
  /\ resolvers' = resolvers \cup {r}
  /\ ips_' = [ips_ EXCEPT ![r] = NoList]
  /\ UNCHANGED <<given, frees, gathered>>

\* freeaddrinfo(ips_), if there is one; the caller sets ips_.
FreeList(r) ==
  frees' = [l \in Lists |-> IF l = ips_[r] THEN frees[l] + 1 ELSE frees[l]]

\* getaddrinfo fails: the old list is gone and there is no new one.
ResolveFails(r) ==
  /\ FreeList(r)
  /\ ips_' = [ips_ EXCEPT ![r] = NoList]
  /\ UNCHANGED <<given, gathered>>

\* Mutant: the former list is not closed.
ResolvesKeeping(r, l) ==
  /\ UNCHANGED frees
  /\ ips_' = [ips_ EXCEPT ![r] = l]
  /\ given' = given \cup {l}
  /\ gathered' \in {gathered, gathered \cup {l}}

\* A new list; the caller keeps its addresses, or there are none to keep.
Resolves(r, l) ==
  /\ FreeList(r)
  /\ ips_' = [ips_ EXCEPT ![r] = l]
  /\ given' = given \cup {l}
  /\ gathered' \in {gathered, gathered \cup {l}}

Resolve(r) ==
  /\ r \in resolvers
  /\ ResolveFails(r) \/ \E l \in Lists \ given : Resolves(r, l)
  /\ UNCHANGED resolvers

\* Whoever closes a resolver, or lets it go, has no more use for what it
\* resolved last.
CloseResolver(r) ==
  /\ r \in resolvers
  /\ FreeList(r)
  /\ ips_' = [ips_ EXCEPT ![r] = NoList]
  /\ gathered' = gathered \ {ips_[r]}
  /\ UNCHANGED <<resolvers, given>>

DestroyResolver(r) ==
  /\ r \in resolvers
  /\ FreeList(r)
  /\ ips_' = [ips_ EXCEPT ![r] = NoList]
  /\ gathered' = gathered \ {ips_[r]}
  /\ resolvers' = resolvers \ {r}
  /\ UNCHANGED given

\* The vector goes out of scope.
Drop == gathered' = {} /\ UNCHANGED <<resolvers, ips_, given, frees>>

ResolverNext ==
  \/ \E r \in Resolvers :
       New(r) \/ Resolve(r) \/ CloseResolver(r) \/ DestroyResolver(r)
  \/ Drop

ResolverSpec == ResolverInit /\ [][ResolverNext]_resolverVars

-----------------------------------------------------------------------------
(***************************************************************************)
(* Properties                                                              *)
(***************************************************************************)
Holders(l) == {r \in resolvers : ips_[r] = l}

\* Type invariant of the resolvers, of the lists, and of what the caller has.
ResolverTypeOK ==
  /\ resolvers \subseteq Resolvers
  /\ ips_ \in [Resolvers -> Lists \cup {NoList}]
  /\ given \subseteq Lists /\ gathered \subseteq given
  /\ frees \in [Lists -> Nat]

\* Over any sequence of calls, failed ones and destructions, a list that was
\* given out is either held, by one resolver that will free it, or has been
\* freed, once.
FreedOnce ==
  \A l \in given :
    \/ frees[l] = 0 /\ \E r \in resolvers : Holders(l) = {r}
    \/ frees[l] = 1 /\ Holders(l) = {}

\* An address is good until the resolver it came from resolves again, is
\* closed or is destroyed: nothing else frees its list, in particular no
\* other resolver.
FreedByHolder ==
  [][\A l \in Lists : frees'[l] # frees[l] =>
       \E r \in resolvers : ips_[r] = l /\ r \notin Holders(l)']_resolverVars

-----------------------------------------------------------------------------
\* "ensure try multiple addresses" (test.cpp) hands Run the addresses of two
\* calls of Resolve on one resolver: while nobody closes a resolver, what it
\* returned may be used.
GatheredAreValid == \A l \in gathered : frees[l] = 0
=============================================================================
