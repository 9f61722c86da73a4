------------------------------- MODULE HubProofs -------------------------------
(***************************************************************************)
(* Lemmas about the operations of the hub: each keeps the limiter's counts *)
(* equal to the numbers of registered clients.  A count can only go wrong  *)
(* if a client is registered twice.                                        *)
(***************************************************************************)
EXTENDS Hub, FiniteSetTheorems, TLAPS

HubOK ==
    /\ clients \in SUBSET Clients
    /\ perIP \in [Addresses -> Nat]
    /\ total \in Nat

LEMMA RegisteredFinite ==
    ASSUME clients \in SUBSET Clients
    PROVE  IsFiniteSet(clients) /\ \A a \in Addresses : IsFiniteSet(At(a))
<1>1. IsFiniteSet(clients)
  BY HubAssumption, FS_Subset
<1>2. ASSUME NEW a \in Addresses PROVE IsFiniteSet(At(a))
  BY <1>1, FS_Subset DEF At
<1> QED BY <1>1, <1>2

\* A client that is not registered takes one connection of its address and one in all.
LEMMA SubscribeLimits ==
    ASSUME HubOK, LimitsKept, NEW c \in Clients, c \notin clients, Subscribe(c)
    PROVE  HubOK' /\ LimitsKept'
<1> DEFINE ip == AddressOf[c]
<1> ip \in Addresses
  BY HubAssumption
<1> USE DEF Subscribe, AddConnection
<1>1. HubOK'
  BY DEF HubOK
<1>2. total' = Cardinality(clients') /\ total' <= MaxTotal
  <2>1. Cardinality(clients \union {c}) = Cardinality(clients) + 1
    BY RegisteredFinite, FS_AddElement DEF HubOK
  <2> QED BY <2>1, HubAssumption DEF HubOK, LimitsKept
<1>3. ASSUME NEW a \in Addresses PROVE perIP'[a] = Cardinality(At(a)') /\ perIP'[a] <= MaxPerIP
  <2>1. CASE a = ip
    <3>1. At(a)' = At(a) \union {c} /\ c \notin At(a)
      BY <2>1 DEF At
    <3>2. Cardinality(At(a) \union {c}) = Cardinality(At(a)) + 1
      BY <3>1, RegisteredFinite, FS_AddElement DEF HubOK
    <3>3. perIP'[a] = perIP[a] + 1 /\ perIP[a] < MaxPerIP /\ perIP[a] \in Nat
      BY <2>1 DEF HubOK
    <3> QED BY <3>1, <3>2, <3>3, HubAssumption DEF LimitsKept
  <2>2. CASE a # ip
    <3>1. At(a)' = At(a)
      BY <2>2 DEF At
    <3> QED BY <2>2, <3>1 DEF HubOK, LimitsKept
  <2> QED BY <2>1, <2>2
<1> QED BY <1>1, <1>2, <1>3 DEF LimitsKept

LEMMA UnsubscribeLimits ==
    ASSUME HubOK, LimitsKept, NEW c \in Clients, Unsubscribe(c)
    PROVE  HubOK' /\ LimitsKept'
<1> DEFINE ip == AddressOf[c]
<1> ip \in Addresses
  BY HubAssumption
<1>1. IsFiniteSet(clients) /\ \A a \in Addresses : IsFiniteSet(At(a))
  BY RegisteredFinite DEF HubOK
<1>2. c \in clients /\ c \in At(ip) /\ clients' = clients \ {c}
  BY DEF Unsubscribe, At
<1>3. perIP[ip] \in Nat /\ perIP[ip] > 0
  <2>1. perIP[ip] = Cardinality(At(ip))
    BY DEF LimitsKept
  <2>2. Cardinality(At(ip)) # 0
    BY <1>1, <1>2, FS_EmptySet
  <2> QED BY <2>1, <2>2 DEF HubOK
<1>4. perIP' = [perIP EXCEPT ![ip] = @ - 1] /\ total' = total - 1
  BY <1>3 DEF Unsubscribe, RemoveConnection
<1>5. total' = Cardinality(clients') /\ total \in Nat \ {0} /\ total' <= MaxTotal
  <2>1. Cardinality(clients \ {c}) = Cardinality(clients) - 1
    BY <1>1, <1>2, FS_RemoveElement
  <2>2. Cardinality(clients) # 0
    BY <1>1, <1>2, FS_EmptySet
  <2> QED BY <1>2, <1>4, <2>1, <2>2, HubAssumption DEF HubOK, LimitsKept
<1>6. HubOK'
  BY <1>2, <1>3, <1>4, <1>5 DEF HubOK
<1>7. ASSUME NEW a \in Addresses PROVE perIP'[a] = Cardinality(At(a)') /\ perIP'[a] <= MaxPerIP
  <2>1. CASE a = ip
    <3>1. At(a)' = At(a) \ {c}
      BY <1>2 DEF At
    <3>2. Cardinality(At(a) \ {c}) = Cardinality(At(a)) - 1
      BY <1>1, <1>2, <2>1, FS_RemoveElement
    <3>3. perIP'[a] = perIP[a] - 1
      BY <1>4, <2>1 DEF HubOK
    <3> QED BY <1>3, <2>1, <3>1, <3>2, <3>3, HubAssumption DEF LimitsKept
  <2>2. CASE a # ip
    <3>1. At(a)' = At(a)
      BY <1>2, <2>2 DEF At
    <3> QED BY <1>4, <2>2, <3>1 DEF HubOK, LimitsKept
  <2> QED BY <2>1, <2>2
<1> QED BY <1>5, <1>6, <1>7 DEF LimitsKept

LEMMA NobodyLimits ==
    ASSUME clients = {}, total = 0, perIP = [a \in Addresses |-> 0]
    PROVE  HubOK /\ LimitsKept
<1>1. \A a \in Addresses : At(a) = {}
  BY DEF At
<1> QED BY <1>1, FS_EmptySet, HubAssumption DEF HubOK, LimitsKept

LEMMA SameLimits ==
    ASSUME HubOK, LimitsKept, UNCHANGED <<clients, perIP, total>>
    PROVE  HubOK' /\ LimitsKept'
<1>1. \A a \in Addresses : At(a)' = At(a)
  BY DEF At
<1> QED BY <1>1 DEF HubOK, LimitsKept
================================================================================
