---------------------------------- MODULE Hub ----------------------------------
(***************************************************************************)
(* The SSE hub and its connection limiter: hub/hub.go, hub/limiter.go.     *)
(*                                                                         *)
(* A client takes a channel of BufferSize messages from the hub, which     *)
(* counts channels in all and by address.  The test before the hub's lock  *)
(* (CanConnect) and the registration under it (Subscribe) are operators of *)
(* their own, because another client may come between them.  A component   *)
(* that serves clients extends this module and decides when they run.      *)
(***************************************************************************)
EXTENDS Naturals, Sequences, FiniteSets

CONSTANTS
    Clients,     \* event stream requests, one channel each
    Addresses,   \* client IP addresses
    AddressOf,   \* the address of each client
    MaxPerIP, MaxTotal,
    BufferSize   \* capacity of a channel

ASSUME HubAssumption ==
    /\ IsFiniteSet(Clients)
    /\ AddressOf \in [Clients -> Addresses]
    /\ {MaxPerIP, MaxTotal, BufferSize} \subseteq Nat \ {0}

VARIABLES
    clients,   \* clients whose channel is registered
    channel,   \* what each channel holds
    perIP,     \* limiter: connections by address
    total,     \* limiter: connections
    dropped    \* history: what each client's full channel could not take

hubVars == <<clients, channel, perIP, total, dropped>>

HubInit ==
    /\ clients = {}
    /\ channel = [c \in Clients |-> <<>>]
    /\ perIP = [a \in Addresses |-> 0]
    /\ total = 0
    /\ dropped = [c \in Clients |-> {}]

\* The first look at the limits, with no lock that lasts.
CanConnect(c) == total < MaxTotal /\ perIP[AddressOf[c]] < MaxPerIP

\* Mutant: the limits are only looked at before the lock.
AddConnectionUnchecked(a) ==
    /\ perIP' = [perIP EXCEPT ![a] = @ + 1]
    /\ total' = total + 1

\* The limiter's own test and count, under the hub's lock.
AddConnection(a) ==
    /\ total < MaxTotal
    /\ perIP[a] < MaxPerIP
    /\ perIP' = [perIP EXCEPT ![a] = @ + 1]
    /\ total' = total + 1

RemoveConnection(a) ==
    IF perIP[a] > 0
    THEN /\ perIP' = [perIP EXCEPT ![a] = @ - 1]
         /\ total' = total - 1
    ELSE UNCHANGED <<perIP, total>>

Subscribe(c) ==
    /\ AddConnection(AddressOf[c])
    /\ clients' = clients \union {c}
    /\ channel' = [channel EXCEPT ![c] = <<>>]
    /\ UNCHANGED dropped

\* Forgets the channel; the history of a client that left is forgotten with it.
Unsubscribe(c) ==
    /\ c \in clients
    /\ RemoveConnection(AddressOf[c])
    /\ clients' = clients \ {c}
    /\ channel' = [channel EXCEPT ![c] = <<>>]
    /\ dropped' = [dropped EXCEPT ![c] = {}]

\* Every channel with room takes the message; a slow client loses it.
Broadcast(m) ==
    LET full == {c \in clients : Len(channel[c]) >= BufferSize}
    IN  /\ channel' = [c \in Clients |-> IF c \in clients \ full
                                         THEN Append(channel[c], m) ELSE channel[c]]
        /\ dropped' = [c \in Clients |-> IF c \in full
                                         THEN dropped[c] \union {m} ELSE dropped[c]]
        /\ UNCHANGED <<clients, perIP, total>>

\* The client's handler takes the oldest message.
Receive(c) ==
    /\ c \in clients
    /\ channel[c] # <<>>
    /\ channel' = [channel EXCEPT ![c] = Tail(@)]
    /\ UNCHANGED <<clients, perIP, total, dropped>>

At(a) == {c \in clients : AddressOf[c] = a}

\* The limiter's counts, kept apart from the channels under another lock, are
\* those of the registered channels, and neither limit is exceeded, although a
\* client is admitted on a count that may be old.
LimitsKept ==
    /\ total = Cardinality(clients)
    /\ \A a \in Addresses : perIP[a] = Cardinality(At(a)) /\ perIP[a] <= MaxPerIP
    /\ total <= MaxTotal
================================================================================
