---------------------------- MODULE ClientsView ----------------------------
(***************************************************************************)
(* The table of connected clients on the home page                          *)
(* (frontend/src/components/ClientsTable.tsx, network/mxhttp.cpp): the        *)
(* connections of each address, listed once when the table is shown and      *)
(* kept by the events of connections that are opened and closed, to which    *)
(* the table subscribes before it asks for the list, and once more after.    *)
(***************************************************************************)
EXTENDS PageCalls

CONSTANTS
  Addresses,       (* addresses of clients                                  *)
  MaxConnections   (* bound: connections, the page's own, number 1, included *)

ASSUME ClientsAssumption == MaxConnections \in Nat \ {0}

VARIABLES
  connections,     (* _active_clients_info: connection -> address           *)
  identifiers,     (* connections numbered so far                           *)
  following,       (* the events the page has subscribed to                 *)
  clients,         (* address -> the connections shown                      *)
  escaped          (* history: connections closed between the subscriptions *)

vars_n == <<connections, identifiers, following, clients, escaped>>

ClientsInit ==
  /\ \E a \in Addresses : connections = [c \in {1} |-> a]
  /\ identifiers = 1 /\ following = {} /\ clients = <<>> /\ escaped = {}

WatchClients == <<[what |-> "follow", e |-> "newclient"], [what |-> "follow", e |-> "delclient"]>>
ClientsCalls == WatchClients \o <<[what |-> "clients"]>> \o WatchClients

Emit(e) == IF e.what \in following THEN Tell(e) ELSE UNCHANGED down

ClientOpens ==
  /\ Unhurried /\ identifiers < MaxConnections
  /\ \E a \in Addresses :
       /\ connections' = With(connections, identifiers + 1, a)
       /\ Emit([what |-> "newclient", id |-> identifiers + 1, ip |-> a])
  /\ identifiers' = identifiers + 1
  /\ UNCHANGED <<up, following, clients, escaped>>

ClientCloses ==
  /\ Unhurried
  /\ \E c \in DOMAIN connections \ {1} :
       /\ connections' = Without(connections, c)
       /\ Emit([what |-> "delclient", id |-> c])
       /\ escaped' = IF following = {"newclient"} THEN escaped \cup {c} ELSE escaped
  /\ UNCHANGED <<up, identifiers, following, clients>>

ServeFollow ==
  /\ Serving("follow")
  /\ following' = following \cup {Head(up).e}
  /\ up' = Tail(up)
  /\ UNCHANGED <<down, connections, identifiers, clients, escaped>>

HttpGetClients ==
  /\ Serving("clients")
  /\ Serve([what |-> "clients", cs |-> connections])
  /\ UNCHANGED vars_n

(* addClient                                                                *)
AddClient(shown, id, ip) ==
  IF ip \in DOMAIN shown THEN [shown EXCEPT ![ip] = @ \cup {id}]
  ELSE With(shown, ip, {id})

(* removeClient: what is not shown is not expected.                         *)
AddressesOf(shown, id) == {ip \in DOMAIN shown : id \in shown[ip]}
(* Fault: the address goes with any of its connections (ClientsRight).      *)
DropsAddress(shown, ip, id) == Without(shown, ip)
RemoveFrom(shown, ip, id) ==
  IF Cardinality(shown[ip]) > 1 THEN [shown EXCEPT ![ip] = @ \ {id}]
  ELSE Without(shown, ip)
RemoveClient(shown, id) ==
  IF Cardinality(AddressesOf(shown, id)) = 1
  THEN RemoveFrom(shown, CHOOSE ip \in AddressesOf(shown, id) : TRUE, id)
  ELSE shown

ClientListArrives ==
  LET cs == Head(down).cs
      Shown == Range(cs)
  IN /\ Getting("clients") /\ Got
     /\ clients' = [ip \in Shown |-> {c \in DOMAIN cs : cs[c] = ip}]
     /\ UNCHANGED <<up, connections, identifiers, following, escaped>>

ClientEventArrives ==
  LET m == Head(down)
  IN /\ \/ Getting("newclient") /\ clients' = AddClient(clients, m.id, m.ip)
        \/ Getting("delclient") /\ clients' = RemoveClient(clients, m.id)
     /\ Got
     /\ UNCHANGED <<up, connections, identifiers, following, escaped>>

ClientsNext ==
  \/ ClientOpens \/ ClientCloses \/ ServeFollow \/ HttpGetClients
  \/ ClientListArrives \/ ClientEventArrives

------------------------------------------------------------------------------
ClientsViewTypeOK ==
  /\ identifiers \in 1 .. MaxConnections /\ DOMAIN connections \subseteq 1 .. identifiers
  /\ Range(connections) \subseteq Addresses /\ following \subseteq {"newclient", "delclient"}
  /\ DOMAIN clients \subseteq Addresses
  /\ \A ip \in DOMAIN clients : clients[ip] \subseteq 1 .. identifiers
  /\ escaped \subseteq 1 .. identifiers

(* Once nothing is under way the table shows the connections there are, each *)
(* under its address, and no address without one: the subscriptions are made *)
(* before the list is asked for, and an event that comes after a list that   *)
(* knows of it changes nothing for good.  Only a connection that was closed  *)
(* between the two subscriptions may stay, if the list overtook the event    *)
(* that it was opened.                                                       *)
ClientsRight ==
  LET real(ip) == {c \in DOMAIN connections : connections[c] = ip}
      shown(ip) == IF ip \in DOMAIN clients THEN clients[ip] ELSE {}
  IN Quiet("clients") =>
       \A ip \in Addresses : /\ shown(ip) \ escaped = real(ip)
                             /\ ip \in DOMAIN clients => clients[ip] # {}
=============================================================================
