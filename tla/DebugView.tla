----------------------------- MODULE DebugView -----------------------------
(***************************************************************************)
(* The debug page (frontend/src/Debug.tsx with lib/rmap.ts, lib/rdb.ts and   *)
(* network/rpc.cpp): the calls each client made and each method got, polled    *)
(* by a timer that does not wait for the poll before, and the dumps of the   *)
(* messages and of the realtime database, behind a popup that has no button. *)
(* Of an alias only matters whether there is a name; uptime, the frequency   *)
(* of calls and the number of messages are left out.                         *)
(***************************************************************************)
EXTENDS PageCalls

CONSTANTS
  RpcClients, RpcMethods,   (* ids, numbers                                 *)
  MaxRpcCalls,   (* bound: calls that backends make                         *)
  MaxRefreshes,  (* bound: polls                                            *)
  DumpKeys,      (* keys of the realtime database, numbers                  *)
  DumpTypes,     (* types of values                                         *)
  KeysAtFirst,   (* the keys before any changes: key -> type                *)
  NoneType,      (* of a key that does not exist                            *)
  MaxDumpChanges, MaxDumps,  (* bounds: changes of keys, dumps              *)
  MaxDebugActs   (* bound: all of these together                            *)

VARIABLES
  (* the server                                                             *)
  statistics,    (* _rpc_statistics: <<client, method>> -> calls            *)
  registered,    (* clients that have a name key                            *)
  dumpdb,        (* key -> type and value                                   *)
  (* the page                                                               *)
  methodNames,   (* whether they are known                                  *)
  clientAlias, clientCalls, methodCalls,   (* createMapStore                *)
  methodTotals,
  downloading,   (* what the popup says, or ''                              *)
  dumped,        (* entries of the last dump                                *)
  refreshes, dumps, dumpchanges,
  (* history                                                                *)
  lastpoll,      (* the statistics that the last poll served got             *)
  crossing,      (* a poll was begun while another was under way            *)
  touched        (* keys that changed since the last dump was begun         *)

server_d == <<statistics, registered, dumpdb, dumpchanges, lastpoll>>
counts_d == <<clientAlias, clientCalls, methodCalls, methodTotals>>
dump_d == <<downloading, dumped, dumps>>
vars_d == <<server_d, methodNames, counts_d, dump_d, refreshes, crossing, touched>>

DebugInit ==
  /\ statistics = <<>> /\ registered = {} /\ lastpoll = <<>>
  /\ dumpdb = [k \in DOMAIN KeysAtFirst |-> [type |-> KeysAtFirst[k], n |-> 0]] /\ dumpchanges = 0
  /\ methodNames = FALSE
  /\ clientAlias = <<>> /\ clientCalls = <<>> /\ methodCalls = <<>>
  /\ methodTotals = 0
  /\ downloading = "" /\ dumped = <<>> /\ dumps = 0
  /\ refreshes = 0 /\ crossing = FALSE /\ touched = {}
DebugCalls == <<[what |-> "methods"]>>

------------------------------------------------------------------------------
(* createMapStore                                                           *)
MapAdd(store, k, v) == IF k \notin DOMAIN store THEN store @@ (k :> v) ELSE store
MapModify(store, k, v) == IF k \in DOMAIN store THEN [store EXCEPT ![k] = v] ELSE store

Ascending(S) == SetToSortSeq(S, LAMBDA x, y : x < y)
Sum(f) == FoldFunction(LAMBDA x, y : x + y, 0, f)

DebugMayAct == Sum(statistics) + refreshes + dumps + dumpchanges < MaxDebugActs
ClientsOf(data) == {p[1] : p \in DOMAIN data}
MethodsOf(data) == {p[2] : p \in DOMAIN data}
CallsOfClient(data, c) == Sum(Restrict(data, {p \in DOMAIN data : p[1] = c}))
CallsOfMethod(data, m) == Sum(Restrict(data, {p \in DOMAIN data : p[2] = m}))

------------------------------------------------------------------------------
(* RpcAccumulateCallStatistics, for a call of a backend; its name is a key   *)
(* once it has registered.                                                  *)
BackendCalls(c, m) ==
  /\ Unhurried /\ Sum(statistics) < MaxRpcCalls /\ DebugMayAct
  /\ statistics' = IF <<c, m>> \in DOMAIN statistics THEN [statistics EXCEPT ![<<c, m>>] = @ + 1]
                   ELSE statistics @@ (<<c, m>> :> 1)
  /\ \/ registered' = registered \cup {c}
     \/ registered' = registered
  /\ UNCHANGED <<calls, dumpdb, dumpchanges, lastpoll, methodNames, counts_d, dump_d, refreshes, crossing, touched>>

(* RpcGetAllCalls, RpcGetCallsDebugData, and RdbValueExists and              *)
(* RdbReadValueDirect of a client's name                                    *)
ServeDebug ==
  LET m == Head(up)
  IN /\ \/ Serving("methods") /\ Serve(m) /\ UNCHANGED lastpoll
        \/ Serving("data") /\ Serve(m @@ [data |-> statistics]) /\ lastpoll' = statistics
        \/ Serving("exists") /\ Serve([m EXCEPT !.there = Head(m.todo) \in registered]) /\ UNCHANGED lastpoll
        \/ Serving("alias") /\ Serve(m) /\ UNCHANGED lastpoll
     /\ UNCHANGED <<statistics, registered, dumpdb, dumpchanges, methodNames, counts_d, dump_d, refreshes,
                    crossing, touched>>

(* A poll in the middle: calls and answers of one                            *)
Polling == Flowing({"data", "exists", "alias"})

(* onMount: the first poll waits for the names, the timer does not.         *)
MethodNamesArrive ==
  /\ Getting("methods") /\ Got
  /\ methodNames' = TRUE
  /\ Ask(<<[what |-> "data"]>>) /\ crossing' = (crossing \/ Polling)
  /\ UNCHANGED <<server_d, counts_d, dump_d, refreshes, touched>>

PollTimer ==
  /\ Calm /\ refreshes < MaxRefreshes /\ DebugMayAct /\ refreshes' = refreshes + 1
  /\ Ask(<<[what |-> "data"]>>) /\ crossing' = (crossing \/ Polling)
  /\ UNCHANGED <<down, server_d, methodNames, counts_d, dump_d, touched>>

(* The rest of getRpcCallsDebugInfo, when every client is known             *)
CountMethods(data) ==
  LET counted == [m \in DOMAIN methodCalls \cup MethodsOf(data) |->
                    IF m \in MethodsOf(data) THEN CallsOfMethod(data, m) ELSE methodCalls[m]]
  IN /\ methodCalls' = counted
     /\ methodTotals' = Sum(counted)

(* The loop over the clients runs until one is not known: its calls are      *)
(* counted when its name is known (todo: clients from here on).              *)
CountClients(store, data, todo) ==
  LET new == {i \in DOMAIN todo : todo[i] \notin DOMAIN store}
      upto == IF new = {} THEN Len(todo) ELSE CHOOSE i \in new : \A j \in new : i <= j
      now == {todo[i] : i \in 1 .. (IF new = {} THEN upto ELSE upto - 1)}
      counted == [c \in DOMAIN store |-> IF c \in now THEN MapModify(store, c, CallsOfClient(data, c))[c] ELSE store[c]]
  IN IF new = {}
     THEN clientCalls' = counted /\ UNCHANGED up /\ CountMethods(data)
     ELSE /\ clientCalls' = MapAdd(counted, todo[upto], 0)
          /\ Ask(<<[what |-> "exists", data |-> data, todo |-> SubSeq(todo, upto, Len(todo)), there |-> FALSE]>>)
          /\ UNCHANGED <<methodCalls, methodTotals>>

StatisticsArrive ==
  LET data == Head(down).data
  IN /\ Getting("data") /\ Got
     /\ CountClients(clientCalls, data, Ascending(ClientsOf(data)))
     /\ UNCHANGED <<server_d, methodNames, clientAlias, dump_d, refreshes, crossing, touched>>

Ghost == 0
Name == 1

AliasGhost(c) == clientAlias' = MapAdd(clientAlias, c, Ghost)

CountsNow(m) == MapModify(clientCalls, Head(m.todo), CallsOfClient(m.data, Head(m.todo)))

ExistsArrives ==
  LET m == Head(down)
  IN /\ Getting("exists") /\ Got
     /\ IF m.there
        THEN /\ Ask(<<[m EXCEPT !.what = "alias"]>>)
             /\ UNCHANGED counts_d
        ELSE /\ AliasGhost(Head(m.todo))
             /\ CountClients(CountsNow(m), m.data, Tail(m.todo))
     /\ UNCHANGED <<server_d, methodNames, dump_d, refreshes, crossing, touched>>

AliasArrives ==
  LET m == Head(down)
  IN /\ Getting("alias") /\ Got
     /\ clientAlias' = MapAdd(clientAlias, Head(m.todo), Name)
     /\ CountClients(CountsNow(m), m.data, Tail(m.todo))
     /\ UNCHANGED <<server_d, methodNames, dump_d, refreshes, crossing, touched>>

------------------------------------------------------------------------------
(* downloadLastLogs and dumpRdbKeys: the popup keeps the buttons away.       *)
Downloads(what, says) ==
  /\ Calm /\ dumps < MaxDumps /\ DebugMayAct /\ downloading = "" /\ dumps' = dumps + 1
  /\ downloading' = says /\ Ask(<<what>>) /\ touched' = {}
  /\ UNCHANGED <<down, server_d, methodNames, counts_d, dumped, refreshes, crossing>>

DownloadLastLogs == Downloads([what |-> "logs"], "Downloading...")
DumpRdbKeys == Downloads([what |-> "listkeys"], "Downloading keys...")

OthersChangeKeys(k) ==
  /\ Unhurried /\ dumpchanges < MaxDumpChanges /\ DebugMayAct /\ dumpchanges' = dumpchanges + 1
  /\ IF k \notin DOMAIN dumpdb THEN \E t \in DumpTypes : dumpdb' = dumpdb @@ (k :> [type |-> t, n |-> dumpchanges + 1])
     ELSE \/ dumpdb' = [dumpdb EXCEPT ![k].n = dumpchanges + 1]
          \/ dumpdb' = Restrict(dumpdb, DOMAIN dumpdb \ {k})
  /\ touched' = touched \cup {k}
  /\ UNCHANGED <<calls, statistics, registered, lastpoll, methodNames, counts_d, dump_d, refreshes, crossing>>

TypeOf(k) == IF k \in DOMAIN dumpdb THEN dumpdb[k].type ELSE NoneType

(* MsgGetLastLogs, RdbListKeys; for each key RdbReadKeyMetadata, and what    *)
(* MxRdb's read asks: RdbGetKeyType and RdbReadValueDirect                  *)
ServeDumps ==
  LET m == Head(up)
  IN /\ \/ Serving("logs") /\ Serve(m)
        \/ Serving("listkeys") /\ Serve(m @@ [keys |-> Ascending(DOMAIN dumpdb)])
        \/ Serving("meta") /\ Serve([m EXCEPT !.type = TypeOf(Head(m.todo))])
        \/ Serving("keytype") /\ Serve([m EXCEPT !.types = MapAdd(@, Head(m.todo), TypeOf(Head(m.todo)))])
        \/ /\ Serving("value")
           /\ Serve([m EXCEPT !.n = IF Head(m.todo) \in DOMAIN dumpdb THEN dumpdb[Head(m.todo)].n ELSE 0])
     /\ UNCHANGED vars_d

Saved(out) == dumped' = out /\ downloading' = ""

LogsDownloaded ==
  /\ Getting("logs") /\ Got
  /\ downloading' = ""
  /\ UNCHANGED <<up, server_d, methodNames, counts_d, dumped, dumps, refreshes, crossing, touched>>

(* Fault: a dump clears the popup before its last key (PopupLast).          *)
NextKeyEarly(m) ==
  IF Len(m.todo) < 2 THEN Saved(m.out) /\ (IF m.todo = <<>> THEN up' = up ELSE Ask(<<[m EXCEPT !.what = "meta"]>>))
  ELSE Ask(<<[m EXCEPT !.what = "meta"]>>) /\ downloading' = "Downloading" /\ UNCHANGED dumped
NextKey(m) ==
  IF m.todo = <<>> THEN Saved(m.out) /\ UNCHANGED up
  ELSE Ask(<<[m EXCEPT !.what = "meta"]>>) /\ downloading' = "Downloading" /\ UNCHANGED dumped

KeysToDump ==
  LET ks == Head(down).keys
  IN /\ Getting("listkeys") /\ Got
     /\ NextKey([what |-> "meta", todo |-> ks, type |-> NoneType, types |-> <<>>, n |-> 0, out |-> <<>>])
     /\ UNCHANGED <<server_d, methodNames, counts_d, dumps, refreshes, crossing, touched>>

(* MxRdb.getKeyType: from its cache, or asked.                              *)
Known(m) == Head(m.todo) \in DOMAIN m.types

MetaToDump ==
  LET m == Head(down)
  IN /\ Getting("meta") /\ Got
     /\ Ask(<<[m EXCEPT !.what = IF Known(m) THEN "value" ELSE "keytype"]>>)
     /\ UNCHANGED <<server_d, methodNames, counts_d, dump_d, refreshes, crossing, touched>>

KeyTypeToDump ==
  /\ Getting("keytype") /\ Got
  /\ Ask(<<[Head(down) EXCEPT !.what = "value"]>>)
  /\ UNCHANGED <<server_d, methodNames, counts_d, dump_d, refreshes, crossing, touched>>

ReadAs(m) == IF Head(m.todo) \in DOMAIN m.types THEN m.types[Head(m.todo)] ELSE CHOOSE t \in Range(m.types) : TRUE

ValueToDump ==
  LET m == Head(down)
  IN /\ Getting("value") /\ Got
     /\ NextKey([m EXCEPT !.todo = Tail(@), !.out = Append(@, [key |-> Head(m.todo), type |-> m.type, as |-> ReadAs(m), n |-> m.n])])
     /\ UNCHANGED <<server_d, methodNames, counts_d, dumps, refreshes, crossing, touched>>

DebugNext ==
  \/ \E c \in RpcClients, m \in RpcMethods : BackendCalls(c, m)
  \/ ServeDebug \/ MethodNamesArrive \/ PollTimer \/ StatisticsArrive \/ ExistsArrives \/ AliasArrives
  \/ DownloadLastLogs \/ DumpRdbKeys
  \/ \E k \in DumpKeys : OthersChangeKeys(k)
  \/ ServeDumps \/ LogsDownloaded \/ KeysToDump \/ MetaToDump \/ KeyTypeToDump \/ ValueToDump

------------------------------------------------------------------------------
DebugTypeOK ==
  /\ DOMAIN statistics \subseteq RpcClients \X RpcMethods /\ registered \subseteq RpcClients
  /\ DOMAIN dumpdb \subseteq DumpKeys /\ methodNames \in BOOLEAN /\ crossing \in BOOLEAN
  /\ DOMAIN clientAlias \subseteq DOMAIN clientCalls /\ DOMAIN clientCalls \subseteq RpcClients
  /\ DOMAIN methodCalls \subseteq RpcMethods /\ methodTotals \in 0 .. MaxRpcCalls
  /\ touched \subseteq DumpKeys

(* Once nothing is under way the calls shown are those of the last poll,     *)
(* client by client and method by method, and both tables and the total      *)
(* agree, though a poll that meets new clients stops at each to ask for its  *)
(* name.  Only when the timer began a poll before the one before it was      *)
(* through may older numbers be written over newer ones.                     *)
CountsRight ==
  (Quiet("debug") /\ ~ crossing) =>
    /\ clientCalls = [c \in ClientsOf(lastpoll) |-> CallsOfClient(lastpoll, c)]
    /\ methodCalls = [m \in MethodsOf(lastpoll) |-> CallsOfMethod(lastpoll, m)]
    /\ methodTotals = Sum(clientCalls)

(* Once nothing is under way every client that is shown has an alias, also   *)
(* when polls overlapped: the poll that added the client asks for it.  No    *)
(* client is called by a name that it has not.                              *)
ClientsNamed ==
  /\ Quiet("debug") => DOMAIN clientAlias = DOMAIN clientCalls
  /\ \A c \in DOMAIN clientAlias : clientAlias[c] = Name => c \in registered

(* Once a dump is through it has every key that did not change while it ran, *)
(* once, with its type and with its value read as that type.                 *)
DumpRight ==
  (Quiet("debug") /\ dumped # <<>>) =>
    \A k \in DOMAIN dumpdb \ touched :
      \E i \in DOMAIN dumped :
        /\ dumped[i] = [key |-> k, type |-> dumpdb[k].type, as |-> dumpdb[k].type, n |-> dumpdb[k].n]
        /\ \A j \in DOMAIN dumped : dumped[j].key = k => j = i

(* The popup is there exactly while a download is under way: it never stays, *)
(* and no second one is begun meanwhile.                                     *)
PopupLast ==
  route = "debug" =>
    (downloading # "" <=> Flowing({"logs", "listkeys", "meta", "keytype", "value"}))
=============================================================================
