---------------------------- MODULE GlobalState ----------------------------
(***************************************************************************)
(* What every page knows of the backends and the run (frontend/src/lib:     *)
(* globalstate.ts), with the tables and buttons that show it                *)
(* (BackendViewer.tsx, components/BackendStatusTable.tsx) and the keys the  *)
(* server writes when a backend comes and goes (network/mxevt.cpp).  The    *)
(* entries are read first, six calls each; then the name of the user, the   *)
(* role and the experiment are fetched; then the keys are watched, and on   *)
(* each event a second key of the backend is read.                          *)
(***************************************************************************)
EXTENDS PageCalls, TLC

CONSTANTS
  Backends,      (* client ids                                              *)
  MaxChanges     (* bound: what backends do, others, and the user           *)

VARIABLES
  db,            (* backend -> its keys under /system/backends, or <<>>     *)
  writing,       (* backend -> writes its registration, end or status have  *)
                 (*   yet to make                                           *)
  run,           (* /system/run/status                                      *)
  taken,         (* subscriptions the gateway has                           *)
  backends,      (* the entries shown: backend -> the fields that were set  *)
  classed,       (* entries that are BackendStatus instances, not objects   *)
  gRun,          (* runStatus                                               *)
  starting,      (* whether initGlobalState is not through                  *)
  changes,
  early,         (* history: backends changed between reading and watching  *)
  torn,          (* history: fields read between the writes of two keys     *)
  ghosts,        (* history: backends deleted while calls about them ran    *)
  thinned        (* history: an event replaced the entry that was read, and *)
                 (*   the backend did not register again                    *)

past_g == <<changes, early, torn, ghosts, thinned>>
shown_g == <<backends, classed, gRun>>
vars_g == <<db, writing, run, taken, shown_g, starting, past_g>>

Merge(f, g) == [x \in DOMAIN f \cup DOMAIN g |-> IF x \in DOMAIN g THEN g[x] ELSE f[x]]
Entry(b) == IF b \in DOMAIN backends THEN backends[b] ELSE <<>>
(* The store merges what it is given into an entry that is an object, and    *)
(* puts it in place of one that is an instance of a class.                   *)
SetBackends(b, fields) ==
  /\ backends' = Merge(backends, b :> IF b \in classed THEN fields ELSE Merge(Entry(b), fields))
  /\ classed' = classed \ {b}

(* The field that the handler of a watch reads.                             *)
Second == [conn |-> "time", name |-> "host", text |-> "color", speed |-> "speed"]
Topics == {"conn", "name", "text", "speed"}
(* A key that does not exist reads as 0.                                    *)
Value(b, f) == IF f \in DOMAIN db[b] THEN db[b][f] ELSE 0

(* create_client_status reads in this order.                                *)
Fields == <<"name", "host", "conn", "time", "text", "color">>

GlobalInit ==
  /\ db \in [Backends -> {<<>>, [name |-> 1, host |-> 1, conn |-> 0, time |-> 0, text |-> 0,
                                  color |-> 0, speed |-> 0]}]
  /\ writing = [b \in Backends |-> <<>>]
  /\ run = 0 /\ gRun = 0
  /\ taken = {} /\ backends = <<>> /\ classed = {} /\ starting = TRUE
  /\ changes = 0 /\ early = {} /\ torn = {} /\ ghosts = {} /\ thinned = {}
GlobalCalls == <<[what |-> "list"]>>

------------------------------------------------------------------------------
(* The server and the backends.                                             *)
Begin(b, writes) ==
  /\ Calm /\ writing[b] = <<>> /\ changes < MaxChanges
  /\ changes' = changes + 1
  /\ writing' = [writing EXCEPT ![b] = writes]
  /\ UNCHANGED <<calls, db, run, taken, shown_g, starting, early, torn, ghosts, thinned>>

(* RegisterClientRdb                                                        *)
RegisterClientRdb(b) ==
  /\ Value(b, "conn") = 0
  /\ Begin(b, <<[f |-> "name", v |-> 1], [f |-> "host", v |-> 1], [f |-> "time", v |-> changes + 1],
                [f |-> "text", v |-> 0], [f |-> "color", v |-> 0], [f |-> "speed", v |-> 0],
                [f |-> "conn", v |-> 1]>>)

(* OnClientDisconnect                                                       *)
OnClientDisconnect(b) ==
  /\ Value(b, "conn") = 1
  /\ Begin(b, <<[f |-> "text", v |-> 0], [f |-> "color", v |-> 0], [f |-> "conn", v |-> 0],
                [f |-> "speed", v |-> 0]>>)

(* MxBackend::setStatus                                                     *)
SetStatus(b) ==
  /\ Value(b, "conn") = 1
  /\ Begin(b, <<[f |-> "text", v |-> changes + 1], [f |-> "color", v |-> changes + 1]>>)

(* The first reading of a backend that is under way.                         *)
Chains(b) == {m \in Range(up) \cup Range(down) : m.what = "chain" /\ m.b = b}
(* One of the writes, with the event for those who watch the key.           *)
Writes(b) ==
  LET w == Head(writing[b])
  IN /\ Calm /\ writing[b] # <<>>
     /\ writing' = [writing EXCEPT ![b] = Tail(@)]
     /\ db' = [db EXCEPT ![b] = Merge(@, w.f :> w.v)]
     /\ IF w.f \in taken THEN Tell([what |-> "event", b |-> b, f |-> w.f, v |-> w.v])
        ELSE UNCHANGED down
     /\ early' = IF Topics \subseteq taken /\ Chains(b) = {} THEN early ELSE early \cup {b}
     /\ UNCHANGED <<up, run, taken, shown_g, starting, changes, torn, ghosts, thinned>>

RunChanges ==
  /\ Calm /\ changes < MaxChanges
  /\ changes' = changes + 1
  /\ run' = 1 - run
  /\ IF "run" \in taken THEN Tell([what |-> "run", v |-> 1 - run]) ELSE UNCHANGED down
  /\ early' = IF "run" \in taken THEN early ELSE early \cup {"run"}
  /\ UNCHANGED <<up, db, writing, taken, shown_g, starting, torn, ghosts, thinned>>

------------------------------------------------------------------------------
(* initGlobalState                                                          *)
ServeList ==
  /\ Serving("list")
  /\ Serve([what |-> "list", bs |-> {b \in Backends : "name" \in DOMAIN db[b]}])
  /\ UNCHANGED vars_g

(* One chain of reads is begun for each backend, and not waited for; the     *)
(* user's name comes over HTTP meanwhile.                                    *)
ListArrives ==
  /\ Getting("list") /\ Got
  /\ Ask(SetToSeq({[what |-> "chain", b |-> b, got |-> <<>>] : b \in Head(down).bs}))
  /\ UNCHANGED vars_g

UsernameArrives ==
  /\ starting /\ ~ Flowing({"list", "role", "expname"})
  /\ Ask(<<[what |-> "role"]>>)
  /\ UNCHANGED <<down, vars_g>>

ServePlain ==
  /\ up # <<>> /\ Head(up).what \in {"role", "expname", "watch"}
  /\ Serve(Head(up))
  /\ UNCHANGED vars_g

RoleArrives ==
  /\ Getting("role") /\ Got
  /\ Ask(<<[what |-> "expname"]>>)
  /\ UNCHANGED vars_g

(* Everything is watched; the run's status is read before the answer to its  *)
(* watch can be there.                                                       *)
ExpnameArrives ==
  /\ Getting("expname") /\ Got
  /\ starting' = FALSE
  /\ Ask(<<[what |-> "watch", f |-> "conn"], [what |-> "watch", f |-> "name"],
           [what |-> "watch", f |-> "speed"], [what |-> "watch", f |-> "text"],
           [what |-> "take", f |-> "deleted"],
           [what |-> "watch", f |-> "run"], [what |-> "run"]>>)
  /\ UNCHANGED <<db, writing, run, taken, shown_g, past_g>>

WatchAnswered ==
  /\ Getting("watch") /\ Got
  /\ Ask(<<[what |-> "take", f |-> Head(down).f]>>)
  /\ UNCHANGED vars_g

ServeTake ==
  /\ Serving("take")
  /\ up' = Tail(up) /\ taken' = taken \cup {Head(up).f}
  /\ UNCHANGED <<down, db, writing, run, shown_g, starting, past_g>>

ServeRunStatus ==
  /\ Serving("run")
  /\ Serve([what |-> "run", v |-> run])
  /\ UNCHANGED vars_g

RunArrives ==
  /\ Getting("run") /\ Got
  /\ gRun' = Head(down).v
  /\ UNCHANGED <<up, db, writing, run, taken, backends, classed, starting, past_g>>

ServeChain ==
  LET b == Head(up).b
      f == Fields[Cardinality(DOMAIN Head(up).got) + 1]
  IN /\ Serving("chain")
     /\ Serve([Head(up) EXCEPT !.got = Merge(@, f :> Value(b, f))])
     /\ torn' = IF writing[b] # <<>> THEN torn \cup {b} ELSE torn
     /\ UNCHANGED <<db, writing, run, taken, shown_g, starting, changes, early, ghosts, thinned>>

ChainGoesOn ==
  /\ Getting("chain") /\ Got
  /\ Cardinality(DOMAIN Head(down).got) < Len(Fields)
  /\ Ask(<<Head(down)>>)
  /\ UNCHANGED vars_g

ChainEnds ==
  /\ Getting("chain") /\ Got
  /\ Cardinality(DOMAIN Head(down).got) = Len(Fields)
  /\ backends' = Merge(backends, Head(down).b :> Head(down).got)
  /\ classed' = classed \cup {Head(down).b}
  /\ UNCHANGED <<up, db, writing, run, taken, gRun, starting, past_g>>

------------------------------------------------------------------------------
(* The handlers of the watches: each reads a second key before it sets.     *)
EventArrives ==
  /\ Getting("event") /\ Got
  /\ Ask(<<[what |-> "second", b |-> Head(down).b, f |-> Head(down).f, v |-> Head(down).v]>>)
  /\ UNCHANGED vars_g

ServeSecond ==
  LET m == Head(up)
      unwritten == {w.f : w \in Range(writing[m.b])}
  IN /\ Serving("second")
     /\ Serve([m EXCEPT !.what = "set"] @@ [second |-> Value(m.b, Second[m.f])])
     /\ torn' = IF Second[m.f] \in unwritten THEN torn \cup {m.b} ELSE torn
     /\ UNCHANGED <<db, writing, run, taken, shown_g, starting, changes, early, ghosts, thinned>>

(* What the handlers set: a connection also resets the custom status.        *)
HandlerSets(m) ==
  SetBackends(m.b,
    CASE m.f = "conn" -> [conn |-> m.v, text |-> 0, time |-> m.second]
      [] m.f = "speed" -> [speed |-> m.second]
      [] OTHER -> (m.f :> m.v) @@ (Second[m.f] :> m.second))

SecondArrives ==
  LET m == Head(down)
  IN /\ Getting("set") /\ Got
     /\ HandlerSets(m)
     /\ thinned' = IF m.f = "name" THEN thinned \ {m.b}
                   ELSE IF m.b \in classed THEN thinned \cup {m.b} ELSE thinned
     /\ UNCHANGED <<up, db, writing, run, taken, gRun, starting, changes, early, torn, ghosts>>

------------------------------------------------------------------------------
(* The buttons of a backend: each is disabled by what is shown.             *)
Enabled(b, cmd) ==
  LET connected == "conn" \in DOMAIN backends[b] /\ backends[b].conn = 1
  IN connected <=> (cmd = "stop")

Press(b, cmd) ==
  /\ Calm /\ changes < MaxChanges
  /\ b \in DOMAIN backends /\ Enabled(b, cmd)
  /\ changes' = changes + 1
  /\ Ask(<<[what |-> cmd, b |-> b]>>)
  /\ UNCHANGED <<down, db, writing, run, taken, shown_g, starting, early, torn, ghosts, thinned>>

(* Start and stop go to the host of the backend, which comes and goes on its *)
(* own; the answer is only shown when it is an error.                        *)
ServeRex ==
  /\ up # <<>> /\ Head(up).what \in {"start", "stop"}
  /\ up' = Tail(up)
  /\ UNCHANGED <<down, vars_g>>

(* BckDeleteMeta, for this page or another: not while it is connected.      *)
Deletes(b) ==
  /\ db' = [db EXCEPT ![b] = IF Value(b, "conn") = 0 THEN <<>> ELSE @]
  /\ IF Value(b, "conn") = 0 /\ "conn" \in DOMAIN db[b] /\ "deleted" \in taken
     THEN Tell([what |-> "deleted", b |-> b])
     ELSE UNCHANGED down
  /\ ghosts' = IF \/ Flowing({"event", "second", "chain", "list"})
                  \/ "deleted" \notin taken
                  \/ writing[b] # <<>>
               THEN ghosts \cup {b} ELSE ghosts
  /\ UNCHANGED <<writing, run, taken, shown_g, starting, early, torn, thinned>>

ServeDelete ==
  /\ Serving("delete")
  /\ up' = Tail(up)
  /\ Deletes(Head(up).b)
  /\ UNCHANGED changes

DeletedElsewhere(b) ==
  /\ Unhurried /\ changes < MaxChanges /\ db[b] # <<>>
  /\ changes' = changes + 1
  /\ Deletes(b)
  /\ UNCHANGED up

DeleteBackendMetadata(b) ==
  /\ backends' = [x \in DOMAIN backends \ {b} |-> backends[x]]
  /\ classed' = classed \ {b}

KeyOfBackendDeleted ==
  /\ Getting("deleted") /\ Got
  /\ DeleteBackendMetadata(Head(down).b)
  /\ UNCHANGED <<up, db, writing, run, taken, gRun, starting, past_g>>

GlobalNext ==
  \/ \E b \in Backends :
       \/ RegisterClientRdb(b) \/ OnClientDisconnect(b) \/ SetStatus(b) \/ Writes(b)
       \/ DeletedElsewhere(b)
       \/ Press(b, "start") \/ Press(b, "stop") \/ Press(b, "delete")
  \/ RunChanges
  \/ ServeList \/ ListArrives \/ UsernameArrives \/ ServePlain \/ RoleArrives \/ ExpnameArrives
  \/ WatchAnswered \/ ServeTake \/ ServeRunStatus \/ RunArrives
  \/ ServeChain \/ ChainGoesOn \/ ChainEnds
  \/ EventArrives \/ ServeSecond \/ SecondArrives
  \/ ServeRex \/ ServeDelete \/ KeyOfBackendDeleted

------------------------------------------------------------------------------
GlobalTypeOK ==
  /\ \A b \in Backends : DOMAIN db[b] \subseteq Range(Fields) \cup {"speed"}
  /\ DOMAIN backends \subseteq Backends /\ classed \subseteq DOMAIN backends
  /\ \A b \in DOMAIN backends : \A f \in DOMAIN backends[b] :
       f \in Range(Fields) \cup {"speed"} /\ backends[b][f] \in 0 .. MaxChanges + 1
  /\ run \in {0, 1} /\ gRun \in {0, 1} /\ starting \in BOOLEAN
  /\ taken \subseteq Topics \cup {"run", "deleted"}
  /\ early \subseteq Backends \cup {"run"} /\ torn \cup ghosts \cup thinned \subseteq Backends

Unchanging == Quiet("backends") /\ ~ starting /\ \A b \in Backends : writing[b] = <<>>

(* Once nothing is under way, every backend of the database is shown, and    *)
(* what is shown of its name, host, connection, time, status and color is    *)
(* what it has there, in whatever order backends register, leave and set     *)
(* their status.  All six are shown, but for a backend that was there when   *)
(* the page was loaded and of which an event came since: the event takes the *)
(* place of its entry, until it registers again.  Exceptions are what        *)
(* changed between the first reading and the watches, and a field that a     *)
(* handler read between the writes of the two keys it needs (the color after *)
(* the text, the host after the name: no watch corrects it).                 *)
BackendsShown ==
  Unchanging =>
    /\ \A b \in Backends \ (early \cup torn \cup ghosts) :
         db[b] # <<>> =>
           /\ b \in DOMAIN backends
           /\ \A f \in DOMAIN backends[b] : backends[b][f] = db[b][f]
           /\ b \notin thinned => Range(Fields) \subseteq DOMAIN backends[b]
    /\ "run" \notin early => gRun = run

(* A backend that was deleted is no longer shown, unless events or reads of  *)
(* it were under way then, which make an entry again of what they bring.     *)
GoneNotShown ==
  Unchanging => \A b \in Backends \ ghosts : db[b] = <<>> => b \notin DOMAIN backends
=============================================================================
