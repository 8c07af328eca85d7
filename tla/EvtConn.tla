------------------------------- MODULE EvtConn -------------------------------
(***************************************************************************)
(* The threads of the event server, network/mxevt.cpp: one thread accepts  *)
(* connections and starts, for each, a thread that listens and a thread    *)
(* that emits.  The emit thread waits on a condition variable shared by    *)
(* all connections for its listen thread to have filled the maps they      *)
(* share; the listen thread reads frames until the client is gone, pushes  *)
(* them to the stacks of the subscribed connections, and releases its emit *)
(* thread when it leaves.  The destructor of the server stops and joins    *)
(* them all.                                                               *)
(*                                                                         *)
(* Frames are counted, not told apart: who is subscribed, and the order of *)
(* frames, are in EvtServer.  An exception that leaves a thread (a map     *)
(* lookup that fails) ends the process: "crashed".                         *)
(***************************************************************************)
EXTENDS Naturals, FiniteSets

CONSTANTS
  Conns,       (* the connections clients make, each with its own socket    *)
  MaxPending,  (* bound: frames on the stack of one connection              *)
  Spurious     (* TRUE: a wait may return without a notify                  *)

ASSUME ConnAssumption == MaxPending \in Nat /\ Spurious \in BOOLEAN

VARIABLES
  running,     (* _evt_thread_running                                       *)
  dtor,        (* the destructor: "no" | "accept" | "unblock" | "join" | "down" *)
  acceptor,    (* serverConnAcceptThread: "check" | "accept" | "done"       *)
  peer,        (* the client's end: "absent" | "open" | "closed"            *)
  listen,      (* serverListenThread of each connection                     *)
  emit,        (* serverEmitThread of each connection                       *)
  populated,   (* the keys of _evt_thread_sig and _evt_emit_stack           *)
  known,       (* the sockets in _evt_client_socket_pair                    *)
  pending,     (* the number of frames on each emit stack                   *)
  unblocked,   (* the emit stacks whose _sig_unblock is set                 *)
  crashed      (* the process is gone                                       *)

vars == <<running, dtor, acceptor, peer, listen, emit, populated, known,
          pending, unblocked, crashed>>

ListenStates == {"none", "starting", "notifying", "loop", "fetch", "leaving", "unblocking", "done"}
EmitStates   == {"none", "starting", "waiting", "loop", "pop", "sending", "done"}

------------------------------------------------------------------------------
Init ==
  /\ running = TRUE
  /\ dtor = "no"
  /\ acceptor = "check"
  /\ peer = [c \in Conns |-> "absent"]
  /\ listen = [c \in Conns |-> "none"]
  /\ emit = [c \in Conns |-> "none"]
  /\ populated = {}
  /\ known = {}
  /\ pending = [c \in Conns |-> 0]
  /\ unblocked = {}
  /\ crashed = FALSE

(* The accept loop tests the flag, then polls the socket.  The two threads  *)
(* of a connection are created under _connections_mutex, which both need    *)
(* before they do anything: accepting is one step.                         *)
AcceptCheck ==
  /\ ~ crashed
  /\ acceptor = "check"
  /\ acceptor' = IF running THEN "accept" ELSE "done"
  /\ UNCHANGED <<running, dtor, peer, listen, emit, populated, known, pending, unblocked, crashed>>

AcceptNothing ==
  /\ ~ crashed
  /\ acceptor = "accept"
  /\ acceptor' = "check"
  /\ UNCHANGED <<running, dtor, peer, listen, emit, populated, known, pending, unblocked, crashed>>

Accept(c) ==
  /\ ~ crashed
  /\ acceptor = "accept"
  /\ peer[c] = "absent"
  /\ acceptor' = "check"
  /\ peer' = [peer EXCEPT ![c] = "open"]
  /\ listen' = [listen EXCEPT ![c] = "starting"]
  /\ emit' = [emit EXCEPT ![c] = "starting"]
  /\ UNCHANGED <<running, dtor, populated, known, pending, unblocked, crashed>>

(* The client closes its socket or dies.                                   *)
PeerCloses(c) ==
  /\ ~ crashed
  /\ peer[c] = "open"
  /\ peer' = [peer EXCEPT ![c] = "closed"]
  /\ UNCHANGED <<running, dtor, acceptor, listen, emit, populated, known, pending, unblocked, crashed>>

------------------------------------------------------------------------------
(* serverListenThread fills the maps under the mutex ...                   *)
ListenPopulates(c) ==
  /\ ~ crashed
  /\ listen[c] = "starting"
  /\ listen' = [listen EXCEPT ![c] = "notifying"]
  /\ populated' = populated \cup {c}
  /\ UNCHANGED <<running, dtor, acceptor, peer, emit, known, pending, unblocked, crashed>>

(* ... and calls notify_one without it: one waiting emit thread, of any     *)
(* connection, goes on; a notify that finds no thread waiting is lost.      *)
ListenNotifies(c) ==
  /\ ~ crashed
  /\ listen[c] = "notifying"
  /\ listen' = [listen EXCEPT ![c] = "loop"]
  /\ LET waiting == {d \in Conns : emit[d] = "waiting"}
     IN  IF waiting = {} THEN emit' = emit
         ELSE \E d \in waiting : emit' = [emit EXCEPT ![d] = "loop"]
  /\ UNCHANGED <<running, dtor, acceptor, peer, populated, known, pending, unblocked, crashed>>

ListenChecks(c) ==
  /\ ~ crashed
  /\ listen[c] = "loop"
  /\ listen' = [listen EXCEPT ![c] = IF running THEN "fetch" ELSE "leaving"]
  /\ UNCHANGED <<running, dtor, acceptor, peer, emit, populated, known, pending, unblocked, crashed>>

(* The frame that says who the client is: OnClientConnectMetadata.          *)
ListenMetadata(c) ==
  /\ ~ crashed
  /\ listen[c] = "fetch"
  /\ c \notin known
  /\ known' = known \cup {c}
  /\ listen' = [listen EXCEPT ![c] = "loop"]
  /\ UNCHANGED <<running, dtor, acceptor, peer, emit, populated, pending, unblocked, crashed>>

(* Any other frame is pushed to the stacks of those that are subscribed.    *)
ListenRelays(c) ==
  /\ ~ crashed
  /\ listen[c] = "fetch"
  /\ c \in known
  /\ listen' = [listen EXCEPT ![c] = "loop"]
  /\ \E s \in SUBSET known :
       /\ \A d \in s : pending[d] < MaxPending
       /\ pending' = [d \in Conns |-> IF d \in s THEN pending[d] + 1 ELSE pending[d]]
  /\ UNCHANGED <<running, dtor, acceptor, peer, emit, populated, known, unblocked, crashed>>

(* fetch returns 0 once the client's end is closed.                        *)
ListenDisconnects(c) ==
  /\ ~ crashed
  /\ listen[c] = "fetch"
  /\ peer[c] = "closed"
  /\ listen' = [listen EXCEPT ![c] = "leaving"]
  /\ UNCHANGED <<running, dtor, acceptor, peer, emit, populated, known, pending, unblocked, crashed>>

(* OnClientDisconnect is given the client of the socket: the lookup fails   *)
(* when the client never said who it is.                                   *)
ListenLeaves(c) ==
  /\ ~ crashed
  /\ listen[c] = "leaving"
  /\ IF c \in known
     THEN /\ listen' = [listen EXCEPT ![c] = "unblocking"]
          /\ UNCHANGED crashed
     ELSE /\ crashed' = TRUE
          /\ UNCHANGED listen
  /\ UNCHANGED <<running, dtor, acceptor, peer, emit, populated, known, pending, unblocked>>

ListenUnblocks(c) ==
  /\ ~ crashed
  /\ listen[c] = "unblocking"
  /\ listen' = [listen EXCEPT ![c] = "done"]
  /\ unblocked' = unblocked \cup {c}
  /\ UNCHANGED <<running, dtor, acceptor, peer, emit, populated, known, pending, crashed>>

------------------------------------------------------------------------------
(* serverEmitThread waits for a notify, with no condition to test.          *)
EmitWaits(c) ==
  /\ ~ crashed
  /\ emit[c] = "starting"
  /\ emit' = [emit EXCEPT ![c] = "waiting"]
  /\ UNCHANGED <<running, dtor, acceptor, peer, listen, populated, known, pending, unblocked, crashed>>

EmitWakesSpuriously(c) ==
  /\ ~ crashed
  /\ Spurious
  /\ emit[c] = "waiting"
  /\ emit' = [emit EXCEPT ![c] = "loop"]
  /\ UNCHANGED <<running, dtor, acceptor, peer, listen, populated, known, pending, unblocked, crashed>>

(* The loop test looks its socket up in _evt_thread_sig.                    *)
EmitChecks(c) ==
  /\ ~ crashed
  /\ emit[c] = "loop"
  /\ IF ~ running
     THEN emit' = [emit EXCEPT ![c] = "done"] /\ UNCHANGED crashed
     ELSE IF c \in populated
          THEN emit' = [emit EXCEPT ![c] = "pop"] /\ UNCHANGED crashed
          ELSE crashed' = TRUE /\ UNCHANGED emit
  /\ UNCHANGED <<running, dtor, acceptor, peer, listen, populated, known, pending, unblocked>>

(* Faults of SysBufferStack::pop: it leaves the last frame on the stack      *)
(* (FramesSentUnlessForsaken), it does not hear of the unblock (StopEnds).  *)
EmitLeavesLast(c) ==
  /\ ~ crashed
  /\ emit[c] = "pop"
  /\ IF c \in unblocked
     THEN emit' = [emit EXCEPT ![c] = "done"] /\ UNCHANGED pending
     ELSE /\ pending[c] > 1
          /\ emit' = [emit EXCEPT ![c] = "sending"]
          /\ pending' = [pending EXCEPT ![c] = @ - 1]
  /\ UNCHANGED <<running, dtor, acceptor, peer, listen, populated, known, unblocked, crashed>>

EmitPopsOnly(c) ==
  /\ ~ crashed
  /\ emit[c] = "pop"
  /\ pending[c] > 0
  /\ emit' = [emit EXCEPT ![c] = "sending"]
  /\ pending' = [pending EXCEPT ![c] = @ - 1]
  /\ UNCHANGED <<running, dtor, acceptor, peer, listen, populated, known, unblocked, crashed>>

(* SysBufferStack::pop: an unblocked stack is left as it is.               *)
EmitPops(c) ==
  /\ ~ crashed
  /\ emit[c] = "pop"
  /\ IF c \in unblocked
     THEN emit' = [emit EXCEPT ![c] = "done"] /\ UNCHANGED pending
     ELSE /\ pending[c] > 0
          /\ emit' = [emit EXCEPT ![c] = "sending"]
          /\ pending' = [pending EXCEPT ![c] = @ - 1]
  /\ UNCHANGED <<running, dtor, acceptor, peer, listen, populated, known, unblocked, crashed>>

EmitSends(c) ==
  /\ ~ crashed
  /\ emit[c] = "sending"
  /\ emit' = [emit EXCEPT ![c] = "loop"]
  /\ UNCHANGED <<running, dtor, acceptor, peer, listen, populated, known, pending, unblocked, crashed>>

------------------------------------------------------------------------------
(* ~EvtServerThread: clear the flag, join the accept thread, unblock the    *)
(* stacks there are, join the emit threads and then the listen threads.     *)
Stop ==
  /\ ~ crashed
  /\ dtor = "no"
  /\ dtor' = "accept"
  /\ running' = FALSE
  /\ UNCHANGED <<acceptor, peer, listen, emit, populated, known, pending, unblocked, crashed>>

StopJoinsAccept ==
  /\ ~ crashed
  /\ dtor = "accept"
  /\ acceptor = "done"
  /\ dtor' = "unblock"
  /\ UNCHANGED <<running, acceptor, peer, listen, emit, populated, known, pending, unblocked, crashed>>

StopUnblocks ==
  /\ ~ crashed
  /\ dtor = "unblock"
  /\ dtor' = "join"
  /\ unblocked' = unblocked \cup populated
  /\ UNCHANGED <<running, acceptor, peer, listen, emit, populated, known, pending, crashed>>

(* Fault: the listen threads are not joined (NoThreadOutlivesServer).       *)
StopJoinsEmitters ==
  /\ ~ crashed
  /\ dtor = "join"
  /\ \A c \in Conns : emit[c] \in {"none", "done"}
  /\ dtor' = "down"
  /\ UNCHANGED <<running, acceptor, peer, listen, emit, populated, known, pending, unblocked, crashed>>

StopJoins ==
  /\ ~ crashed
  /\ dtor = "join"
  /\ \A c \in Conns : emit[c] \in {"none", "done"} /\ listen[c] \in {"none", "done"}
  /\ dtor' = "down"
  /\ UNCHANGED <<running, acceptor, peer, listen, emit, populated, known, pending, unblocked, crashed>>

------------------------------------------------------------------------------
AcceptThread == AcceptCheck \/ AcceptNothing \/ \E c \in Conns : Accept(c)

ListenThread(c) ==
  \/ ListenPopulates(c) \/ ListenNotifies(c) \/ ListenChecks(c) \/ ListenMetadata(c)
  \/ ListenRelays(c) \/ ListenDisconnects(c) \/ ListenLeaves(c) \/ ListenUnblocks(c)

EmitThread(c) ==
  EmitWaits(c) \/ EmitWakesSpuriously(c) \/ EmitChecks(c) \/ EmitPops(c) \/ EmitSends(c)

Destructor == Stop \/ StopJoinsAccept \/ StopUnblocks \/ StopJoins

Next ==
  \/ AcceptThread
  \/ \E c \in Conns : PeerCloses(c) \/ ListenThread(c) \/ EmitThread(c)
  \/ Destructor

(* Threads that can go on do; whether clients come, send and leave, whether *)
(* waits return early and whether the server is stopped is left open.       *)
Fairness ==
  /\ WF_vars(AcceptCheck)
  /\ WF_vars(acceptor = "accept" /\ AcceptThread)
  /\ WF_vars(StopJoinsAccept \/ StopUnblocks \/ StopJoins)
  /\ \A c \in Conns :
       /\ WF_vars(ListenPopulates(c) \/ ListenNotifies(c) \/ ListenChecks(c)
                  \/ ListenLeaves(c) \/ ListenUnblocks(c))
       /\ WF_vars(ListenDisconnects(c))
       /\ WF_vars(EmitWaits(c) \/ EmitChecks(c) \/ EmitPops(c) \/ EmitSends(c))

Spec == Init /\ [][Next]_vars /\ Fairness

------------------------------------------------------------------------------
TypeOK ==
  /\ running \in BOOLEAN /\ crashed \in BOOLEAN
  /\ dtor \in {"no", "accept", "unblock", "join", "down"}
  /\ acceptor \in {"check", "accept", "done"}
  /\ peer \in [Conns -> {"absent", "open", "closed"}]
  /\ listen \in [Conns -> ListenStates]
  /\ emit \in [Conns -> EmitStates]
  /\ populated \subseteq Conns /\ known \subseteq populated /\ unblocked \subseteq populated
  /\ pending \in [Conns -> 0 .. MaxPending]

(* No thread of the server outlives its destructor, those included that     *)
(* were started by an accept that was under way when the flag was cleared.  *)
NoThreadOutlivesServer ==
  dtor = "down" =>
    /\ acceptor = "done"
    /\ \A c \in Conns : emit[c] \in {"none", "done"} /\ listen[c] \in {"none", "done"}

(* A connection whose listen thread has passed its notify while its emit    *)
(* thread waits: nothing in the code will ever wake that thread, except by  *)
(* mistake, on behalf of another connection.                               *)
Forsaken(c) == emit[c] = "waiting" /\ listen[c] \notin {"none", "starting", "notifying"}

(* The only thing that keeps a pushed frame of a live connection from       *)
(* getting its emit thread's attention is a lost wake-up (mxevt.cpp:719).   *)
FramesSentUnlessForsaken ==
  \A c \in Conns :
    pending[c] > 0 ~> \/ emit[c] \in {"sending", "done"}
                      \/ Forsaken(c)
                      \/ crashed

(* The only things that keep the destructor from ending are a client that   *)
(* stays connected (its listen thread is not unblocked) and a lost wake-up. *)
StopEnds ==
  dtor # "no" ~> \/ dtor = "down"
                 \/ crashed
                 \/ \E c \in Conns : peer[c] = "open" \/ Forsaken(c)

(* Events are sent to all that are listening (docs/events.md:4-5): a frame  *)
(* pushed for a connection that stays open reaches its emit thread.         *)
FramesSent ==
  \A c \in Conns :
    pending[c] > 0 ~> \/ emit[c] \in {"sending", "done"}
                      \/ peer[c] = "closed"
                      \/ ~ running
                      \/ crashed

(* A listen thread is past its start only with its entries in the maps, and  *)
(* the stacks are unblocked only when nobody can be accepted any more: what   *)
(* keeps a connection from being added behind the destructor's back.         *)
Registered ==
  \A c \in Conns : listen[c] \notin {"none", "starting"} => c \in populated
StopsInOrder == dtor \in {"unblock", "join", "down"} => acceptor = "done"

(* No thread outlives the server (~EvtServerThread, mxevt.cpp).              *)
ConnectionsSound == TypeOK /\ Registered /\ StopsInOrder /\ NoThreadOutlivesServer
=============================================================================
