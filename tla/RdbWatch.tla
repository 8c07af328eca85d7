------------------------------ MODULE RdbWatch ------------------------------
(***************************************************************************)
(* Watches of the realtime database, rdb/mxrdb.cpp: the set of watched      *)
(* patterns, the writers that make an event for each pattern that matches,  *)
(* and the threads they detach to remove a pattern nobody has listened to   *)
(* for five seconds.  Every pattern here matches the key that is written.   *)
(*                                                                          *)
(* A client watches in two calls, RdbWatch and EvtSubscribe; to unwatch it  *)
(* only unsubscribes.  A writer holds _rdb_watch_lock shared while it goes  *)
(* through the patterns; RdbWatch and RdbUnwatch hold it alone for all they *)
(* do and are one step each.                                                *)
(***************************************************************************)
EXTENDS Naturals, FiniteSets

CONSTANTS
  Patterns,   (* what is watched                                            *)
  Watchers,   (* clients                                                    *)
  RdbWriters, (* RPC threads that write the key                             *)
  NoPattern,  (* not a pattern                                              *)
  MaxSweeps   (* bound: detached threads for one pattern at a time          *)

ASSUME WatchAssumption == NoPattern \notin Patterns /\ MaxSweeps \in Nat

VARIABLES
  dirs,       (* _rdb_watch_dirs                                            *)
  silent,     (* patterns not triggered for five seconds                    *)
              (* (_rdb_watch_last_trigger)                                  *)
  listeners,  (* pattern -> clients subscribed to its event                 *)
  watcher,    (* client -> pattern -> "away", "watched" (RdbWatch returned),*)
              (* "listens"                                                  *)
  writer,     (* writer -> [todo: patterns it has yet to go through,        *)
              (* unheard: the one whose event had no listener, busy]        *)
  sweeps,     (* pattern -> detached threads that have yet to run RdbUnwatch *)
  settled,    (* history: <<client, pattern>> for subscriptions made when   *)
              (* the pattern was watched and nobody was about to remove it  *)
  missed      (* history: <<client, pattern>> for clients that listened     *)
              (* while a write went through the patterns without theirs     *)

vars_b == <<dirs, silent, listeners, watcher, writer, sweeps, settled, missed>>

NotWriting == [busy |-> FALSE, todo |-> {}, unheard |-> NoPattern]
Shared == \E w \in RdbWriters : writer[w].busy
Pairs == Watchers \X Patterns

------------------------------------------------------------------------------
WatchInit ==
  /\ dirs = {}
  /\ silent = {}
  /\ listeners = [p \in Patterns |-> {}]
  /\ watcher = [c \in Watchers |-> [p \in Patterns |-> "away"]]
  /\ writer = [w \in RdbWriters |-> NotWriting]
  /\ sweeps = [p \in Patterns |-> 0]
  /\ settled = {}
  /\ missed = {}

(* RdbWatch, the first of a client's two calls: the pattern is watched and   *)
(* its five seconds begin.                                                   *)
RdbWatch(c, p) ==
  /\ watcher[c][p] = "away"
  /\ ~ Shared
  /\ dirs' = dirs \cup {p}
  /\ silent' = silent \ {p}
  /\ watcher' = [watcher EXCEPT ![c][p] = "watched"]
  /\ UNCHANGED <<listeners, writer, sweeps, settled, missed>>

(* Nobody removes p, nor is about to decide whether to.                      *)
Quiet(p) == sweeps[p] = 0 /\ \A w \in RdbWriters : writer[w].unheard # p

(* EvtSubscribe, the second.                                                 *)
EvtSubscribe(c, p) ==
  /\ watcher[c][p] = "watched"
  /\ watcher' = [watcher EXCEPT ![c][p] = "listens"]
  /\ listeners' = [listeners EXCEPT ![p] = @ \cup {c}]
  /\ settled' = IF p \in dirs /\ Quiet(p) THEN settled \cup {<<c, p>>} ELSE settled
  /\ UNCHANGED <<dirs, silent, writer, sweeps, missed>>

(* unwatch unsubscribes; so does the server for a client that disconnects.   *)
Unsubscribe(c, p) ==
  /\ watcher[c][p] # "away"
  /\ watcher' = [watcher EXCEPT ![c][p] = "away"]
  /\ listeners' = [listeners EXCEPT ![p] = @ \ {c}]
  /\ settled' = settled \ {<<c, p>>}
  /\ missed' = missed \ {<<c, p>>}
  /\ UNCHANGED <<dirs, silent, writer, sweeps>>

(* RdbEmitWatchMatchCondition: a writer begins to go through the patterns.   *)
WriteBegins(w) ==
  /\ ~ writer[w].busy
  /\ \A p \in dirs : sweeps[p] + Cardinality({v \in RdbWriters : writer[v].busy}) < MaxSweeps
  /\ writer' = [writer EXCEPT ![w] = [busy |-> TRUE, todo |-> dirs, unheard |-> NoPattern]]
  /\ missed' = missed \cup {cp \in Pairs : cp[1] \in listeners[cp[2]] /\ cp[2] \notin dirs}
  /\ UNCHANGED <<dirs, silent, listeners, watcher, sweeps, settled>>

(* Fault: EvtEmit looks for more than one (WatchesSound).                    *)
HeardByMore(p) == Cardinality(listeners[p]) > 1

(* EvtEmit has somebody to tell.                                             *)
Heard(p) == listeners[p] # {}

(* RdbEmitEvtCondition: an event is sent to the listeners, and the pattern   *)
(* counts as triggered; ...                                                  *)
EmitHeard(w, p) ==
  /\ writer[w].unheard = NoPattern
  /\ p \in writer[w].todo
  /\ Heard(p)
  /\ writer' = [writer EXCEPT ![w].todo = @ \ {p}]
  /\ silent' = silent \ {p}
  /\ UNCHANGED <<dirs, listeners, watcher, sweeps, settled, missed>>

(* ... or there are none, and then ...                                       *)
EmitUnheard(w, p) ==
  /\ writer[w].unheard = NoPattern
  /\ p \in writer[w].todo
  /\ ~ Heard(p)
  /\ writer' = [writer EXCEPT ![w].todo = @ \ {p}, ![w].unheard = p]
  /\ UNCHANGED <<dirs, silent, listeners, watcher, sweeps, settled, missed>>

(* ... a thread is detached that removes it, if it is silent for so long.    *)
Detach(w) ==
  LET p == writer[w].unheard IN
  /\ p # NoPattern
  /\ writer' = [writer EXCEPT ![w].unheard = NoPattern]
  /\ sweeps' = IF p \in silent THEN [sweeps EXCEPT ![p] = @ + 1] ELSE sweeps
  /\ UNCHANGED <<dirs, silent, listeners, watcher, settled, missed>>

WriteEnds(w) ==
  /\ writer[w].busy /\ writer[w].todo = {} /\ writer[w].unheard = NoPattern
  /\ writer' = [writer EXCEPT ![w] = NotWriting]
  /\ UNCHANGED <<dirs, silent, listeners, watcher, sweeps, settled, missed>>

(* RdbUnwatch, in a detached thread: whoever watches by now, the pattern     *)
(* goes, if it is still there.                                               *)
RdbUnwatch(p) ==
  /\ sweeps[p] > 0
  /\ ~ Shared
  /\ sweeps' = [sweeps EXCEPT ![p] = @ - 1]
  /\ dirs' = dirs \ {p}
  /\ silent' = silent \ {p}
  /\ UNCHANGED <<listeners, watcher, writer, settled, missed>>

(* Five seconds pass.                                                        *)
FallsSilent(p) ==
  /\ p \in dirs \ silent
  /\ silent' = silent \cup {p}
  /\ UNCHANGED <<dirs, listeners, watcher, writer, sweeps, settled, missed>>

WatchNext ==
  \/ \E c \in Watchers, p \in Patterns : RdbWatch(c, p) \/ EvtSubscribe(c, p) \/ Unsubscribe(c, p)
  \/ \E w \in RdbWriters : WriteBegins(w) \/ Detach(w) \/ WriteEnds(w)
  \/ \E w \in RdbWriters, p \in Patterns : EmitHeard(w, p) \/ EmitUnheard(w, p)
  \/ \E p \in Patterns : RdbUnwatch(p) \/ FallsSilent(p)

WatchSpec == WatchInit /\ [][WatchNext]_vars_b

------------------------------------------------------------------------------
WatchTypeOK ==
  /\ dirs \subseteq Patterns
  /\ silent \subseteq dirs
  /\ listeners \in [Patterns -> SUBSET Watchers]
  /\ watcher \in [Watchers -> [Patterns -> {"away", "watched", "listens"}]]
  /\ writer \in [RdbWriters ->
                  [busy : BOOLEAN, todo : SUBSET Patterns, unheard : Patterns \cup {NoPattern}]]
  /\ \A w \in RdbWriters : writer[w].todo \subseteq dirs /\ (writer[w].busy \/ writer[w] = NotWriting)
  /\ sweeps \in [Patterns -> Nat]
  /\ settled \cup missed \subseteq Pairs

(* A client that subscribed while its pattern was watched and nobody was     *)
(* about to remove it is told of every write until it leaves.  Any other may *)
(* never be told: the thread that removes the pattern does not look whether  *)
(* it is watched again, or listened to (mxrdb.cpp:530).                      *)
SettledAreTold ==
  /\ settled \cap missed = {}
  /\ \A cp \in settled : cp[1] \in listeners[cp[2]] /\ cp[2] \in dirs /\ Quiet(cp[2])

(* The events' subscriptions are those of the clients that listen, and only  *)
(* these can miss a write.                                                   *)
ListenersAgree ==
  /\ \A c \in Watchers, p \in Patterns : c \in listeners[p] <=> watcher[c][p] = "listens"
  /\ \A cp \in missed : cp[1] \in listeners[cp[2]]

WatchesSound == WatchTypeOK /\ ListenersAgree /\ SettledAreTold
=============================================================================
