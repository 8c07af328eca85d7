------------------------------ MODULE LogView ------------------------------
(***************************************************************************)
(* The message log (frontend/src/components/LogTable.tsx: LogProvider) and  *)
(* the server's table of messages (network/mxmsg.cpp).  The last messages   *)
(* are fetched and new ones are subscribed to when the web interface starts *)
(* and after every reconnection.  A message is added to the list of all and *)
(* to that of its backend, each once the backend's name is known.           *)
(***************************************************************************)
EXTENDS PageCalls

CONSTANTS
  Senders,       (* client ids of backends                                  *)
  MaxLogs,       (* props.maxLogs                                           *)
  MaxMessages, MaxReconnects   (* bounds                                    *)

VARIABLES
  table,         (* the server's log: the sender of each message, in order  *)
  emitted,       (* messages emitted and not yet in the table               *)
  listening,     (* whether the gateway has the subscription                *)
  clientMsgList, (* senders whose name is known                             *)
  logs,          (* the list of all                                         *)
  blogs,         (* sender -> its list                                      *)
  syncs,         (* times the last messages were fetched                    *)
  sent_m,        (* messages so far                                         *)
  missed,        (* history: messages no event or fetch brings              *)
  jumped         (* history: one was added while another waits for a name   *)

shown_m == <<clientMsgList, logs, blogs>>
vars_m == <<table, emitted, listening, shown_m, syncs, sent_m, missed, jumped>>

Newest(s) == SubSeq(s, IF Len(s) > MaxLogs THEN Len(s) - MaxLogs + 1 ELSE 1, Len(s))
Numbers(s) == {s[i].n : i \in DOMAIN s}

(* Fault: subscribed before the messages are fetched (LogsOnce).            *)
SyncBackwards == <<[what |-> "listen"], [what |-> "lastlogs"], [what |-> "senders"]>>
(* sync_and_sub_logs                                                        *)
Sync == <<[what |-> "lastlogs"], [what |-> "senders"], [what |-> "listen"]>>

LogInit ==
  /\ table = <<>> /\ emitted = {} /\ listening = FALSE
  /\ clientMsgList = {} /\ logs = <<>> /\ blogs = [c \in Senders |-> <<>>]
  /\ syncs = 1 /\ sent_m = 0 /\ missed = {} /\ jumped = FALSE
LogCalls == Sync

------------------------------------------------------------------------------
(* MsgWrite: the event is emitted before the message is queued.  A backend  *)
(* makes one call at a time.                                                *)
MsgEmits(c) ==
  LET m == [n |-> sent_m + 1, c |-> c]
  IN /\ Unhurried
     /\ \A x \in emitted : x.c # c
     /\ sent_m < MaxMessages
     /\ sent_m' = sent_m + 1
     /\ emitted' = emitted \cup {m}
     /\ IF listening THEN Tell([what |-> "message", m |-> m]) /\ missed' = missed
        ELSE down' = down /\ missed' = missed \cup {m.n}
     /\ UNCHANGED <<up, table, listening, shown_m, syncs, jumped>>

MsgQueues(m) ==
  /\ m \in emitted
  /\ emitted' = emitted \ {m}
  /\ table' = Append(table, m)
  /\ UNCHANGED <<calls, listening, shown_m, syncs, sent_m, missed, jumped>>

(* The newest first; what is fetched is no longer missed.                    *)
MsgGetLastLogs ==
  /\ Serving("lastlogs")
  /\ Serve([what |-> "lastlogs", ms |-> Reverse(Newest(table))])
  /\ missed' = missed \ Numbers(Newest(table))
  /\ UNCHANGED <<table, emitted, listening, shown_m, syncs, sent_m, jumped>>

ServeSenders ==
  /\ Serving("senders")
  /\ Serve([what |-> "senders"])
  /\ UNCHANGED vars_m

MsgGetLastClientLogs ==
  LET ms == SelectSeq(table, LAMBDA m : m.c = Head(up).c)
  IN /\ Serving("clientlogs")
     /\ Serve([what |-> "clientlogs", ms |-> Reverse(Newest(ms))])
     /\ UNCHANGED vars_m

ServeListen ==
  /\ Serving("listen")
  /\ up' = Tail(up) /\ listening' = TRUE
  /\ UNCHANGED <<down, table, emitted, shown_m, syncs, sent_m, missed, jumped>>

ServeSenderName ==
  /\ Serving("sender")
  /\ Serve(Head(up))
  /\ UNCHANGED vars_m

------------------------------------------------------------------------------
(* addMessageToAll and addMessageToSingle                                   *)
Added(all, ms) == Newest(all \o ms)
AddedTo(lists, ms) ==
  [c \in Senders |-> Newest(lists[c] \o SelectSeq(ms, LAMBDA m : m.c = c))]

Naming(list, ms) == [i \in DOMAIN ms |-> [what |-> "sender", m |-> ms[i], list |-> list]]

(* computeLog for each message of ms: those of a sender that is known are    *)
(* added now, the others when their own call for the name is answered.       *)
AddAll(toall, tosingle) ==
  LET known(ms) == SelectSeq(ms, LAMBDA m : m.c \in clientMsgList)
      unknown(ms) == SelectSeq(ms, LAMBDA m : m.c \notin clientMsgList)
  IN /\ logs' = Added(logs, known(toall))
     /\ blogs' = AddedTo(blogs, known(tosingle))
     /\ Ask(Naming("all", unknown(toall)) \o Naming("single", unknown(tosingle)))
     /\ jumped' = (jumped \/ (known(toall) # <<>> /\ Flowing({"sender"})))
     /\ UNCHANGED clientMsgList

OldestFirst(ms) == Reverse(ms)

LastLogsArrive ==
  /\ Getting("lastlogs") /\ Got
  /\ AddAll(OldestFirst(Head(down).ms), <<>>)
  /\ UNCHANGED <<table, emitted, listening, syncs, sent_m, missed>>

SendersArrive ==
  /\ Getting("senders") /\ Got
  /\ Ask(SetToSeq({[what |-> "clientlogs", c |-> c] : c \in Senders}))
  /\ UNCHANGED vars_m

ClientLogsArrive ==
  /\ Getting("clientlogs") /\ Got
  /\ AddAll(<<>>, OldestFirst(Head(down).ms))
  /\ UNCHANGED <<table, emitted, listening, syncs, sent_m, missed>>

MessageArrives ==
  /\ Getting("message") /\ Got
  /\ AddAll(<<Head(down).m>>, <<Head(down).m>>)
  /\ UNCHANGED <<table, emitted, listening, syncs, sent_m, missed>>

SenderArrives ==
  LET m == Head(down).m
  IN /\ Getting("sender") /\ Got
     /\ clientMsgList' = clientMsgList \cup {m.c}
     /\ IF Head(down).list = "all" THEN logs' = Added(logs, <<m>>) /\ UNCHANGED blogs
        ELSE blogs' = AddedTo(blogs, <<m>>) /\ UNCHANGED logs
     /\ UNCHANGED <<up, table, emitted, listening, syncs, sent_m, missed, jumped>>

(* The connection is lost and comes back: what was under way is forgotten    *)
(* (MxSocket), everything is fetched again and added to what is there.       *)
LosesConnection ==
  /\ syncs <= MaxReconnects
  /\ syncs' = syncs + 1
  /\ up' = Sync /\ down' = <<>>
  /\ listening' = FALSE
  /\ missed' = missed \cup {x.m.n : x \in {y \in Range(up) \cup Range(down) :
                                             y.what \in {"message", "sender"}}}
                 \cup UNION {Numbers(y.ms) : y \in {z \in Range(down) : z.what = "lastlogs"}}
  /\ UNCHANGED <<table, emitted, shown_m, sent_m, jumped>>

LogNext ==
  \/ \E c \in Senders : MsgEmits(c)
  \/ \E n \in 1 .. MaxMessages, c \in Senders : MsgQueues([n |-> n, c |-> c])
  \/ MsgGetLastLogs \/ ServeSenders \/ MsgGetLastClientLogs \/ ServeListen \/ ServeSenderName
  \/ LastLogsArrive \/ SendersArrive \/ ClientLogsArrive \/ MessageArrives \/ SenderArrives
  \/ LosesConnection

------------------------------------------------------------------------------
LogList == Seq([n : 1 .. MaxMessages, c : Senders])

LogViewTypeOK ==
  /\ table \in LogList /\ emitted \subseteq [n : 1 .. MaxMessages, c : Senders]
  /\ logs \in LogList /\ blogs \in [Senders -> LogList]
  /\ Len(logs) <= MaxLogs /\ \A c \in Senders : Len(blogs[c]) <= MaxLogs
  /\ clientMsgList \subseteq Senders /\ missed \subseteq 1 .. MaxMessages
  /\ listening \in BOOLEAN /\ jumped \in BOOLEAN

Times(n) == Cardinality({i \in DOMAIN logs : logs[i].n = n})

(* Until the connection is lost no message is listed twice, though messages  *)
(* are both fetched and subscribed to; after that one may be listed once for *)
(* every time the last messages were fetched, as the list is not cleared.    *)
LogsOnce == \A n \in 1 .. MaxMessages : Times(n) <= syncs

(* Once nothing is under way every message is listed, if the list is long    *)
(* enough, but those emitted before the subscription and not in the table by *)
(* the time of the fetch, and those on their way when a connection was lost. *)
LogsComplete ==
  (Quiet("messages") /\ Len(logs) < MaxLogs) =>
    \A n \in (1 .. sent_m) \ missed : Times(n) >= 1

(* Until the connection is lost the list has the messages of a backend in    *)
(* the order in which it sent them, unless one came while another still      *)
(* waited for the name.  (Not so the list of the backend alone: it is        *)
(* fetched after the subscription, and what came by then stands before, and  *)
(* stands again among, what is fetched.)                                     *)
LogsInOrder ==
  (syncs = 1 /\ ~ jumped) =>
    \A i, j \in DOMAIN logs : (i < j /\ logs[i].c = logs[j].c) => logs[i].n < logs[j].n
=============================================================================
