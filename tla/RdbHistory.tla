----------------------------- MODULE RdbHistory -----------------------------
(***************************************************************************)
(* The history of the realtime database, rdb/mxrdb.cpp: the changes of keys *)
(* whose history is on go to a buffer in memory, which is flushed to the    *)
(* table "history" when it is full, when somebody reads a history, and when *)
(* the server closes.  Three locks are taken one inside another: that of    *)
(* the database, _rdb_rw_lock (shared to read or write an entry, alone to   *)
(* make one), that of the entry, and _rdb_history_rw_lock.                  *)
(*                                                                          *)
(* The order of start and end is that of mxsystem.cpp: a metric is written  *)
(* and the metrics thread started before the buffer is made (344, 347), and *)
(* the thread is stopped after the buffer was freed (389, 391).  Whether a  *)
(* key has its history on is kept in rdb.bin, so it may be on at the start. *)
(* Keys are not deleted here, and writes of keys without a history are left *)
(* out.  Who holds which lock follows from where each thread is.            *)
(***************************************************************************)
EXTENDS Naturals, Sequences, SequencesExt

CONSTANTS
  UserKeys,       (* keys that RPC threads write                            *)
  FirstMetric,    (* the key that is written when the server starts         *)
  OtherMetric,    (* the key that the metrics thread writes                 *)
  RpcWriters,     (* RPC threads                                            *)
  LongKeys,       (* keys whose record is longer than the buffer            *)
  BufferSize,     (* the size of the buffer, in records of other keys       *)
  MaxHistChanges, (* bound: changes of keys with their history on           *)
  MaxToggles,     (* bound: times a history is switched                     *)
  MaxHistEnds     (* bound: ends of the server, of any kind                 *)

HistMain == "main"
Metrics == "metrics"
HistThreads == RpcWriters \cup {HistMain, Metrics}
RdbKeys == UserKeys \cup {FirstMetric, OtherMetric}

ASSUME HistoryAssumption ==
  /\ {"main", "metrics"} \cap RpcWriters = {}
  /\ {MaxHistChanges, BufferSize} \subseteq Nat

VARIABLES
  enabled,    (* keys with HISTORY_ENABLED                                  *)
  binary,     (* those of rdb.bin                                           *)
  rows_y,     (* key -> changes in the table                                *)
  hist_y,     (* the records in the buffer, [key, n], in order              *)
  buffer_y,   (* "none" (not made yet), "open", "freed"                     *)
  step_y,     (* thread -> "idle"; a writer "logs" (waits for the history's *)
              (* lock), "makes_room"; a reader "asks" (waits for it),       *)
              (* "flushes", "reads"                                         *)
  key_y,      (* the key of each thread's call                              *)
  server_y,   (* the main thread: "down", "starts", "metrics" (the metrics  *)
              (* thread runs), "makes" (holds the history's lock and waits  *)
              (* for the database's), "up", "closes", "stops"               *)
  changes_y,  (* history: key -> changes made, but for those that were in   *)
              (* memory when the server was killed                          *)
  made_y, toggles_y, ends_y,  (* changes, switches and ends so far          *)
  fault_y     (* history: <<>>, or the thread that wrote outside the buffer,*)
              (* the key of its record, and "null", "freed" or "overrun"    *)

calls_z == <<step_y, key_y>>
stored_z == <<enabled, binary, rows_y>>
memory_z == <<hist_y, buffer_y>>
vars_z == <<stored_z, memory_z, calls_z, server_y, changes_y, made_y, toggles_y, ends_y, fault_y>>

At(t, s) == step_y' = [step_y EXCEPT ![t] = s]
AllIdle == [t \in HistThreads |-> "idle"]
Size(k) == IF k \in LongKeys THEN BufferSize + 1 ELSE 1
Used == FoldSeq(LAMBDA r, sum : sum + Size(r.key), 0, hist_y)

------------------------------------------------------------------------------
(* The locks.                                                                *)
WritesEntry(t) == step_y[t] \in {"logs", "makes_room"}
ReadsEntry(t) == step_y[t] \in {"asks", "flushes", "reads"} /\ t # HistMain
Sharing == {t \in HistThreads : WritesEntry(t) \/ ReadsEntry(t)}
EntryFree(k) == \A t \in Sharing : key_y[t] # k
EntryReadable(k) == \A t \in Sharing : key_y[t] = k => ReadsEntry(t)
HistoryFree == server_y # "makes" /\ \A t \in HistThreads : step_y[t] \notin {"makes_room", "flushes"}

HistoryInit ==
  /\ enabled = {}
  /\ binary = {}
  /\ rows_y = [k \in RdbKeys |-> <<>>]
  /\ hist_y = <<>>
  /\ buffer_y = "none"
  /\ step_y = AllIdle
  /\ key_y = [t \in HistThreads |-> FirstMetric]
  /\ server_y = "down"
  /\ changes_y = rows_y
  /\ made_y = 0 /\ toggles_y = 0 /\ ends_y = 0
  /\ fault_y = <<>>

(* The value of k is written by t, which goes on to log the change.          *)
Changes(t, k) ==
  /\ made_y < MaxHistChanges
  /\ made_y' = made_y + 1
  /\ changes_y' = [changes_y EXCEPT ![k] = Append(@, made_y + 1)]
  /\ key_y' = [key_y EXCEPT ![t] = k]

(* RdbWriteValueDirect by an RPC thread or by the metrics thread: the lock   *)
(* of the database is shared, that of the entry is held alone.               *)
HistoryWrites(t, k) ==
  /\ \/ t \in RpcWriters /\ k \in UserKeys /\ server_y = "up"
     \/ t = Metrics /\ k = OtherMetric /\ server_y \notin {"down", "starts"}
  /\ step_y[t] = "idle"
  /\ k \in enabled
  /\ EntryFree(k)
  /\ Changes(t, k)
  /\ At(t, "logs")
  /\ UNCHANGED <<stored_z, memory_z, server_y, toggles_y, ends_y, fault_y>>

(* The record t is about to add: the last change of its key.                 *)
Record(t) == [key |-> key_y[t], n |-> Last(changes_y[key_y[t]])]

Fits(t) == Used + Size(key_y[t]) <= BufferSize

(* RdbHistoryAdd, with the history's lock: the record is copied to the       *)
(* buffer, ...                                                               *)
HistoryAdds(t) ==
  /\ step_y[t] = "logs" /\ HistoryFree /\ buffer_y = "open"
  /\ Fits(t)
  /\ hist_y' = Append(hist_y, Record(t))
  /\ fault_y' = IF Used + Size(key_y[t]) <= BufferSize THEN fault_y ELSE <<t, key_y[t], "overrun">>
  /\ At(t, "idle")
  /\ UNCHANGED <<stored_z, buffer_y, key_y, server_y, changes_y, made_y, toggles_y, ends_y>>

(* ... which is flushed first if it has no room.                             *)
HistoryFull(t) ==
  /\ step_y[t] = "logs" /\ HistoryFree /\ buffer_y = "open"
  /\ ~ Fits(t)
  /\ At(t, "makes_room")
  /\ UNCHANGED <<stored_z, memory_z, key_y, server_y, changes_y, made_y, toggles_y, ends_y, fault_y>>

(* RdbHistoryFlushUnlocked: row after row is written; ...                    *)
FlushRow(t) ==
  /\ step_y[t] \in {"makes_room", "flushes"}
  /\ hist_y # <<>>
  /\ rows_y' = [rows_y EXCEPT ![Head(hist_y).key] = Append(@, Head(hist_y).n)]
  /\ hist_y' = Tail(hist_y)
  /\ UNCHANGED <<enabled, binary, buffer_y, calls_z, server_y, changes_y, made_y, toggles_y, ends_y,
                 fault_y>>

(* The process ends, by the hand of t, and everything in memory with it.     *)
Falls(t, how) ==
  /\ ends_y < MaxHistEnds
  /\ ends_y' = ends_y + 1
  /\ fault_y' = <<t, key_y[t], how>>
  /\ server_y' = "down"
  /\ step_y' = AllIdle
  /\ hist_y' = <<>>
  /\ buffer_y' = "none"
  /\ UNCHANGED <<stored_z, key_y, changes_y, made_y, toggles_y>>

(* It writes to memory that is not its own, and nobody notices.              *)
Unnoticed(t, how, history) ==
  /\ fault_y' = <<t, key_y[t], how>>
  /\ hist_y' = history
  /\ At(t, "idle")
  /\ UNCHANGED <<stored_z, buffer_y, key_y, server_y, changes_y, made_y, toggles_y, ends_y>>

(* ... after a flush the record is copied without a second look: one that is *)
(* longer than the buffer runs over its end.                                 *)
RoomMade(t) ==
  /\ step_y[t] = "makes_room" /\ hist_y = <<>>
  /\ IF Size(key_y[t]) <= BufferSize
     THEN /\ hist_y' = <<Record(t)>>
          /\ At(t, "idle")
          /\ UNCHANGED <<stored_z, buffer_y, key_y, server_y, changes_y, made_y, toggles_y, ends_y, fault_y>>
     ELSE Falls(t, "overrun") \/ Unnoticed(t, "overrun", <<Record(t)>>)

(* A change that is logged before there is a buffer, when the server starts, *)
(* is copied to a null pointer; ...                                          *)
AddsTooEarly(t) ==
  /\ step_y[t] = "logs" /\ HistoryFree /\ buffer_y = "none"
  /\ Falls(t, "null")

(* ... one that is logged when the buffer is gone, to memory that was freed. *)
AddsTooLate(t) ==
  /\ step_y[t] = "logs" /\ HistoryFree /\ buffer_y = "freed"
  /\ Falls(t, "freed") \/ Unnoticed(t, "freed", hist_y)

(* RdbGetHistory: both locks are shared while the buffer is flushed ...      *)
HistoryAsks(t, k) ==
  /\ t \in RpcWriters /\ server_y = "up"
  /\ step_y[t] = "idle"
  /\ k \in enabled
  /\ EntryReadable(k)
  /\ At(t, "asks")
  /\ key_y' = [key_y EXCEPT ![t] = k]
  /\ UNCHANGED <<stored_z, memory_z, server_y, changes_y, made_y, toggles_y, ends_y, fault_y>>

(* Fault: nothing is flushed before a read (ReadersAreTold).                 *)
FlushSkipped(t) ==
  /\ step_y[t] = "asks" /\ HistoryFree
  /\ At(t, "reads")
  /\ UNCHANGED <<stored_z, memory_z, key_y, server_y, changes_y, made_y, toggles_y, ends_y, fault_y>>

FlushBegins(t) ==
  /\ step_y[t] = "asks" /\ HistoryFree
  /\ At(t, "flushes")
  /\ UNCHANGED <<stored_z, memory_z, key_y, server_y, changes_y, made_y, toggles_y, ends_y, fault_y>>

FlushEnds_y(t) ==
  /\ step_y[t] = "flushes" /\ t # HistMain /\ hist_y = <<>>
  /\ At(t, "reads")
  /\ UNCHANGED <<stored_z, memory_z, key_y, server_y, changes_y, made_y, toggles_y, ends_y, fault_y>>

(* ... and the rows of the key are read.                                     *)
HistoryReads(t) ==
  /\ step_y[t] = "reads"
  /\ At(t, "idle")
  /\ UNCHANGED <<stored_z, memory_z, key_y, server_y, changes_y, made_y, toggles_y, ends_y, fault_y>>

(* RdbToggleHistory.                                                         *)
RdbToggleHistory(t, k) ==
  /\ t \in RpcWriters /\ server_y = "up"
  /\ step_y[t] = "idle"
  /\ toggles_y < MaxToggles
  /\ EntryFree(k)
  /\ enabled' = IF k \in enabled THEN enabled \ {k} ELSE enabled \cup {k}
  /\ toggles_y' = toggles_y + 1
  /\ UNCHANGED <<binary, rows_y, memory_z, calls_z, server_y, changes_y, made_y, ends_y, fault_y>>

------------------------------------------------------------------------------
(* SysInitializeExperiment: RdbInit, then the first metric is written, ...   *)
RdbInit ==
  /\ server_y = "down"
  /\ server_y' = "starts"
  /\ enabled' = binary
  /\ IF FirstMetric \in binary
     THEN Changes(HistMain, FirstMetric) /\ At(HistMain, "logs")
     ELSE UNCHANGED <<calls_z, changes_y, made_y>>
  /\ UNCHANGED <<binary, rows_y, memory_z, toggles_y, ends_y, fault_y>>

(* ... the metrics thread started ...                                        *)
SysStartPerformanceMetricsThread ==
  /\ server_y = "starts" /\ step_y[HistMain] = "idle"
  /\ server_y' = "metrics"
  /\ UNCHANGED <<stored_z, memory_z, calls_z, changes_y, made_y, toggles_y, ends_y, fault_y>>

(* ... and the buffer made: RdbInitHistoryBuffer takes the history's lock,   *)
(* and the database's when it makes the key of the buffer's size.            *)
InitLocksHistory ==
  /\ server_y = "metrics" /\ HistoryFree
  /\ server_y' = "makes"
  /\ UNCHANGED <<stored_z, memory_z, calls_z, changes_y, made_y, toggles_y, ends_y, fault_y>>

RdbInitHistoryBuffer ==
  /\ server_y = "makes" /\ Sharing = {}
  /\ server_y' = "up"
  /\ buffer_y' = "open"
  /\ hist_y' = <<>>
  /\ UNCHANGED <<stored_z, calls_z, changes_y, made_y, toggles_y, ends_y, fault_y>>

(* SysCloseExperiment: once the RPC threads are joined the buffer is flushed *)
(* and freed, ...                                                            *)
RdbCloseHistoryBuffer ==
  /\ server_y = "up" /\ HistoryFree
  /\ ends_y < MaxHistEnds
  /\ \A t \in RpcWriters : step_y[t] = "idle"
  /\ server_y' = "closes"
  /\ At(HistMain, "flushes")
  /\ UNCHANGED <<stored_z, memory_z, key_y, changes_y, made_y, toggles_y, ends_y, fault_y>>

CloseFrees ==
  /\ server_y = "closes" /\ hist_y = <<>>
  /\ server_y' = "stops"
  /\ buffer_y' = "freed"
  /\ At(HistMain, "idle")
  /\ UNCHANGED <<stored_z, hist_y, key_y, changes_y, made_y, toggles_y, ends_y, fault_y>>

(* ... the metrics thread joined, and rdb.bin written.                       *)
RdbClose ==
  /\ server_y = "stops" /\ step_y[Metrics] = "idle"
  /\ ends_y < MaxHistEnds
  /\ ends_y' = ends_y + 1
  /\ server_y' = "down"
  /\ binary' = enabled
  /\ buffer_y' = "none"
  /\ UNCHANGED <<enabled, rows_y, hist_y, calls_z, changes_y, made_y, toggles_y, fault_y>>

(* The server is killed: what is in memory is lost.                          *)
Killed ==
  /\ server_y # "down"
  /\ ends_y < MaxHistEnds
  /\ ends_y' = ends_y + 1
  /\ server_y' = "down"
  /\ step_y' = AllIdle
  /\ hist_y' = <<>>
  /\ buffer_y' = "none"
  /\ changes_y' = rows_y
  /\ UNCHANGED <<stored_z, key_y, made_y, toggles_y, fault_y>>

HistoryServes ==
  \/ \E t \in HistThreads, k \in RdbKeys : HistoryWrites(t, k) \/ HistoryAsks(t, k) \/ RdbToggleHistory(t, k)
  \/ \E t \in HistThreads :
       \/ HistoryAdds(t) \/ HistoryFull(t) \/ FlushRow(t) \/ RoomMade(t)
       \/ AddsTooEarly(t) \/ AddsTooLate(t)
       \/ FlushBegins(t) \/ FlushEnds_y(t) \/ HistoryReads(t)
  \/ RdbInit \/ SysStartPerformanceMetricsThread \/ InitLocksHistory \/ RdbInitHistoryBuffer
  \/ RdbCloseHistoryBuffer \/ CloseFrees \/ RdbClose

HistoryNext == HistoryServes \/ Killed

HistorySpec == HistoryInit /\ [][HistoryNext]_vars_z

(* The server is not killed.                                                 *)
HistoryServesSpec == HistoryInit /\ [][HistoryServes]_vars_z

------------------------------------------------------------------------------
HistoryTypeOK ==
  /\ enabled \cup binary \subseteq RdbKeys
  /\ rows_y \in [RdbKeys -> Seq(1 .. MaxHistChanges)]
  /\ changes_y \in [RdbKeys -> Seq(1 .. MaxHistChanges)]
  /\ hist_y \in Seq([key : RdbKeys, n : 1 .. MaxHistChanges])
  /\ buffer_y \in {"none", "open", "freed"}
  /\ step_y \in [HistThreads -> {"idle", "logs", "makes_room", "asks", "flushes", "reads"}]
  /\ key_y \in [HistThreads -> RdbKeys]
  /\ server_y \in {"down", "starts", "metrics", "makes", "up", "closes", "stops"}
  /\ made_y \in 0 .. MaxHistChanges

(* Who is in a call at which time, and when there is a buffer.               *)
WhoActs ==
  /\ server_y # "up" => \A t \in RpcWriters : step_y[t] = "idle"
  /\ step_y[HistMain] \in {"idle", "logs", "flushes"}
  /\ step_y[HistMain] = "logs" => server_y = "starts"
  /\ step_y[HistMain] = "flushes" <=> server_y = "closes"
  /\ step_y[Metrics] \in {"idle", "logs", "makes_room"}
  /\ step_y[Metrics] # "idle" => server_y \notin {"down", "starts"}
  /\ \A t \in HistThreads : step_y[t] = "makes_room" => server_y = "up"
BufferThere ==
  /\ buffer_y = IF server_y \in {"up", "closes"} THEN "open"
                ELSE IF server_y = "stops" THEN "freed" ELSE "none"
  /\ buffer_y # "open" => hist_y = <<>>

(* Nobody else is at an entry that is written.                               *)
WritersAlone ==
  \A t \in HistThreads : WritesEntry(t) =>
    /\ changes_y[key_y[t]] # <<>>
    /\ \A u \in Sharing : u # t => key_y[u] # key_y[t]

(* The numbers of the changes of a key that are in the buffer, and of those  *)
(* that have been logged: all but the one whose write is under way           *)
(* (RdbWriteValueDirect, mxrdb.cpp:829).                                     *)
Buffered(k) == {hist_y[i].n : i \in {j \in DOMAIN hist_y : hist_y[j].key = k}}
Writing(k) == \E t \in HistThreads : WritesEntry(t) /\ key_y[t] = k
Logged(k) == Len(changes_y[k]) - (IF Writing(k) THEN 1 ELSE 0)

(* The table holds the first changes of each key whose history is on, the    *)
(* buffer the others that have been logged, each once and in order.          *)
TableHolds(k) ==
  /\ Len(rows_y[k]) <= Logged(k)
  /\ \A i \in DOMAIN rows_y[k] : rows_y[k][i] = changes_y[k][i]
BufferHolds(k) == Buffered(k) = {changes_y[k][i] : i \in Len(rows_y[k]) + 1 .. Logged(k)}
BufferInOrder ==
  \A i, j \in DOMAIN hist_y : i < j /\ hist_y[i].key = hist_y[j].key => hist_y[i].n < hist_y[j].n

ChangesNumbered ==
  \A k \in RdbKeys :
    /\ \A i \in DOMAIN changes_y[k] : changes_y[k][i] <= made_y
    /\ \A i, j \in DOMAIN changes_y[k] : i < j => changes_y[k][i] < changes_y[k][j]

ChangesLogged == BufferInOrder /\ \A k \in RdbKeys : TableHolds(k) /\ BufferHolds(k)

(* Whoever reads a history is given every change there was (mxrdb.cpp:1033). *)
ReadersAreTold ==
  \A t \in RpcWriters : step_y[t] = "reads" => rows_y[key_y[t]] = changes_y[key_y[t]]

(* Writing outside the buffer takes a record longer than it, or a metric     *)
(* with its history on when the server starts or ends: no RPC thread ever    *)
(* meets a buffer that is not there (mxsystem.cpp:344, 391).                 *)
FaultsKnown ==
  fault_y # <<>> =>
    CASE fault_y[3] = "overrun" -> Size(fault_y[2]) > BufferSize
      [] fault_y[3] = "null" -> fault_y[1] \in {HistMain, Metrics}
      [] fault_y[3] = "freed" -> fault_y[1] = Metrics

(* Who waits for whom: everybody who is in a call waits for a lock only when *)
(* the server starts, holds the history's lock and waits for the database's, *)
(* while the metrics thread holds this and waits for that.                   *)
Waits_y(t) == step_y[t] \in {"logs", "asks"} /\ ~ HistoryFree
StandoffOnlyAtStart ==
  (Sharing # {} /\ \A t \in Sharing : Waits_y(t)) =>
    \/ server_y = "makes" /\ Sharing = {Metrics}
    \/ step_y[HistMain] = "flushes"

HistorySound ==
  /\ HistoryTypeOK /\ WhoActs /\ BufferThere /\ WritersAlone
  /\ FaultsKnown
  /\ StandoffOnlyAtStart
  /\ fault_y = <<>> => ChangesNumbered /\ ChangesLogged /\ ReadersAreTold
=============================================================================
