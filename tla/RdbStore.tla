------------------------------ MODULE RdbStore ------------------------------
(***************************************************************************)
(* What the realtime database promises its users: a map from keys to       *)
(* values that is created, written and deleted key by key, is written to   *)
(* <experiment home>/rdb.bin when the server closes, and is read back when *)
(* the server starts.  Nothing is said of pools, blocks or offsets: that   *)
(* is RdbPool, which is shown to implement this module.                    *)
(*                                                                         *)
(* Saving is not atomic (the file is truncated, then written), so a crash  *)
(* between the two leaves nothing to read back; a crash at any other time  *)
(* costs what was done since the server started, and nothing else.         *)
(*                                                                         *)
(* The store can also be overrun by its own growth.  From then on until    *)
(* the process has ended it promises nothing: neither what is read nor     *)
(* what becomes of the file.                                               *)
(***************************************************************************)
EXTENDS Naturals, Sequences

CONSTANTS
  Keys,       (* the names of the keys                                      *)
  Data        (* the values a key can hold: sequences of cells              *)

VARIABLES
  phase,      (* "down" | "up" | "saving" | "overrun"                       *)
  store,      (* the values of the existing keys, a function on those keys  *)
  saved,      (* the values in the file                                     *)
  readable    (* FALSE: the file is truncated, or not known                 *)

vars == <<phase, store, saved, readable>>

Nothing == [k \in {} |-> <<>>]

Init ==
  /\ phase = "down"
  /\ store = Nothing
  /\ saved = Nothing
  /\ readable = TRUE

Start ==
  /\ phase = "down"
  /\ readable
  /\ phase' = "up"
  /\ store' = saved
  /\ UNCHANGED <<saved, readable>>

Create(k, d) ==
  /\ phase = "up"
  /\ k \notin DOMAIN store
  /\ store' = [x \in DOMAIN store \cup {k} |-> IF x = k THEN d ELSE store[x]]
  /\ UNCHANGED <<phase, saved, readable>>

(* A write replaces a value by one of the same length.                     *)
Write(k, d) ==
  /\ phase = "up"
  /\ k \in DOMAIN store
  /\ Len(d) = Len(store[k])
  /\ store' = [store EXCEPT ![k] = d]
  /\ UNCHANGED <<phase, saved, readable>>

Delete(k) ==
  /\ phase = "up"
  /\ k \in DOMAIN store
  /\ store' = [x \in DOMAIN store \ {k} |-> store[x]]
  /\ UNCHANGED <<phase, saved, readable>>

BeginSave ==
  /\ phase = "up"
  /\ phase' = "saving"
  /\ saved' = Nothing
  /\ readable' = FALSE
  /\ UNCHANGED store

EndSave ==
  /\ phase = "saving"
  /\ phase' = "down"
  /\ saved' = store
  /\ readable' = TRUE
  /\ store' = Nothing

Crash ==
  /\ phase # "down"
  /\ phase' = "down"
  /\ store' = Nothing
  /\ UNCHANGED <<saved, readable>>

Overrun ==
  /\ phase = "up"
  /\ phase' = "overrun"
  /\ UNCHANGED <<store, saved, readable>>

OverrunSaves ==
  /\ phase = "overrun"
  /\ phase' = "down"
  /\ store' = Nothing
  /\ saved' = Nothing
  /\ readable' = FALSE

Next ==
  \/ Start
  \/ \E k \in Keys, d \in Data : Create(k, d) \/ Write(k, d)
  \/ \E k \in Keys : Delete(k)
  \/ BeginSave
  \/ EndSave
  \/ Crash
  \/ Overrun \/ OverrunSaves

Spec == Init /\ [][Next]_vars
=============================================================================
