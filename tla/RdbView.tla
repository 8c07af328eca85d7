------------------------------ MODULE RdbView ------------------------------
(***************************************************************************)
(* The page of the realtime database (frontend/src/RdbViewer.tsx with       *)
(* lib/rdb.ts, lib/rset.ts, components/SearchBar.tsx, RdbTable.tsx and       *)
(* rdb/mxrdb.cpp): the keys, listed once and then kept by the events of      *)
(* their creation and deletion, and the key the user selected, whose type    *)
(* and value are read and whose value is then watched.                       *)
(***************************************************************************)
EXTENDS PageCalls

CONSTANTS
  RdbNames,     (* names of keys                                            *)
  SystemNames,  (* those under /system/, which the page may not change      *)
  ValueTypes,   (* value types                                              *)
  NoKey,        (* '', nothing is selected                                  *)
  NoType,       (* '': no type was read yet, or that of a key that is absent *)
  Decodes,      (* type -> types whose values can be decoded as that type    *)
  MaxRdbActs    (* bound: changes of the database, and selections           *)

ASSUME RdbNamesAssumption ==
  SystemNames \subseteq RdbNames /\ NoKey \notin RdbNames /\ MaxRdbActs \in Nat
ASSUME DecodesAssumption ==
  /\ NoType \notin ValueTypes /\ Decodes \in [ValueTypes -> SUBSET ValueTypes]
  /\ \A t \in ValueTypes : t \in Decodes[t]

VARIABLES
  rdb,            (* the server's keys: type and number of the last change  *)
  rdbchanges,     (* changes made                                         *)
  watched,        (* keys whose watch event the server sends to the page    *)
  listing,        (* "untold", "told" (listed) or "kept" (subscribed to
                     the creations and deletions as well)                   *)
  rdbKeys,        (* the keys shown                                         *)
  selectedItem, type, value, last_resolve,
  watches,        (* watch callbacks: key -> the type they decode with      *)
  choices,
  misread,        (* history: a change was read as another key's type       *)
  unheard,        (* history: a key came or went between list and "kept"    *)
  remade,         (* history: the key selected was deleted meanwhile      *)
  late,           (* history: it changed when it was read and not watched *)
  thrown          (* history: the last value read could not be decoded    *)

vars_k == <<rdb, rdbchanges, watched, listing, rdbKeys, selectedItem, type, value,
            last_resolve, watches, choices, misread, unheard, remade, late, thrown>>
server_k == <<rdb, rdbchanges, watched, listing, unheard, late>>
page_k == <<rdbKeys, selectedItem, type, value, last_resolve, watches, choices, misread, thrown>>

Absent == [type |-> NoType, n |-> 0]
ShownAs(k, as, entry) == [k |-> k, as |-> as, type |-> entry.type, n |-> entry.n]
Reads(k) == IF k \in DOMAIN rdb THEN rdb[k] ELSE Absent

ReadFor(k, t, first) == [what |-> "read", k |-> k, type |-> t, first |-> first]
ReadAnswer(m, entry) == [what |-> "read", k |-> m.k, type |-> m.type, first |-> m.first, read |-> entry]
WatchFor(k, t) == [what |-> "watch", k |-> k, type |-> t, on |-> TRUE]
UnwatchFor(k) == [what |-> "watch", k |-> k, type |-> NoType, on |-> FALSE]

RdbInit ==
  /\ rdb \in [RdbNames -> [type : ValueTypes, n : {0}]] /\ rdbchanges = 0
  /\ watched = {} /\ listing = "untold" /\ rdbKeys = {}
  /\ selectedItem = NoKey /\ type = NoType /\ value = ShownAs(NoKey, NoType, Absent)
  /\ last_resolve = TRUE /\ watches = <<>> /\ choices = 0 /\ unheard = FALSE
  /\ misread = FALSE /\ remade = FALSE /\ late = FALSE /\ thrown = FALSE
RdbCalls == <<[what |-> "keys"], [what |-> "keep"]>>

------------------------------------------------------------------------------
(* The server.  RdbNewEntry and RdbWriteValueDirect tell who watches the     *)
(* key, RdbNewEntry and RdbDeleteEntry who follows the list.                 *)
Events(k, e) ==
  (IF k \in watched /\ e # "deleted" THEN <<Event([what |-> "changed", k |-> k])>> ELSE <<>>)
  \o (IF listing = "kept" /\ e # "written" THEN <<Event([what |-> e, k |-> k])>> ELSE <<>>)

WillRead ==
  Flowing({"meta"}) \/ \E m \in Range(up) : m.what = "read"

Changed(k, e, entries) ==
  /\ rdb' = entries /\ rdbchanges' = rdbchanges + 1
  /\ down' = down \o Events(k, e)
  /\ unheard' = (unheard \/ (e # "written" /\ listing = "told"))
  /\ remade' = (remade \/ (e = "deleted" /\ k = selectedItem))
  /\ late' = (late \/ (k = selectedItem /\ k \notin watched /\ ~ WillRead))

RdbWriteValueDirect(k) ==
  k \in DOMAIN rdb /\ Changed(k, "written", [rdb EXCEPT ![k].n = rdbchanges + 1])
RdbDeleteValueDirect(k) ==
  k \in DOMAIN rdb /\ Changed(k, "deleted", Without(rdb, k))
RdbCreateValueDirect(k, t) ==
  k \notin DOMAIN rdb /\ Changed(k, "created", With(rdb, k, [type |-> t, n |-> rdbchanges + 1]))

OthersChangeRdb ==
  /\ Unhurried /\ rdbchanges + choices < MaxRdbActs
  /\ \E k \in RdbNames : \/ RdbWriteValueDirect(k)
                         \/ RdbDeleteValueDirect(k)
                         \/ \E t \in ValueTypes : RdbCreateValueDirect(k, t)
  /\ UNCHANGED <<up, watched, listing, page_k>>

(* What the page asked for; one that is refused changes nothing.            *)
ServeChange ==
  /\ Serving("change") /\ up' = Tail(up)
  /\ LET m == Head(up)
     IN CASE m.e = "written" /\ m.k \in DOMAIN rdb /\ m.type = rdb[m.k].type -> RdbWriteValueDirect(m.k)
          [] m.e = "deleted" /\ m.k \in DOMAIN rdb -> RdbDeleteValueDirect(m.k)
          [] m.e = "created" /\ m.k \notin DOMAIN rdb -> RdbCreateValueDirect(m.k, m.type)
          [] OTHER -> UNCHANGED <<rdb, rdbchanges, down, unheard, remade, late>>
  /\ UNCHANGED <<watched, listing, page_k>>

ServeKeys ==
  /\ \/ /\ Serving("keys") /\ Serve([what |-> "keys", keys |-> DOMAIN rdb])
        /\ listing' = "told"
     \/ /\ Serving("keep") /\ up' = Tail(up) /\ down' = down
        /\ listing' = "kept"
  /\ UNCHANGED <<rdb, rdbchanges, watched, unheard, remade, late, page_k>>

(* RdbReadKeyMetadata, RdbReadValueDirect, RdbWatch (which only names the    *)
(* event), and what subscribe and unsubscribe of the socket then ask.        *)
ServeReads ==
  LET m == Head(up)
  IN /\ \/ Serving("meta") /\ Serve([what |-> "meta", type |-> Reads(m.k).type]) /\ watched' = watched
        \/ Serving("read") /\ Serve(ReadAnswer(m, Reads(m.k))) /\ watched' = watched
        \/ Serving("watch") /\ Serve(m) /\ watched' = watched
        \/ Serving("subscribe") /\ up' = Tail(up) /\ down' = down /\ watched' = watched \cup {m.k}
        \/ Serving("unsubscribe") /\ up' = Tail(up) /\ down' = down /\ watched' = watched \ {m.k}
     /\ UNCHANGED <<rdb, rdbchanges, listing, unheard, remade, late, page_k>>

------------------------------------------------------------------------------
(* createSetStore: add, remove                                              *)
SetAdd(ks, k) == IF k \notin ks THEN ks \cup {k} ELSE ks
SetRemove(ks, k) == IF k \in ks THEN ks \ {k} ELSE ks

RdbKeysArrive ==
  LET m == Head(down)
  IN /\ down # <<>> /\ m.what \in {"keys", "created", "deleted"} /\ Got
     /\ rdbKeys' = CASE m.what = "keys" -> m.keys
                     [] m.what = "created" -> SetAdd(rdbKeys, m.k)
                     [] m.what = "deleted" -> SetRemove(rdbKeys, m.k)
     /\ UNCHANGED <<up, server_k, remade, selectedItem, type, value, last_resolve, watches, choices,
                    misread, thrown>>

(* The effect of RdbKeyDisplay: what was selected is no longer watched, what *)
(* is selected now is asked for.                                             *)
Chosen(k) ==
  /\ selectedItem' = k
  /\ remade' = (k \notin DOMAIN rdb) /\ late' = FALSE /\ misread' = FALSE
  /\ choices' = choices + 1

(* A row of the table is clicked, of any key that is listed: the search only *)
(* hides some (KeyTable).                                                   *)
RowClick(k) == k \in rdbKeys

SelectKey(k) ==
  /\ Calm /\ rdbchanges + choices < MaxRdbActs /\ k # selectedItem /\ (RowClick(k) \/ k = NoKey)
  /\ Chosen(k)
  /\ Ask((IF selectedItem # NoKey THEN <<UnwatchFor(selectedItem)>> ELSE <<>>)
         \o (IF k # NoKey THEN <<[what |-> "meta", k |-> k]>> ELSE <<>>))
  /\ UNCHANGED <<down, rdb, rdbchanges, watched, listing, unheard, rdbKeys, type, value, last_resolve,
                 watches, thrown>>

(* The type is shown and tells how values are decoded; what is then read   *)
(* and watched is the key selected by now.  The metadata of an absent key    *)
(* are eight empty bytes, which are no number of a type.                     *)
ReadType(t) == t

RdbTypeArrives ==
  LET t == Head(down).type
  IN /\ Getting("meta") /\ Got
     /\ type' = t /\ last_resolve' = TRUE
     /\ Ask(<<ReadFor(selectedItem, ReadType(t), TRUE), WatchFor(selectedItem, t)>>)
     /\ UNCHANGED <<server_k, remade, rdbKeys, selectedItem, value, watches, choices, misread, thrown>>

(* MxRdb: watch, unwatch; subscribe replaces the callback of the event.     *)
Unwatched(k) ==
  /\ watches' = Without(watches, k)
  /\ Ask(IF k \in DOMAIN watches THEN <<[what |-> "unsubscribe", k |-> k]>> ELSE <<>>)

RdbWatchArrives ==
  LET m == Head(down)
  IN /\ Getting("watch") /\ Got
     /\ IF m.on
        THEN /\ watches' = With(watches, m.k, m.type)
             /\ Ask(<<[what |-> "subscribe", k |-> m.k]>>)
        ELSE Unwatched(m.k)
     /\ UNCHANGED <<server_k, remade, rdbKeys, selectedItem, type, value, last_resolve, choices,
                    misread, thrown>>

(* A change is read, unless a read for a change is under way, and decoded    *)
(* with the type that the watch was given.                                   *)
ChangeArrives ==
  LET k == Head(down).k
  IN /\ Getting("changed") /\ Got
     /\ IF k \in DOMAIN watches /\ last_resolve
        THEN /\ last_resolve' = FALSE /\ Ask(<<ReadFor(k, watches[k], FALSE)>>)
             /\ misread' = (misread \/ (watches[k] # type /\ ~ Flowing({"meta"})))
        ELSE UNCHANGED <<last_resolve, up, misread>>
     /\ UNCHANGED <<server_k, remade, rdbKeys, selectedItem, type, value, watches, choices, thrown>>

(* astype: null, whose toString throws, without a type, and a RangeError for *)
(* a value that is not of the type's size; what an absent key reads as can   *)
(* be decoded as any type.                                                   *)
Decodable(as, t) == as # NoType /\ (t = NoType \/ t \in Decodes[as])

(* Fault: the answer does not allow the next read (ValueFresh).             *)
StaysClosed(first) == last_resolve
Resolved(first) == last_resolve \/ ~ first

RdbValueArrives ==
  LET m == Head(down)
  IN /\ Getting("read") /\ Got
     /\ \/ /\ Decodable(m.type, m.read.type)
           /\ value' = ShownAs(m.k, m.type, m.read)
           /\ last_resolve' = Resolved(m.first)
           /\ thrown' = FALSE
        \/ /\ ~ Decodable(m.type, m.read.type)
           /\ thrown' = TRUE
           /\ UNCHANGED <<value, last_resolve>>
     /\ UNCHANGED <<up, server_k, remade, rdbKeys, selectedItem, type, watches, choices, misread>>

(* Save, Delete and Create of the dialogs                                   *)
RequestChange(k, e, t) ==
  /\ Calm /\ rdbchanges + choices < MaxRdbActs /\ ~ Flowing({"change"})
  /\ IF e = "created" THEN k \notin rdbKeys ELSE k = selectedItem
  /\ k \in RdbNames \ SystemNames
  /\ e = "written" => t = type
  /\ Ask(<<[what |-> "change", k |-> k, e |-> e, type |-> t]>>
         \o IF e = "deleted" THEN <<UnwatchFor(k)>> ELSE <<>>)
  /\ IF e = "deleted" THEN selectedItem' = NoKey ELSE UNCHANGED selectedItem
  /\ UNCHANGED <<down, server_k, remade, rdbKeys, type, value, last_resolve, watches, choices, misread,
                 thrown>>

RdbNext ==
  \/ OthersChangeRdb \/ ServeChange \/ ServeKeys \/ ServeReads
  \/ RdbKeysArrive \/ RdbTypeArrives \/ RdbWatchArrives \/ ChangeArrives \/ RdbValueArrives
  \/ \E k \in RdbNames \cup {NoKey} : SelectKey(k)
  \/ \E k \in RdbNames, e \in {"written", "deleted", "created"}, t \in ValueTypes \cup {NoType} :
       (e # "deleted" \/ t = NoType) /\ (e = "created" => t # NoType) /\ RequestChange(k, e, t)

------------------------------------------------------------------------------
RdbViewTypeOK ==
  /\ DOMAIN rdb \subseteq RdbNames
  /\ \A k \in DOMAIN rdb : rdb[k] \in [type : ValueTypes, n : 0 .. MaxRdbActs + 1]
  /\ rdbchanges \in 0 .. MaxRdbActs + 1 /\ watched \subseteq RdbNames \cup {NoKey}
  /\ listing \in {"untold", "told", "kept"} /\ rdbKeys \subseteq RdbNames
  /\ selectedItem \in RdbNames \cup {NoKey} /\ type \in ValueTypes \cup {NoType}
  /\ value.k \in RdbNames \cup {NoKey} /\ value.as \in ValueTypes \cup {NoType}
  /\ DOMAIN watches \subseteq RdbNames \cup {NoKey}
  /\ {last_resolve, misread, unheard, remade, late, thrown} \subseteq BOOLEAN
  /\ choices \in 0 .. MaxRdbActs

Settled == Quiet("rdb")

(* Once nothing is under way the keys shown are the keys there are, unless   *)
(* one came or went after the list was made and before the server had the    *)
(* subscription, which the page asks for next.                               *)
KeysRight == (Settled /\ ~ unheard) => rdbKeys = DOMAIN rdb

(* Once nothing is under way the value shown is the last one of the key      *)
(* selected, however quickly keys were selected one after the other and      *)
(* values changed, but for a change between the first read of the value and  *)
(* the subscription, two round trips later: that is how the display "might   *)
(* not show the last updated value" (RdbViewer.tsx:106); or if the last value *)
(* read could not be decoded, after which the display may follow no change    *)
(* until a key is selected: nothing else keeps the flag down.                 *)
ValueFresh ==
  (Settled /\ ~ thrown) =>
    /\ last_resolve
    /\ (selectedItem \in DOMAIN rdb /\ ~ late) =>
         value.k = selectedItem /\ value.n = rdb[selectedItem].n

(* A value can be decoded, unless the key was absent, was deleted or was made *)
(* again since it was selected, or a change was read as another key's type.   *)
ValueReadable ==
  (Settled /\ selectedItem # NoKey /\ thrown) => remade \/ misread

(* The type shown is that of the key selected, unless the key was deleted    *)
(* and made again since: the type is read once.  The value was decoded as    *)
(* that type, but for one race: metadata asked for another key gave the type *)
(* to the first of two watches of the key, since the key was selected again  *)
(* before it came, and a change was read between their answers.              *)
TypeShown ==
  (Settled /\ selectedItem # NoKey /\ ~ remade) =>
    type = rdb[selectedItem].type /\ (~ misread => value.as = type)

(* The page follows the key selected and no other: nothing keeps the server  *)
(* sending values of keys looked at before.  (A selection cleared before its *)
(* metadata came leaves a watch of '' behind, which no key matches.)          *)
SelectedWatched ==
  Settled => watched \ {NoKey} = {selectedItem} \ {NoKey}
=============================================================================
