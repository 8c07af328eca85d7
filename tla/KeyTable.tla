------------------------------ MODULE KeyTable ------------------------------
(***************************************************************************)
(* The table of keys of the realtime database with its search bar, and the  *)
(* dialog that makes a key (frontend/src/RdbViewer.tsx with components:      *)
(* SearchBar.tsx, RdbTable.tsx, ComboSimple.tsx).  The keys are listed and   *)
(* kept already (RdbView); here they come and go while the user searches     *)
(* and fills in the dialog.  Signals outlive the dialog, what its components *)
(* hold does not: they are made anew when it opens.                          *)
(***************************************************************************)
EXTENDS PageCalls

CONSTANTS
  TableKeys,     (* names of keys, '' among them                            *)
  SystemKeys,    (* those under /system/                                    *)
  Containing,    (* query -> the names that contain it                      *)
  DataTexts,     (* what can be typed as a value                            *)
  MaxKeyEvents,  (* bound: keys that others make or delete                  *)
  MaxKeyActs     (* bound: what the user does                               *)

ASSUME TableAssumption ==
  /\ SystemKeys \subseteq TableKeys /\ IsFiniteSet(SystemKeys)
  /\ "" \in TableKeys \ SystemKeys /\ "" \in DataTexts

VARIABLES
  stored,        (* the server's keys, with what the dialog showed for them *)
  keyevents,
  listed,        (* rdbKeys                                                 *)
  keyquery, hideSystemKeys, filteredItems, flen,
  newKeyDialogOpen, newValueType, newValueData, newValueKey,
  validKey, validValue,
  typeLabel, boolLabel,   (* activeLabel of the dialog's combos             *)
  picked_t,      (* history: the combos the user has picked from since they *)
                 (* were put up                                             *)
  keyacts

search_t == <<keyquery, hideSystemKeys, filteredItems, flen>>
entry_t == <<newValueType, newValueData, newValueKey>>
valid_t == <<validKey, validValue>>
combos_t == <<typeLabel, boolLabel, picked_t>>
vars_t == <<stored, keyevents, listed, search_t, newKeyDialogOpen, entry_t, valid_t, combos_t, keyacts>>

(* All other types take a number, as this one does.                         *)
EntryTypes == {"UINT8", "STRING", "BOOL"}
Numeric(t) == t \notin {"STRING", "BOOL"}
(* isNaN(Number(text)): '' is 0.                                            *)
IsNumber(text) == text \in {"", "0", "1"}

(* What createRdbEntry makes of the value                                   *)
ValueMade(t, text) ==
  CASE t = "BOOL" -> (IF text = "1" THEN "1" ELSE "0")
    [] Numeric(t) -> (IF text = "" THEN "0" ELSE text)
    [] t = "STRING" -> text

KeyTableInit ==
  /\ stored \in [SystemKeys -> {[type |-> "UINT8", data |-> "0", shown |-> <<"UINT8", "0">>, picked |-> {}]}]
  /\ listed = DOMAIN stored /\ keyevents = 0
  /\ keyquery = "" /\ hideSystemKeys = FALSE /\ filteredItems = listed /\ flen = 0
  /\ newKeyDialogOpen = FALSE /\ newValueType = "UINT8" /\ newValueData = "" /\ newValueKey = ""
  /\ validKey = FALSE /\ validValue = FALSE
  /\ typeLabel = "UINT8" /\ boolLabel = "1" /\ picked_t = {} /\ keyacts = 0

KeyActs == Calm /\ keyacts < MaxKeyActs /\ keyacts' = keyacts + 1

------------------------------------------------------------------------------
(* The items of the search bar, and its effect on every change of these and *)
(* of the query.                                                            *)
Items(ks, hide) == IF hide THEN ks \ SystemKeys ELSE ks
Matches(items, q) == IF q = "" THEN {} ELSE items \cap Containing[q]
Filters(ks, q, hide) ==
  /\ filteredItems' = IF q # "" THEN Matches(Items(ks, hide), q) ELSE Items(ks, hide)
  /\ flen' = Cardinality(Matches(Items(ks, hide), q))

(* The dialog is modal: it is closed before anything else is done.          *)
Search(q) ==
  /\ KeyActs /\ ~ newKeyDialogOpen /\ q # keyquery
  /\ keyquery' = q /\ Filters(listed, q, hideSystemKeys)
  /\ UNCHANGED <<calls, stored, keyevents, listed, hideSystemKeys, newKeyDialogOpen, entry_t, valid_t, combos_t>>

ToggleSystemKeys ==
  /\ KeyActs /\ ~ newKeyDialogOpen
  /\ hideSystemKeys' = ~ hideSystemKeys /\ Filters(listed, keyquery, ~ hideSystemKeys)
  /\ UNCHANGED <<calls, stored, keyevents, listed, keyquery, newKeyDialogOpen, entry_t, valid_t, combos_t>>

------------------------------------------------------------------------------
(* validateValueKey, evaluated while the name's field is shown, on every     *)
(* change of the name and of the keys.                                      *)
NameTaken(k, ks) == k \in SystemKeys \/ k \in ks
ValidatesKey(k, ks) == validKey' = ~ NameTaken(k, ks)

(* validateValueData, evaluated while the field for a number is shown.  The  *)
(* fields for a text and for BOOL never evaluate it: what it found last for  *)
(* a number stays.                                                          *)
ValidatesData(t, text) == validValue' = IF Numeric(t) THEN IsNumber(text) ELSE validValue

(* The combo of BOOL is made when BOOL is first shown, with True; a default  *)
(* is not reported.                                                         *)
ShowsDialog ==
  /\ KeyActs /\ ~ newKeyDialogOpen
  /\ newKeyDialogOpen' = TRUE
  /\ ValidatesKey(newValueKey, listed) /\ ValidatesData(newValueType, newValueData)
  /\ typeLabel' = "UINT8" /\ boolLabel' = "1" /\ picked_t' = {}
  /\ UNCHANGED <<calls, stored, keyevents, listed, search_t, entry_t>>

CancelsDialog ==
  /\ KeyActs /\ newKeyDialogOpen
  /\ newKeyDialogOpen' = FALSE
  /\ UNCHANGED <<calls, stored, keyevents, listed, search_t, entry_t, valid_t, combos_t>>

NamesKey(k) ==
  /\ KeyActs /\ newKeyDialogOpen /\ k # newValueKey
  /\ newValueKey' = k /\ ValidatesKey(k, listed)
  /\ UNCHANGED <<calls, stored, keyevents, listed, search_t, newKeyDialogOpen, newValueType, newValueData,
                 validValue, combos_t>>

(* onClick of ComboSimple                                                   *)
ChoosesType(t) ==
  /\ KeyActs /\ newKeyDialogOpen
  /\ typeLabel' = t /\ newValueType' = t
  /\ boolLabel' = IF newValueType # "BOOL" /\ t = "BOOL" THEN "1" ELSE boolLabel
  /\ picked_t' = {"type"} \cup (IF newValueType = "BOOL" /\ t = "BOOL" THEN picked_t ELSE {})
  /\ ValidatesData(t, newValueData)
  /\ UNCHANGED <<calls, stored, keyevents, listed, search_t, newKeyDialogOpen, newValueData, newValueKey, validKey>>

TypesData(text) ==
  /\ KeyActs /\ newKeyDialogOpen /\ newValueType # "BOOL" /\ text # newValueData
  /\ newValueData' = text /\ ValidatesData(newValueType, text)
  /\ UNCHANGED <<calls, stored, keyevents, listed, search_t, newKeyDialogOpen, newValueType, newValueKey,
                 validKey, combos_t>>

PicksBool(b) == boolLabel' = b /\ newValueData' = b

ChoosesBool(b) ==
  /\ KeyActs /\ newKeyDialogOpen /\ newValueType = "BOOL"
  /\ PicksBool(b) /\ picked_t' = picked_t \cup {"bool"}
  /\ UNCHANGED <<calls, stored, keyevents, listed, search_t, newKeyDialogOpen, newValueType, newValueKey,
                 valid_t, typeLabel>>

(* createRdbEntry                                                           *)
CreateRdbEntry ==
  /\ KeyActs /\ newKeyDialogOpen /\ validKey /\ validValue
  /\ newKeyDialogOpen' = FALSE
  /\ Ask(<<[what |-> "make", k |-> newValueKey, picked |-> picked_t,
            type |-> newValueType, data |-> ValueMade(newValueType, newValueData),
            shown |-> <<typeLabel, IF newValueType = "BOOL" THEN boolLabel ELSE ValueMade(newValueType, newValueData)>>]>>)
  /\ UNCHANGED <<down, stored, keyevents, listed, search_t, entry_t, valid_t, combos_t>>

------------------------------------------------------------------------------
(* RdbNewEntry refuses a name there is.                                     *)
ServeMake ==
  LET m == Head(up)
      new == m.k \notin DOMAIN stored
      entry == [type |-> m.type, data |-> m.data, shown |-> m.shown, picked |-> m.picked]
  IN /\ Serving("make") /\ up' = Tail(up)
     /\ stored' = IF new THEN With(stored, m.k, entry) ELSE stored
     /\ down' = down \o (IF new THEN <<Event([what |-> "keycreated", k |-> m.k])>> ELSE <<>>)
                     \o <<[what |-> "made", ok |-> new]>>
     /\ UNCHANGED <<keyevents, listed, search_t, newKeyDialogOpen, entry_t, valid_t, combos_t, keyacts>>

OthersMakeKey ==
  /\ Unhurried /\ keyevents < MaxKeyEvents /\ keyevents' = keyevents + 1
  /\ \E k \in TableKeys :
       IF k \in DOMAIN stored
       THEN stored' = Without(stored, k) /\ Tell([what |-> "keydeleted", k |-> k])
       ELSE /\ stored' = With(stored, k, [type |-> "UINT8", data |-> "0", shown |-> <<"UINT8", "0">>, picked |-> {}])
            /\ Tell([what |-> "keycreated", k |-> k])
  /\ UNCHANGED <<up, listed, search_t, newKeyDialogOpen, entry_t, valid_t, combos_t, keyacts>>

(* The table, the dialog if it is open, and the counts follow the keys.     *)
KeyEventArrives ==
  LET m == Head(down)
  IN /\ \/ Getting("keycreated") /\ listed' = listed \cup {m.k}
        \/ Getting("keydeleted") /\ listed' = listed \ {m.k}
     /\ Got /\ Filters(listed', keyquery, hideSystemKeys)
     /\ IF newKeyDialogOpen THEN ValidatesKey(newValueKey, listed') ELSE UNCHANGED validKey
     /\ UNCHANGED <<up, stored, keyevents, keyquery, hideSystemKeys, newKeyDialogOpen, entry_t, validValue,
                    combos_t, keyacts>>

(* The answer is written to the console.                                    *)
MadeArrives == Getting("made") /\ Got /\ UNCHANGED up /\ UNCHANGED vars_t

KeyTableNext ==
  \/ \E q \in DOMAIN Containing \cup {""} : Search(q)
  \/ ToggleSystemKeys \/ ShowsDialog \/ CancelsDialog
  \/ \E k \in TableKeys : NamesKey(k)
  \/ \E t \in EntryTypes : ChoosesType(t)
  \/ \E text \in DataTexts : TypesData(text)
  \/ \E b \in {"0", "1"} : ChoosesBool(b)
  \/ CreateRdbEntry \/ ServeMake \/ OthersMakeKey \/ KeyEventArrives \/ MadeArrives

------------------------------------------------------------------------------
KeyTableTypeOK ==
  /\ DOMAIN stored \subseteq TableKeys /\ listed \subseteq TableKeys
  /\ keyquery \in DOMAIN Containing \cup {""} /\ filteredItems \subseteq TableKeys
  /\ {hideSystemKeys, newKeyDialogOpen, validKey, validValue} \subseteq BOOLEAN
  /\ {newValueType, typeLabel} \subseteq EntryTypes /\ newValueKey \in TableKeys
  /\ newValueData \in DataTexts \cup {"0", "1"} /\ boolLabel \in {"0", "1"}
  /\ flen \in Nat /\ picked_t \subseteq {"type", "bool"}

(* The table has the keys that are listed now, match what is searched now    *)
(* and are not hidden, and the count of matches is theirs, whether the keys, *)
(* the query or the switch for the system's keys changed last.               *)
TableRight ==
  LET items == {k \in listed : hideSystemKeys => k \notin SystemKeys}
      matching == IF keyquery = "" THEN items ELSE items \cap Containing[keyquery]
  IN route = "keytable" =>
       filteredItems = matching /\ (keyquery # "" => flen = Cardinality(matching))

(* Create is offered only for a name that is not the system's and that the   *)
(* page does not list, also when others made the key while the dialog was    *)
(* open or closed, and for a value of the type, also when the type changed   *)
(* after the value was typed.  (The reverse fails: after a text that is no   *)
(* number, Create stays disabled for STRING and BOOL.)                       *)
CreateOffered ==
  (newKeyDialogOpen /\ validKey /\ validValue) =>
    /\ newValueKey \notin SystemKeys \cup listed
    /\ Numeric(newValueType) => IsNumber(newValueData)

(* Every key the dialog made has the type and the value that the dialog      *)
(* showed when Create was pressed, but for what was never picked since the   *)
(* dialog was opened: then it shows UINT8 whatever type was picked in an     *)
(* earlier dialog, and True whatever the value was (ComboSimple.tsx:32).     *)
MadeAsShown ==
  \A k \in DOMAIN stored :
    LET e == stored[k]
    IN /\ e.type = e.shown[1] \/ "type" \notin e.picked
       /\ e.data = e.shown[2] \/ (e.type = "BOOL" /\ "bool" \notin e.picked)
=============================================================================
