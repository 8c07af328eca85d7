---------------------------- MODULE HistoryView ----------------------------
(***************************************************************************)
(* The history page (frontend/src/HistoryViewer.tsx): displays, each the    *)
(* plot of some keys, made in a dialog and kept in the user's metadata on   *)
(* the server (lib/usermeta.ts), which is read and written as a whole.  The *)
(* displays outlive the page; a change makes every plot anew, and each plot *)
(* watches its keys (lib/rdb.ts).  One browser of the user is modelled.     *)
(***************************************************************************)
EXTENDS PageCalls

CONSTANTS
  DbKeys,      (* keys, numbered in the order the server lists them         *)
  LateKeys,    (* those that do not exist at the start                      *)
  DisplayNames,       (* names of displays                                         *)
  Window,      (* points a plot keeps                                       *)
  MaxEdits,    (* bound: displays made or removed                           *)
  MaxKeyChanges, MaxValues, MaxMounts, (* bounds: keys made or deleted,     *)
               (*   values written, times the page is mounted               *)
  MaxHistActs  (* bound: all of these together                              *)

VARIABLES
  dbkeys,                         (* keys the database has                  *)
  saved,                          (* metadata hpm_keys: <<displays>> or none *)
  displays,                       (* names and keys, in order               *)
  rdbKeyTypes,                    (* key -> type; a key's type is its name  *)
  selectedKeys,                   (* those chosen in the dialog             *)
  openHPM, searching,             (* the dialog; whether it ever subscribed *)
  mounted,                        (* times the page was mounted             *)
  shown_h,                        (* whether the page is shown              *)
  generation,                     (* of the plots                           *)
  watching,                       (* key -> generation and name, or none    *)
  plots,                          (* name -> its series, key to points      *)
  edits, keychanges, values,
  wanted,                         (* history: the displays the user wants   *)
  interrupted,                    (* history: left, or removed, while calls *)
  listraced                       (* history: a key changed between lists   *)

store_h == <<displays, generation, plots>>
dialog_h == <<selectedKeys, openHPM, searching>>
past_h == <<edits, keychanges, values, wanted, interrupted, listraced>>
vars_h == <<dbkeys, saved, store_h, rdbKeyTypes, dialog_h, mounted, shown_h, watching, past_h>>

NameSet(ds) == {ds[i].name : i \in DOMAIN ds}
KeysListed(K) == SetToSortSeq(K, <)
Loading == {"load", "keys", "types"}

HistInit ==
  /\ dbkeys = DbKeys \ LateKeys
  /\ saved \in {<<>>, <<<<[name |-> (CHOOSE n \in DisplayNames : TRUE), keys |-> dbkeys]>>>>}
  /\ wanted = UNION {NameSet(ds) : ds \in Range(saved)}
  /\ displays = <<>> /\ rdbKeyTypes = <<>>
  /\ selectedKeys = {} /\ openHPM = FALSE /\ searching = FALSE
  /\ mounted = 0 /\ shown_h = FALSE /\ generation = 0
  /\ watching = [k \in DbKeys |-> <<0, "">>] /\ plots = <<>>
  /\ edits = 0 /\ keychanges = 0 /\ values = 0
  /\ interrupted = FALSE /\ listraced = FALSE

(* Empty series for every display, and what watching their keys asks.       *)
Emptied(ds) ==
  [n \in NameSet(ds) |->
     [k \in (CHOOSE d \in Range(ds) : d.name = n).keys |-> <<>>]]
(* Fault: only the last display watches its keys (LastPlotFed).             *)
WatchesOfLast(ds, g) ==
  LET ks == IF ds = <<>> THEN <<>> ELSE KeysListed(Last(ds).keys)
  IN [j \in DOMAIN ks |-> [what |-> "watch", k |-> ks[j], by |-> <<g, Last(ds).name>>]]

Watches(ds, g) ==
  FlattenSeq([i \in DOMAIN ds |->
    LET ks == KeysListed(ds[i].keys)
    IN [j \in DOMAIN ks |-> [what |-> "watch", k |-> ks[j], by |-> <<g, ds[i].name>>]]])

(* saveEntries: MxUserMetadata.Set with the displays of now.                *)
SaveEntries(ds) == <<[what |-> "save", v |-> <<ds>>]>>

(* The displays become each of dss in turn: while the page is shown each     *)
(* change makes the plots anew and is saved.                                 *)
Become(dss) ==
  IF dss = <<>> \/ Last(dss) = displays THEN UNCHANGED <<store_h, up>>
  ELSE /\ displays' = Last(dss)
       /\ IF shown_h
          THEN /\ generation' = generation + Len(dss)
               /\ plots' = Emptied(Last(dss))
               /\ Ask(FlattenSeq([i \in DOMAIN dss |->
                    SaveEntries(dss[i]) \o Watches(dss[i], generation + i)]))
          ELSE UNCHANGED <<generation, plots, up>>

MayAct == edits + keychanges + mounted + values < MaxHistActs

(* The page is shown: it makes the plots of the displays there are and loads *)
(* the saved ones.                                                           *)
MountHistory ==
  /\ Calm /\ ~ shown_h /\ mounted < MaxMounts /\ MayAct
  /\ shown_h' = TRUE /\ mounted' = mounted + 1
  /\ generation' = generation + 1 /\ plots' = Emptied(displays)
  /\ Ask(Watches(displays, generation + 1) \o <<[what |-> "load"]>>)
  /\ UNCHANGED <<down, dbkeys, saved, displays, rdbKeyTypes, dialog_h, watching, past_h>>

LeaveHistory ==
  /\ shown_h /\ ~ openHPM /\ mounted < MaxMounts
  /\ shown_h' = FALSE
  /\ interrupted' = (interrupted \/ Flowing(Loading \cup {"save", "set"}))
  /\ UNCHANGED <<calls, dbkeys, saved, store_h, rdbKeyTypes, dialog_h, mounted, watching,
                 edits, keychanges, values, wanted, listraced>>

------------------------------------------------------------------------------
(* The dialog: HistoryPlotRDBSearcher lists the keys and follows them.      *)
OpenHPM ==
  /\ Calm /\ shown_h /\ ~ openHPM /\ edits < MaxEdits /\ MayAct
  /\ openHPM' = TRUE /\ searching' = TRUE
  /\ Ask(<<[what |-> "keys", load |-> <<>>]>>)
  /\ UNCHANGED <<down, dbkeys, saved, store_h, rdbKeyTypes, selectedKeys, mounted, shown_h,
                 watching, past_h>>

Select(k) ==
  /\ openHPM /\ k \in DOMAIN rdbKeyTypes
  /\ selectedKeys' = IF k \in selectedKeys THEN selectedKeys \ {k} ELSE selectedKeys \cup {k}
  /\ UNCHANGED <<calls, dbkeys, saved, store_h, rdbKeyTypes, openHPM, searching, mounted,
                 shown_h, watching, past_h>>

Done(n) ==
  /\ openHPM /\ selectedKeys # {} /\ n \notin NameSet(displays)
  /\ Become(<<Append(displays, [name |-> n, keys |-> selectedKeys])>>)
  /\ edits' = edits + 1 /\ wanted' = wanted \cup {n}
  /\ openHPM' = FALSE /\ selectedKeys' = {}
  /\ UNCHANGED <<down, dbkeys, saved, rdbKeyTypes, searching, mounted, shown_h, watching,
                 keychanges, values, interrupted, listraced>>

Cancel ==
  /\ openHPM /\ openHPM' = FALSE /\ selectedKeys' = {}
  /\ edits' = edits + 1
  /\ UNCHANGED <<calls, dbkeys, saved, store_h, rdbKeyTypes, searching, mounted, shown_h,
                 watching, keychanges, values, wanted, interrupted, listraced>>

RemoveDisplay(n) ==
  /\ shown_h /\ ~ openHPM /\ edits < MaxEdits /\ MayAct
  /\ n \in NameSet(displays)
  /\ Become(<<SelectSeq(displays, LAMBDA d : d.name # n)>>)
  /\ edits' = edits + 1 /\ wanted' = wanted \ {n}
  /\ interrupted' = (interrupted \/ Flowing(Loading))
  /\ UNCHANGED <<down, dbkeys, saved, rdbKeyTypes, dialog_h, mounted, shown_h, watching,
                 keychanges, values, listraced>>

------------------------------------------------------------------------------
(* The server.                                                              *)
ServeUserMetadata ==
  /\ up # <<>> /\ Head(up).what \in {"load", "save"}
  /\ Serve([what |-> Head(up).what, got |-> saved,
            v |-> IF Head(up).what = "save" THEN Head(up).v ELSE <<>>])
  /\ UNCHANGED vars_h

ServeUserMetadataSet ==
  /\ Serving("set")
  /\ up' = Tail(up) /\ saved' = Head(up).v
  /\ UNCHANGED <<down, dbkeys, store_h, rdbKeyTypes, dialog_h, mounted, shown_h, watching,
                 past_h>>

ServeKeyList ==
  /\ up # <<>> /\ Head(up).what \in {"keys", "types"}
  /\ Serve([Head(up) EXCEPT !.load = <<@, KeysListed(dbkeys)>>])
  /\ UNCHANGED vars_h

ServeWatch ==
  /\ up # <<>> /\ Head(up).what \in {"watch", "type"}
  /\ Serve(Head(up))
  /\ UNCHANGED vars_h

ChangeKey(k) ==
  /\ Unhurried /\ keychanges < MaxKeyChanges /\ MayAct
  /\ keychanges' = keychanges + 1
  /\ dbkeys' = IF k \in dbkeys THEN dbkeys \ {k} ELSE dbkeys \cup {k}
  /\ listraced' = (listraced \/ Flowing({"keys", "types"}))
  /\ IF searching THEN Tell([what |-> IF k \in dbkeys THEN "deleted" ELSE "created", k |-> k])
     ELSE UNCHANGED down
  /\ UNCHANGED <<up, saved, store_h, rdbKeyTypes, dialog_h, mounted, shown_h, watching, edits,
                 values, wanted, interrupted>>

WriteKey(k) ==
  /\ Calm /\ values < MaxValues /\ MayAct /\ k \in dbkeys /\ watching[k][1] > 0
  /\ values' = values + 1
  /\ Tell([what |-> "value", k |-> k])
  /\ UNCHANGED <<up, dbkeys, saved, store_h, rdbKeyTypes, dialog_h, mounted, shown_h, watching,
                 edits, keychanges, wanted, interrupted, listraced>>

------------------------------------------------------------------------------
(* Answers and events.                                                      *)
Sets(m) == m.v

SaveGoesOn ==
  /\ Getting("save") /\ Got
  /\ Ask(<<[what |-> "set", v |-> Sets(Head(down))]>>)
  /\ UNCHANGED vars_h

LoadGoesOn ==
  /\ Getting("load") /\ Got
  /\ IF Head(down).got = <<>> THEN UNCHANGED up
     ELSE Ask(<<[what |-> "keys", load |-> Head(Head(down).got)]>>)
  /\ UNCHANGED vars_h

KeysArrive ==
  /\ Getting("keys") /\ Got
  /\ Ask(<<[what |-> "types", load |-> Head(down).load]>>)
  /\ UNCHANGED vars_h

(* The i-th type is taken for the i-th key, and 0 if there are fewer types. *)
Paired(ks, ts) ==
  [k \in Range(ks) |-> LET i == CHOOSE j \in DOMAIN ks : ks[j] = k
                       IN IF i \in DOMAIN ts THEN ts[i] ELSE 0]

(* rdbKeyTypes and displays are added to, never overwritten; displays are    *)
(* added one at a time.                                                      *)
TypesArrive ==
  LET ld == Head(down).load
      found == Paired(ld[1][2], ld[2])
      new == SelectSeq(ld[1][1], LAMBDA d : d.name \notin NameSet(displays))
  IN /\ Getting("types") /\ Got
     /\ rdbKeyTypes' = [k \in DOMAIN rdbKeyTypes \cup DOMAIN found |->
                          IF k \in DOMAIN rdbKeyTypes THEN rdbKeyTypes[k] ELSE found[k]]
     /\ Become([i \in DOMAIN new |-> displays \o SubSeq(new, 1, i)])
     /\ UNCHANGED <<dbkeys, saved, dialog_h, mounted, shown_h, watching, past_h>>

KeyCreated ==
  /\ Getting("created") /\ Got
  /\ Ask(<<[what |-> "type", k |-> Head(down).k]>>)
  /\ UNCHANGED vars_h

TypeArrives ==
  LET k == Head(down).k
  IN /\ Getting("type") /\ Got
     /\ rdbKeyTypes' = [x \in DOMAIN rdbKeyTypes \cup {k} |->
                          IF x \in DOMAIN rdbKeyTypes THEN rdbKeyTypes[x] ELSE x]
     /\ UNCHANGED <<up, dbkeys, saved, store_h, dialog_h, mounted, shown_h, watching, past_h>>

KeyDeleted ==
  /\ Getting("deleted") /\ Got
  /\ rdbKeyTypes' = [k \in DOMAIN rdbKeyTypes \ {Head(down).k} |-> rdbKeyTypes[k]]
  /\ UNCHANGED <<up, dbkeys, saved, store_h, dialog_h, mounted, shown_h, watching, past_h>>

(* MxRdb.watch: the answer names the event, whose one callback this becomes. *)
WatchArrives ==
  /\ Getting("watch") /\ Got
  /\ watching' = [watching EXCEPT ![Head(down).k] = Head(down).by]
  /\ UNCHANGED <<up, dbkeys, saved, store_h, rdbKeyTypes, dialog_h, mounted, shown_h, past_h>>

Cut(s) == SubSeq(s, IF Len(s) > Window THEN Len(s) - Window + 1 ELSE 1, Len(s))

(* A value is added to its series, and undefined to the others of the plot. *)
Pushed(plot, k) == [x \in DOMAIN plot |-> Cut(Append(plot[x], x = k))]

ValueArrives ==
  LET k == Head(down).k
      by == watching[k]
  IN /\ Getting("value") /\ Got
     /\ IF shown_h /\ by[1] = generation
        THEN plots' = [plots EXCEPT ![by[2]] = Pushed(@, k)]
        ELSE UNCHANGED plots
     /\ UNCHANGED <<up, dbkeys, saved, displays, generation, rdbKeyTypes, dialog_h, mounted,
                    shown_h, watching, past_h>>

HistNext ==
  \/ MountHistory \/ LeaveHistory \/ OpenHPM \/ Cancel
  \/ \E n \in DisplayNames : Done(n) \/ RemoveDisplay(n)
  \/ \E k \in DbKeys : Select(k) \/ ChangeKey(k) \/ WriteKey(k)
  \/ ServeUserMetadata \/ ServeUserMetadataSet \/ ServeKeyList \/ ServeWatch
  \/ SaveGoesOn \/ LoadGoesOn \/ KeysArrive \/ TypesArrive
  \/ KeyCreated \/ TypeArrives \/ KeyDeleted \/ WatchArrives \/ ValueArrives

------------------------------------------------------------------------------
DisplaysSet == Seq([name : DisplayNames, keys : SUBSET DbKeys])

HistoryViewTypeOK ==
  /\ dbkeys \subseteq DbKeys /\ saved \in Seq(DisplaysSet) /\ displays \in DisplaysSet
  /\ \A i, j \in DOMAIN displays : displays[i].name = displays[j].name => i = j
  /\ DOMAIN rdbKeyTypes \subseteq DbKeys /\ selectedKeys \subseteq DbKeys
  /\ DOMAIN plots \subseteq DisplayNames /\ wanted \subseteq DisplayNames
  /\ openHPM \in BOOLEAN /\ searching \in BOOLEAN /\ shown_h \in BOOLEAN
  /\ mounted \in 0 .. MaxMounts /\ generation \in Nat

(* Once all calls are through, the displays shown, those saved on the server *)
(* and those the user asked for are the same, whatever saves overlapped, and *)
(* though displays are saved before the others have been loaded.  Not so if  *)
(* the page was left, or a display removed, while calls were under way:      *)
(* loading then brings a removed display back, or leaves one unsaved.        *)
DisplaysSaved ==
  (shown_h /\ ~ interrupted /\ ~ Flowing(Loading \cup {"save", "set"})) =>
    /\ NameSet(displays) = wanted
    /\ UNION {NameSet(ds) : ds \in Range(saved)} = wanted

(* A key has its own type, as long as no key was made or deleted between the *)
(* two calls that list keys and types and pair them by position: an entry    *)
(* that is wrong then stays, as rdbKeyTypes is only added to.                *)
TypesRight == ~ listraced => \A k \in DOMAIN rdbKeyTypes : rdbKeyTypes[k] = k

(* The series of a plot have the same length, at most the window, and of     *)
(* each point exactly one of them has a value.                               *)
PlotAligned ==
  \A n \in DOMAIN plots : \A k, l \in DOMAIN plots[n] :
    /\ Len(plots[n][k]) = Len(plots[n][l]) /\ Len(plots[n][k]) <= Window
    /\ \A i \in DOMAIN plots[n][k] :
         Cardinality({x \in DOMAIN plots[n] : plots[n][x][i]}) = 1

(* Once the watches are through, every key on display feeds the last display *)
(* that has it, in its present plot: earlier displays of the key stand still,*)
(* and no plot that was removed or made anew takes its values.               *)
LastPlotFed ==
  (shown_h /\ ~ Flowing({"watch"})) =>
    \A i \in DOMAIN displays : \A k \in displays[i].keys :
      (\A j \in DOMAIN displays : j > i => k \notin displays[j].keys) =>
        watching[k] = <<generation, displays[i].name>>
=============================================================================
