------------------------------ MODULE WebPages ------------------------------
(***************************************************************************)
(* The pages of the web user interface, each on a connection of its own:     *)
(* the router (frontend/src/index.tsx) shows one, whose module says what     *)
(* happens; the others do nothing.                                           *)
(***************************************************************************)
EXTENDS RunView, EventsView, HistoryView, GlobalState, LogView, LogBookPost, LogBookList,
        LogBookComments, Accounts, RdbView, KeyTable, ClientsView, PluginsView, DebugView,
        HomeView, FileDownload, ValueControl, Codec

CONSTANT Routes   (* the pages that are shown, one in each behaviour          *)

(* The variables of the pages.                                              *)
earlier == <<vars_r, vars_e, vars_h, vars_g, vars_m, vars_w, vars_l, vars_c, vars_a, vars_k,
             vars_n, vars_q, vars_x, vars_t, vars_d, vars_o>>
later == <<vars_f, vars_v, vars_i, vars_p, vars_y>>

(* A page that is not shown has one initial state only.                      *)
Page(r, only) == route # r => only

Init ==
  /\ route \in Routes
  /\ RunInit
  /\ EvInit
  /\ HistInit /\ Page("history", saved = <<>>)
  /\ GlobalInit /\ Page("backends", db = [b \in Backends |-> <<>>])
  /\ LogInit
  /\ PostInit /\ Page("post", mayDelete)
  /\ ListInit
  /\ CommentsInit /\ Page("comments", lbkComments = <<>>)
  /\ AccountsInit /\ Page("dashboard", me = "admin")
  /\ RdbInit /\ Page("rdb", rdb = [k \in RdbNames |-> [type |-> CHOOSE t \in ValueTypes : TRUE, n |-> 0]])
  /\ KeyTableInit
  /\ DebugInit
  /\ HomeInit /\ Page("home", statuskey = "Stopped")
  /\ DownloadInit /\ Page("download", \A f \in DOMAIN stored_f : ~ stored_f[f].row)
  /\ AvatarsInit
  /\ LoginInit
  /\ PluginPageInit /\ Page("plugin", breaks = {})
  /\ ValueInit /\ Page("value", number = ValueMin)
  /\ ClientsInit /\ Page("clients", connections[1] = CHOOSE a \in Addresses : TRUE)
  /\ PluginsInit /\ Page("project", plugged = <<>>)
  /\ IF route = "codec" THEN CodecInit(Structures, MaxRecords)
     ELSE CodecInit({CHOOSE s \in Structures : TRUE}, 0)
  /\ up = CASE route = "run" -> RunCalls
            [] route = "backends" -> GlobalCalls
            [] route = "messages" -> LogCalls
            [] route = "logbook" -> ListCalls
            [] route = "comments" -> CommentsCalls
            [] route = "dashboard" -> AccountsCalls
            [] route = "rdb" -> RdbCalls
            [] route = "clients" -> ClientsCalls
            [] route = "project" -> PluginsCalls
            [] route = "debug" -> DebugCalls
            [] route = "home" -> HomeCalls
            [] OTHER -> <<>>
  /\ down = <<>>

Next ==
  /\ UNCHANGED route
  /\ \/ route = "run" /\ RunNext /\ UNCHANGED <<vars_e, vars_h, vars_g, vars_m, vars_w, vars_l, vars_c, vars_a, vars_k, vars_n, vars_q, vars_x, vars_t, vars_d, vars_o, later>>
     \/ route = "events" /\ EvNext /\ UNCHANGED <<vars_r, vars_h, vars_g, vars_m, vars_w, vars_l, vars_c, vars_a, vars_k, vars_n, vars_q, vars_x, vars_t, vars_d, vars_o, later>>
     \/ route = "history" /\ HistNext /\ UNCHANGED <<vars_r, vars_e, vars_g, vars_m, vars_w, vars_l, vars_c, vars_a, vars_k, vars_n, vars_q, vars_x, vars_t, vars_d, vars_o, later>>
     \/ route = "backends" /\ GlobalNext /\ UNCHANGED <<vars_r, vars_e, vars_h, vars_m, vars_w, vars_l, vars_c, vars_a, vars_k, vars_n, vars_q, vars_x, vars_t, vars_d, vars_o, later>>
     \/ route = "messages" /\ LogNext /\ UNCHANGED <<vars_r, vars_e, vars_h, vars_g, vars_w, vars_l, vars_c, vars_a, vars_k, vars_n, vars_q, vars_x, vars_t, vars_d, vars_o, later>>
     \/ route = "post" /\ PostNext /\ UNCHANGED <<vars_r, vars_e, vars_h, vars_g, vars_m, vars_l, vars_c, vars_a, vars_k, vars_n, vars_q, vars_x, vars_t, vars_d, vars_o, later>>
     \/ route = "logbook" /\ ListNext /\ UNCHANGED <<vars_r, vars_e, vars_h, vars_g, vars_m, vars_w, vars_c, vars_a, vars_k, vars_n, vars_q, vars_x, vars_t, vars_d, vars_o, later>>
     \/ route = "comments" /\ CommentsNext /\ UNCHANGED <<vars_r, vars_e, vars_h, vars_g, vars_m, vars_w, vars_l, vars_a, vars_k, vars_n, vars_q, vars_x, vars_t, vars_d, vars_o, later>>
     \/ route = "dashboard" /\ AccountsNext /\ UNCHANGED <<vars_r, vars_e, vars_h, vars_g, vars_m, vars_w, vars_l, vars_c, vars_k, vars_n, vars_q, vars_x, vars_t, vars_d, vars_o, later>>
     \/ route = "rdb" /\ RdbNext /\ UNCHANGED <<vars_r, vars_e, vars_h, vars_g, vars_m, vars_w, vars_l, vars_c, vars_a, vars_n, vars_q, vars_x, vars_t, vars_d, vars_o, later>>
     \/ route = "clients" /\ ClientsNext /\ UNCHANGED <<vars_r, vars_e, vars_h, vars_g, vars_m, vars_w, vars_l, vars_c, vars_a, vars_k, vars_q, vars_x, vars_t, vars_d, vars_o, later>>
     \/ route = "project" /\ PluginsNext /\ UNCHANGED <<vars_r, vars_e, vars_h, vars_g, vars_m, vars_w, vars_l, vars_c, vars_a, vars_k, vars_n, vars_x, vars_t, vars_d, vars_o, later>>
     \/ route = "codec" /\ CodecNext /\ UNCHANGED <<calls, vars_r, vars_e, vars_h, vars_g, vars_m, vars_w, vars_l, vars_c, vars_a, vars_k, vars_n, vars_q, vars_t, vars_d, vars_o, later>>
     \/ route = "keytable" /\ KeyTableNext /\ UNCHANGED <<vars_r, vars_e, vars_h, vars_g, vars_m, vars_w, vars_l, vars_c, vars_a, vars_k, vars_n, vars_q, vars_x, vars_d, vars_o, later>>
     \/ route = "debug" /\ DebugNext /\ UNCHANGED <<vars_r, vars_e, vars_h, vars_g, vars_m, vars_w, vars_l, vars_c, vars_a, vars_k, vars_n, vars_q, vars_x, vars_t, vars_o, later>>
     \/ route = "home" /\ HomeNext /\ UNCHANGED <<vars_r, vars_e, vars_h, vars_g, vars_m, vars_w, vars_l, vars_c, vars_a, vars_k, vars_n, vars_q, vars_x, vars_t, vars_d, later>>
     \/ route = "download" /\ DownloadNext /\ UNCHANGED <<earlier, vars_v, vars_i, vars_p, vars_y>>
     \/ route = "avatars" /\ AvatarsNext /\ UNCHANGED <<earlier, vars_f, vars_i, vars_p, vars_y>>
     \/ route = "login" /\ LoginNext /\ UNCHANGED <<calls, earlier, vars_f, vars_v, vars_p, vars_y>>
     \/ route = "plugin" /\ PluginPageNext /\ UNCHANGED <<calls, earlier, vars_f, vars_v, vars_i, vars_y>>
     \/ route = "value" /\ ValueNext /\ UNCHANGED <<calls, earlier, vars_f, vars_v, vars_i, vars_p>>

Spec == Init /\ [][Next]_<<route, calls, earlier, later>>

------------------------------------------------------------------------------
(* What a page shows, keeps and asks for, while it is the one shown; each    *)
(* part is stated in the page's module, with the code it is about.           *)

(* Run logs: rows and inspector are those of the page and the run chosen     *)
(* last, files their last versions (RunViewer.tsx); for downloads see        *)
(* DownloadsSound.  Events: the captured event is the one shown, its frames  *)
(* are counted once, rates age (EventsViewer.tsx).  History: what is drawn   *)
(* is what is saved, of the key's type and fed by its key                    *)
(* (HistoryViewer.tsx).                                                      *)
ViewersSound ==
  /\ route = "run" => RunViewTypeOK /\ RowsRight /\ InspectorRight /\ LastVersions
  /\ route = "events" => EventsViewTypeOK /\ CaptureAgrees /\ FramesCounted /\ RatesAge
  /\ route = "history" =>
       HistoryViewTypeOK /\ DisplaysSaved /\ TypesRight /\ PlotAligned /\ LastPlotFed

(* Backends: those that are there are listed, those that are not are not     *)
(* (globalstate.ts, BackendViewer.tsx).  Messages: each once, in order, and   *)
(* none missing (LogTable.tsx).  Debug page: the calls of backends are         *)
(* counted once, and the dump is that of the keys there are (Debug.tsx).      *)
BackendsSound ==
  /\ route = "backends" => GlobalTypeOK /\ BackendsShown /\ GoneNotShown
  /\ route = "messages" => LogViewTypeOK /\ LogsOnce /\ LogsInOrder /\ LogsComplete
  /\ route = "debug" => DebugTypeOK /\ CountsRight /\ ClientsNamed /\ DumpRight /\ PopupLast


(* Accounts: what an administrator is offered and told, the picture that is  *)
(* sent, and the banner of a login (Dashboard.tsx, login.tsx).               *)
AccountsSound ==
  /\ route = "dashboard" =>
       AccountsTypeOK /\ OffersRight /\ ExpelledNotListed /\ MessagesEnd /\ AvatarWhole
  /\ route = "login" => LoginTypeOK /\ BannerLasts

(* The database: its keys, the value and type of the one selected, and the   *)
(* table they are made and filtered in (RdbViewer.tsx).                      *)
DatabaseSound ==
  /\ route = "rdb" => /\ RdbViewTypeOK /\ KeysRight /\ ValueFresh /\ ValueReadable
                     /\ TypeShown /\ SelectedWatched
  /\ route = "keytable" => KeyTableTypeOK /\ TableRight /\ CreateOffered /\ MadeAsShown

(* The home page: runs are asked for in pairs, the figures of the server and  *)
(* the connections of its clients are those there are (Home.tsx,              *)
(* ResourcePanel.tsx, ClientsTable.tsx).  A number that is edited in place     *)
(* keeps within its limits (ValueControl.tsx).  Plug-ins: those installed are *)
(* registered, each with its route, and cleaned up when they are left         *)
(* (Project.tsx, lib/plugin.tsx).                                             *)
HomeSound ==
  /\ route = "home" => HomeTypeOK /\ RunsPaired /\ UsageRight
  /\ route = "clients" => ClientsViewTypeOK /\ ClientsRight
  /\ route = "value" => ValueTypeOK /\ LimitsHold /\ ShownIsSet
  /\ route = "project" => PluginsViewTypeOK /\ PluginsRight /\ RoutesMatch
  /\ route = "plugin" => PluginPageTypeOK /\ CleanedUp

(* Generic values: what is packed is unpacked (convert.ts).                  *)
CodecSound == route = "codec" => RoundTrip /\ UnpackRight
=============================================================================
