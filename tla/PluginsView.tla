---------------------------- MODULE PluginsView ----------------------------
(***************************************************************************)
(* The project page (frontend/src/Project.tsx, lib/plugin.tsx,               *)
(* components/DynamicRouter.tsx, network/mxhttp.cpp): for every file of the   *)
(* plugin directory the server keeps a key with the time it was modified;    *)
(* the page imports the file of every key there is and of every key that is  *)
(* made or changed, shows the plugin and gives it a route, and takes both    *)
(* away when the key is deleted.  An import takes its time: the file is      *)
(* fetched as it is then, or not found.                                      *)
(***************************************************************************)
EXTENDS PageCalls

CONSTANTS
  PluginFiles,      (* names of plugins                                     *)
  MaxFileChanges,   (* bound: changes of the directory                      *)
  MaxImports        (* bound: imports under way                             *)

ASSUME PluginFilesAssumption == IsFiniteSet(PluginFiles) /\ MaxFileChanges \in Nat

VARIABLES
  plugged,          (* /system/http/plugins: file -> when it was modified   *)
  filechanges,
  pluginWatch, deletionWatch,   (* what the server sends to the page        *)
  plugins, routes, dynamicRoutes,
  toLoad,           (* keys the first loop has yet to load                  *)
  loadingPlugins,
  imports,          (* imports under way: of what file, for which time, by
                       the loop or not, and what was fetched                *)
  crossed,          (* history: files changed while one was imported        *)
  unseen            (* history: files changed before the page could tell    *)

vars_q == <<plugged, filechanges, pluginWatch, deletionWatch, plugins, routes, dynamicRoutes,
            toLoad, loadingPlugins, imports, crossed, unseen>>
server_q == <<plugged, filechanges, pluginWatch, deletionWatch>>
shown_q == <<plugins, routes, dynamicRoutes>>

PluginsInit ==
  /\ plugged \in UNION {[fs -> {0}] : fs \in SUBSET PluginFiles}
  /\ filechanges = 0 /\ pluginWatch = FALSE /\ deletionWatch = FALSE
  /\ plugins = <<>> /\ routes = {} /\ dynamicRoutes = {}
  /\ toLoad = <<>> /\ loadingPlugins = TRUE /\ imports = {}
  /\ crossed = {} /\ unseen = {}
PluginsCalls ==
  <<[what |-> "plugwatch"], [what |-> "plugdeletions"], [what |-> "pluglist"]>>

(* registerPluginFromFile, up to the await of import                        *)
Import(f, t, loop) == [f |-> f, t |-> t, loop |-> loop, fetched |-> "no"]
Imported(f) == {i.f : i \in imports} \cap {f}

(* HttpRegisterUserPlugin, HttpUpdateUserPlugin, HttpRemoveUserPlugin: the   *)
(* watcher of the directory.                                                 *)
FileChanges(f) ==
  /\ Unhurried /\ filechanges < MaxFileChanges
  /\ filechanges' = filechanges + 1
  /\ \/ /\ plugged' = With(plugged, f, filechanges + 1)
        /\ IF pluginWatch THEN Tell([what |-> "plugged", f |-> f, t |-> filechanges + 1])
           ELSE UNCHANGED down
        /\ unseen' = IF pluginWatch THEN unseen ELSE unseen \cup {f}
     \/ /\ f \in DOMAIN plugged
        /\ plugged' = Without(plugged, f)
        /\ IF deletionWatch THEN Tell([what |-> "unplugged", f |-> f]) ELSE UNCHANGED down
        /\ unseen' = IF deletionWatch THEN unseen ELSE unseen \cup {f}
  /\ crossed' = crossed \cup Imported(f)
  /\ UNCHANGED <<up, pluginWatch, deletionWatch, shown_q, toLoad, loadingPlugins, imports>>

ServePlugins ==
  /\ \/ Serving("plugwatch") /\ Serve([what |-> "plugwatch"]) /\ UNCHANGED <<pluginWatch, deletionWatch>>
     \/ Serving("plugsub") /\ up' = Tail(up) /\ pluginWatch' = TRUE /\ UNCHANGED <<down, deletionWatch>>
     \/ Serving("plugdeletions") /\ up' = Tail(up) /\ deletionWatch' = TRUE /\ UNCHANGED <<down, pluginWatch>>
     \/ /\ Serving("pluglist") /\ Serve([what |-> "pluglist", fs |-> SetToSeq(DOMAIN plugged)])
        /\ UNCHANGED <<pluginWatch, deletionWatch>>
     \/ /\ Serving("plugread")
        /\ Serve([what |-> "plugread", f |-> Head(up).f,
                  t |-> IF Head(up).f \in DOMAIN plugged THEN plugged[Head(up).f] ELSE 0])
        /\ UNCHANGED <<pluginWatch, deletionWatch>>
  /\ UNCHANGED <<plugged, filechanges, shown_q, toLoad, loadingPlugins, imports, crossed, unseen>>

(* the loop over the keys: each is read, imported and registered in turn     *)
Load(fs) ==
  /\ toLoad' = fs
  /\ loadingPlugins' = (fs # <<>>)
  /\ Ask(IF fs = <<>> THEN <<>> ELSE <<[what |-> "plugread", f |-> fs[1]]>>)

PluginListArrives ==
  \/ /\ Getting("plugwatch") /\ Got /\ Ask(<<[what |-> "plugsub"]>>)
     /\ UNCHANGED <<server_q, shown_q, toLoad, loadingPlugins, imports, crossed, unseen>>
  \/ /\ Getting("pluglist") /\ Got /\ Load(Head(down).fs)
     /\ UNCHANGED <<server_q, shown_q, imports, crossed, unseen>>

StartImport(f, t, loop) ==
  /\ imports' = imports \cup {Import(f, t, loop)}
  /\ crossed' = crossed \cup Imported(f)

PluginReadArrives ==
  /\ Getting("plugread") /\ Got
  /\ StartImport(Head(down).f, Head(down).t, TRUE)
  /\ UNCHANGED <<up, server_q, shown_q, toLoad, loadingPlugins, unseen>>

PluginChangeArrives ==
  /\ Getting("plugged") /\ Got /\ Cardinality(imports) < MaxImports
  /\ StartImport(Head(down).f, Head(down).t, FALSE)
  /\ UNCHANGED <<up, server_q, shown_q, toLoad, loadingPlugins, unseen>>

Fetch(i) ==
  /\ i.fetched = "no"
  /\ imports' = (imports \ {i}) \cup
                  {[i EXCEPT !.fetched = IF i.f \in DOMAIN plugged THEN "file" ELSE "nothing"]}
  /\ UNCHANGED <<calls, server_q, shown_q, toLoad, loadingPlugins, crossed, unseen>>

(* mxRegisterPlugin, updateRoute; then the loop goes on.  A failed import    *)
(* ends the loop, whose page says that plugins are loading for good.         *)
Register(i) ==
  plugins' = With(plugins, i.f, i.t) /\ routes' = routes \cup {i.f} /\ dynamicRoutes' = dynamicRoutes \cup {i.f}

ImportEnds(i) ==
  /\ i.fetched # "no"
  /\ imports' = imports \ {i}
  /\ IF i.fetched = "file" THEN Register(i) ELSE UNCHANGED shown_q
  /\ IF i.loop /\ i.fetched = "file" THEN Load(Tail(toLoad))
     ELSE UNCHANGED <<up, toLoad, loadingPlugins>>
  /\ UNCHANGED <<down, server_q, crossed, unseen>>

RemoveRoute(f) == routes' = routes \ {f}

DeletePlugin ==
  LET f == Head(down).f
  IN /\ Getting("unplugged") /\ Got
     /\ plugins' = Without(plugins, f)
     /\ RemoveRoute(f) /\ dynamicRoutes' = dynamicRoutes \ {f}
     /\ crossed' = crossed \cup Imported(f)
     /\ UNCHANGED <<up, server_q, toLoad, loadingPlugins, imports, unseen>>

PluginsNext ==
  \/ \E f \in PluginFiles : FileChanges(f)
  \/ ServePlugins \/ PluginListArrives \/ PluginReadArrives \/ PluginChangeArrives
  \/ DeletePlugin \/ \E i \in imports : Fetch(i) \/ ImportEnds(i)

------------------------------------------------------------------------------
PluginsViewTypeOK ==
  /\ DOMAIN plugged \subseteq PluginFiles /\ filechanges \in 0 .. MaxFileChanges
  /\ pluginWatch \in BOOLEAN /\ deletionWatch \in BOOLEAN /\ loadingPlugins \in BOOLEAN
  /\ DOMAIN plugins \subseteq PluginFiles /\ dynamicRoutes \subseteq PluginFiles
  /\ toLoad \in Seq(PluginFiles)
  /\ imports \subseteq [f : PluginFiles, t : 0 .. MaxFileChanges, loop : BOOLEAN, fetched : {"no", "file", "nothing"}]
  /\ crossed \subseteq PluginFiles /\ unseen \subseteq PluginFiles

(* Once nothing is under way, and the first loop was not stopped by a file   *)
(* that had gone, a plugin is shown exactly if its key exists, with the time *)
(* of the key; but a plugin whose file changed before the page followed the  *)
(* keys, or while it was imported, can be missing, outdated or, deleted in    *)
(* the meantime, back again: registerPluginFromFile does not look again.     *)
PluginsRight ==
  (Quiet("project") /\ imports = {} /\ ~ loadingPlugins) =>
    \A f \in PluginFiles \ (crossed \cup unseen) :
      /\ f \in DOMAIN plugins <=> f \in DOMAIN plugged
      /\ f \in DOMAIN plugged => plugins[f] = plugged[f]

(* Whatever races, every plugin shown has a route and a link, and no route   *)
(* leads to a plugin that is not shown.                                      *)
RoutesMatch == routes = DOMAIN plugins /\ dynamicRoutes = DOMAIN plugins

------------------------------------------------------------------------------
(***************************************************************************)
(* The page of a plug-in (frontend/src/Project.tsx: RenderPlug), which shows *)
(* the plug-in or its documentation.  The plug-in is made anew whenever it   *)
(* is shown, and hands over what to call when the page is left.              *)
(***************************************************************************)

CONSTANTS MaxInstances, MaxCleanups   (* bounds: plug-ins made, callbacks     *)

ASSUME PluginPageAssumption == MaxInstances \in Nat \ {0} /\ MaxCleanups \in Nat

VARIABLES
  onPage, showDocs,
  instances,          (* plug-ins made in this visit of the page             *)
  cleanupCallbacks,   (* what is to be called, in order                      *)
  ran,                (* callback -> times it was called                     *)
  breaks,             (* callbacks that throw                                *)
  tooLate                (* history: callbacks handed over after the page was left *)

vars_p == <<onPage, showDocs, instances, cleanupCallbacks, ran, breaks, tooLate>>

PluginPageInit ==
  /\ onPage = TRUE /\ showDocs = FALSE /\ instances = 1
  /\ cleanupCallbacks = <<>> /\ ran = <<>> /\ tooLate = {}
  /\ breaks \in {b \in SUBSET (1 .. MaxCleanups) : Cardinality(b) <= 1}

(* props.cleanup, by any plug-in that was made, whenever it likes             *)
HandsOver ==
  /\ Len(ran) < MaxCleanups
  /\ ran' = Append(ran, 0)
  /\ cleanupCallbacks' = Append(cleanupCallbacks, Len(ran) + 1)
  /\ tooLate' = IF onPage THEN tooLate ELSE tooLate \cup {Len(ran) + 1}
  /\ UNCHANGED <<onPage, showDocs, instances, breaks>>

(* Fault: the callbacks go with the plug-in that is no longer shown           *)
(* (CleanedUp).                                                               *)
ForgottenWithIt(cs) == <<>>
KeptForLater(cs) == cs

ShowsDocs ==
  /\ onPage /\ ~ showDocs
  /\ showDocs' = TRUE
  /\ cleanupCallbacks' = KeptForLater(cleanupCallbacks)
  /\ UNCHANGED <<onPage, instances, ran, breaks, tooLate>>

BackToPlugin ==
  /\ onPage /\ showDocs /\ instances < MaxInstances
  /\ showDocs' = FALSE /\ instances' = instances + 1
  /\ UNCHANGED <<onPage, cleanupCallbacks, ran, breaks, tooLate>>

(* Those that forEach reaches: up to the first that throws                    *)
Reached(cs) ==
  {cs[i] : i \in {j \in DOMAIN cs : \A k \in 1 .. j - 1 : cs[k] \notin breaks}}

LeavesPlugin ==
  /\ onPage
  /\ onPage' = FALSE
  /\ ran' = [c \in DOMAIN ran |-> IF c \in Reached(cleanupCallbacks) THEN ran[c] + 1 ELSE ran[c]]
  /\ UNCHANGED <<showDocs, instances, cleanupCallbacks, breaks, tooLate>>

PluginPageNext == HandsOver \/ ShowsDocs \/ BackToPlugin \/ LeavesPlugin

------------------------------------------------------------------------------
PluginPageTypeOK ==
  /\ {onPage, showDocs} \subseteq BOOLEAN /\ instances \in 1 .. MaxInstances
  /\ cleanupCallbacks \in Seq(DOMAIN ran) /\ ran \in Seq({0, 1})
  /\ breaks \subseteq 1 .. MaxCleanups /\ tooLate \subseteq DOMAIN ran

(* Once the page is left, what any of the plug-ins made in the visit handed    *)
(* over has been called once, though the documentation was shown in between,   *)
(* unless a callback before it threw, or it was handed over too late.              *)
CleanedUp ==
  /\ onPage => \A c \in DOMAIN ran : ran[c] = 0
  /\ ~ onPage => \A c \in DOMAIN ran \ tooLate :
                   (\A d \in 1 .. c - 1 : d \notin breaks) => ran[c] = 1
=============================================================================
