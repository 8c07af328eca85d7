------------------------------ MODULE Accounts ------------------------------
(***************************************************************************)
(* The account page (frontend/src/Dashboard.tsx) with its upload of an      *)
(* avatar (components/FileDropUpload.tsx) and the server's side of both     *)
(* (rdb/mxpdb.cpp, rdb/mxfdb.cpp, network/roles.json).  The role of the     *)
(* user is known before the page is drawn (index.tsx).                      *)
(***************************************************************************)
EXTENDS PageCalls

CONSTANTS
  FileSizes, ChunkSize,   (* sizes of files, and of a chunk, in bytes       *)
  Limit,                  (* props.limit                                    *)
  MaxClicks               (* bound: what the user does                      *)

ASSUME AccountsAssumption == FileSizes \subseteq Nat /\ {ChunkSize, Limit, MaxClicks} \subseteq Nat

VARIABLES
  (* the server                                                             *)
  accounts,        (* user -> role id                                       *)
  password,        (* of the user logged in                                 *)
  received, ended, (* bytes of each uploaded file, and whether it is ended  *)
  avatar,          (* the handle of the user's avatar, or 0                 *)
  (* the page                                                               *)
  me, role,        (* gLoggedUser, gLoggedUserRole                          *)
  allRoles, allUsers,   (* what the forms offer                             *)
  changeFailed, changeOK, msgTimers,   (* messages and their timers          *)
  dropped,         (* sizes of the files dropped, by name                   *)
  uploading, avatarPopup,
  clicks,
  (* history                                                                *)
  size_u,          (* handle -> the size of its file                        *)
  expelled         (* users deleted with the form                           *)

form_a == <<allRoles, allUsers>>
msgs_a == <<changeFailed, changeOK, msgTimers>>
store_a == <<received, ended, avatar, size_u>>
drop_a == <<dropped, uploading, avatarPopup>>
vars_a == <<accounts, password, store_a, me, role, form_a, msgs_a, drop_a, clicks, expelled>>

Names == {"admin", "op", "user", "new"}
RoleOf == [n \in Names |-> CASE n = "admin" -> 1 [] n = "op" -> 2 [] OTHER -> 3]
RoleIds == 1 .. 3
(* roles.json: what sysadmin and sysop have and user has not                *)
Administers(r) == r <= 2

AccountsInit ==
  /\ accounts = [n \in Names \ {"new"} |-> RoleOf[n]] /\ password = 0
  /\ received = <<>> /\ ended = {} /\ avatar = 0 /\ size_u = <<>>
  /\ me \in Names \ {"new"} /\ role = RoleOf[me]
  /\ allRoles = {} /\ allUsers = {}
  /\ changeFailed = FALSE /\ changeOK = FALSE /\ msgTimers = <<>>
  /\ dropped = <<>> /\ uploading = FALSE /\ avatarPopup = FALSE /\ clicks = 0 /\ expelled = {}
AccountsCalls == <<[what |-> "myavatar"]>>

Click == Calm /\ clicks < MaxClicks /\ clicks' = clicks + 1

(* PdbCheckCurrentUserRolePermissionHierarchy                               *)
Outranks(r) == ~ (role > 1 /\ r <= role)
Mine == me \in DOMAIN accounts

Offered(r) == r >= role

(* onMount and setupRoles, then setupUsers                                  *)
MyAvatarArrives ==
  /\ Getting("myavatar") /\ Got
  /\ allRoles' = {r \in RoleIds : Offered(r)}
  /\ Ask(<<[what |-> "users"]>>)
  /\ UNCHANGED <<accounts, password, store_a, me, role, allUsers, msgs_a, drop_a, clicks, expelled>>

(* The call is refused to a user without delete_user.                       *)
UsersArrive ==
  LET m == Head(down)
  IN /\ Getting("users") /\ Got
     /\ allUsers' = IF m.ok THEN {[name |-> n, allowed |-> Offered(m.users[n])] : n \in DOMAIN m.users}
                    ELSE allUsers
     /\ UNCHANGED <<up, accounts, password, store_a, me, role, allRoles, msgs_a, drop_a, clicks,
                    expelled>>

(* A message and the timer that clears it; all timers take as long.         *)
Says(ok) ==
  /\ changeOK' = (changeOK \/ ok) /\ changeFailed' = (changeFailed \/ ~ ok)
  /\ msgTimers' = Append(msgTimers, ok)

MessageTimer ==
  /\ msgTimers # <<>> /\ msgTimers' = Tail(msgTimers)
  /\ IF Head(msgTimers) THEN changeOK' = FALSE /\ UNCHANGED changeFailed
     ELSE changeFailed' = FALSE /\ UNCHANGED changeOK
  /\ UNCHANGED <<calls, accounts, password, store_a, me, role, form_a, drop_a, clicks, expelled>>

(* changePassword, createNewUser and deleteUser: refused by the form, or a  *)
(* call.                                                                    *)
ChangePassword(old, same) ==
  /\ Click
  /\ IF same THEN Ask(<<[what |-> "password", old |-> old]>>) /\ UNCHANGED msgs_a
     ELSE Says(FALSE) /\ UNCHANGED up
  /\ UNCHANGED <<down, accounts, password, store_a, me, role, form_a, drop_a, expelled>>

(* The admin panel and its forms: what the user can fill in.                *)
AdminPanel == Administers(role)
CreateForm(r) == AdminPanel /\ r \in allRoles
DeleteForm(name) == AdminPanel /\ [name |-> name, allowed |-> TRUE] \in allUsers

CreateNewUser(name, r, same) ==
  /\ Click /\ CreateForm(r)
  /\ IF same THEN Ask(<<[what |-> "create", name |-> name, role |-> r]>>) /\ UNCHANGED msgs_a
     ELSE Says(FALSE) /\ UNCHANGED up
  /\ UNCHANGED <<down, accounts, password, store_a, me, role, form_a, drop_a, expelled>>

DeleteUser(name) ==
  /\ Click /\ DeleteForm(name)
  /\ IF name = me THEN Says(FALSE) /\ UNCHANGED up
     ELSE Ask(<<[what |-> "remove", name |-> name, form |-> TRUE]>>) /\ UNCHANGED msgs_a
  /\ UNCHANGED <<down, accounts, password, store_a, me, role, form_a, drop_a, expelled>>

(* The account settings: the user's own account, but for admin's.  No one   *)
(* looks at the answer.                                                     *)
DeleteOwnAccount ==
  /\ Click /\ me # "admin"
  /\ Ask(<<[what |-> "remove", name |-> me, form |-> FALSE]>>)
  /\ UNCHANGED <<down, accounts, password, store_a, me, role, form_a, msgs_a, drop_a, expelled>>

------------------------------------------------------------------------------
ServeAccounts ==
  LET m == Head(up)
  IN \/ /\ Serving("myavatar") /\ Serve(m) /\ UNCHANGED vars_a
     \/ /\ Serving("users")
        /\ Serve([what |-> "users", users |-> accounts, ok |-> Administers(role)])
        /\ UNCHANGED vars_a
     \/ /\ Serving("password")
        /\ LET ok == Mine /\ m.old = password
           IN /\ Serve([what |-> "password", ok |-> ok])
              /\ password' = IF ok THEN password + 1 ELSE password
        /\ UNCHANGED <<accounts, store_a, me, role, form_a, msgs_a, drop_a, clicks, expelled>>

(* PdbUserCreate                                                            *)
ServeCreate ==
  LET m == Head(up)
      ok == Mine /\ Outranks(m.role) /\ m.name \notin DOMAIN accounts
  IN /\ Serving("create")
     /\ Serve([what |-> "create", ok |-> ok])
     /\ accounts' = IF ok THEN With(accounts, m.name, m.role) ELSE accounts
     /\ expelled' = IF ok THEN expelled \ {m.name} ELSE expelled
     /\ UNCHANGED <<password, store_a, me, role, form_a, msgs_a, drop_a, clicks>>

(* PdbUserDelete; a user without delete_user is refused before.             *)
ServeRemove ==
  LET m == Head(up)
      ok == /\ Mine /\ Administers(role) /\ m.name \in DOMAIN accounts
            /\ Outranks(accounts[m.name]) /\ m.name # "admin"
  IN /\ Serving("remove")
     /\ Serve([what |-> "remove", form |-> m.form, ok |-> ok])
     /\ accounts' = IF ok THEN Without(accounts, m.name) ELSE accounts
     /\ expelled' = IF ok /\ m.form THEN expelled \cup {m.name} ELSE expelled
     /\ UNCHANGED <<password, store_a, me, role, form_a, msgs_a, drop_a, clicks>>

(* Fault: the list is not fetched again (ExpelledNotListed).                *)
NothingAgain == up' = up
SetupUsersAgain == Ask(<<[what |-> "users"]>>)

AccountAnswer ==
  LET m == Head(down)
  IN /\ down # <<>> /\ m.what \in {"password", "create", "remove"} /\ Got
     /\ IF m.what = "remove" /\ ~ m.form THEN UNCHANGED msgs_a ELSE Says(m.ok)
     /\ IF m.what = "remove" /\ m.form /\ m.ok THEN SetupUsersAgain ELSE up' = up
     /\ UNCHANGED <<accounts, password, store_a, me, role, form_a, drop_a, clicks, expelled>>

------------------------------------------------------------------------------
(* MxFileDropUpload: files of a legal kind; of one drop as many as the limit *)
(* allows.                                                                   *)
ShowAvatarPopup ==
  /\ Click /\ ~ avatarPopup
  /\ avatarPopup' = TRUE /\ dropped' = <<>> /\ uploading' = FALSE
  /\ UNCHANGED <<calls, accounts, password, store_a, me, role, form_a, msgs_a, expelled>>

OnDrop(size) ==
  /\ Click /\ avatarPopup /\ Len(dropped) < Limit
  /\ dropped' = Append(dropped, size)
  /\ UNCHANGED <<calls, accounts, password, store_a, me, role, form_a, msgs_a, uploading,
                 avatarPopup, expelled>>

RemoveDropped(i) ==
  /\ Click /\ avatarPopup /\ i \in DOMAIN dropped
  /\ dropped' = SubSeq(dropped, 1, i - 1) \o SubSeq(dropped, i + 1, Len(dropped))
  /\ UNCHANGED <<calls, accounts, password, store_a, me, role, form_a, msgs_a, uploading,
                 avatarPopup, expelled>>

(* uploadFiles: the files as they are now, one after the other; nothing      *)
(* hinders a second click.                                                   *)
UploadFiles ==
  /\ Click /\ avatarPopup /\ dropped # <<>>
  /\ uploading' = TRUE
  /\ Ask(<<[what |-> "loop", step |-> "start", todo |-> dropped, h |-> 0, i |-> 0, first |-> 0]>>)
  /\ UNCHANGED <<down, accounts, password, store_a, me, role, form_a, msgs_a, dropped,
                 avatarPopup, expelled>>

(* FdbChunkedUploadStart, Send and End                                       *)
ServeLoop ==
  LET m == Head(up)
      size == Head(m.todo)
      h == Len(received) + 1
      slice == IF m.i + ChunkSize < size THEN ChunkSize ELSE size - m.i
  IN /\ Serving("loop")
     /\ CASE m.step = "start" ->
               /\ Serve([m EXCEPT !.h = h, !.first = IF @ = 0 THEN h ELSE @])
               /\ received' = Append(received, 0) /\ size_u' = Append(size_u, size)
               /\ UNCHANGED ended
          [] m.step = "chunk" ->
               /\ Serve([m EXCEPT !.i = @ + ChunkSize])
               /\ received' = [received EXCEPT ![m.h] = @ + slice] /\ UNCHANGED <<ended, size_u>>
          [] m.step = "end" ->
               /\ Serve([m EXCEPT !.todo = Tail(@)])
               /\ ended' = ended \cup {m.h} /\ UNCHANGED <<received, size_u>>
     /\ UNCHANGED <<accounts, password, avatar, me, role, form_a, msgs_a, drop_a, clicks, expelled>>

ChunksLeft(i, size) == i < size

LoopArrives ==
  LET m == Head(down)
      over == m.step = "end" /\ m.todo = <<>>
      next == CASE m.step = "end" -> [m EXCEPT !.step = "start", !.i = 0]
                [] m.step # "end" /\ ChunksLeft(m.i, Head(m.todo)) -> [m EXCEPT !.step = "chunk"]
                [] OTHER -> [m EXCEPT !.step = "end"]
  IN /\ Getting("loop") /\ Got
     /\ uploading' = (uploading /\ ~ over)
     /\ Ask(IF over THEN <<[what |-> "setavatar", h |-> m.first]>> ELSE <<next>>)
     /\ UNCHANGED <<accounts, password, store_a, me, role, form_a, msgs_a, dropped, avatarPopup,
                    clicks, expelled>>

(* PdbUserChangeAvatar                                                       *)
ServeSetAvatar ==
  /\ Serving("setavatar")
  /\ Serve(Head(up))
  /\ avatar' = IF Mine THEN Head(up).h ELSE avatar
  /\ UNCHANGED <<accounts, password, received, ended, size_u, me, role, form_a, msgs_a, drop_a,
                 clicks, expelled>>

SetAvatarArrives ==
  /\ Getting("setavatar") /\ Got
  /\ avatarPopup' = FALSE
  /\ UNCHANGED <<up, accounts, password, store_a, me, role, form_a, msgs_a, dropped, uploading,
                 clicks, expelled>>

AccountsNext ==
  \/ MyAvatarArrives \/ UsersArrive \/ MessageTimer
  \/ \E same \in BOOLEAN : \/ \E old \in 0 .. MaxClicks : ChangePassword(old, same)
                           \/ \E r \in RoleIds : CreateNewUser("new", r, same)
  \/ \E n \in Names : DeleteUser(n)
  \/ DeleteOwnAccount \/ ServeAccounts \/ ServeCreate \/ ServeRemove \/ AccountAnswer
  \/ ShowAvatarPopup \/ \E s \in FileSizes : OnDrop(s)
  \/ \E i \in 1 .. Limit : RemoveDropped(i)
  \/ UploadFiles \/ ServeLoop \/ LoopArrives \/ ServeSetAvatar \/ SetAvatarArrives

------------------------------------------------------------------------------
AccountsTypeOK ==
  /\ DOMAIN accounts \subseteq Names /\ \A n \in DOMAIN accounts : accounts[n] \in RoleIds
  /\ password \in 0 .. MaxClicks /\ received \in Seq(Nat) /\ ended \subseteq DOMAIN received
  /\ avatar \in {0} \cup DOMAIN received /\ DOMAIN size_u = DOMAIN received
  /\ allRoles \subseteq RoleIds /\ allUsers \subseteq [name : Names, allowed : BOOLEAN]
  /\ {changeFailed, changeOK, uploading, avatarPopup} \subseteq BOOLEAN
  /\ msgTimers \in Seq(BOOLEAN) /\ dropped \in Seq(FileSizes) /\ Len(dropped) <= Limit
  /\ expelled \subseteq Names

(* The server takes what the forms offer: a role, and a user to delete, that *)
(* is offered to a sysop but refused is of the sysop's own rank.             *)
OffersRight ==
  Administers(role) =>
    /\ \A r \in allRoles : Outranks(r) \/ r = role
    /\ \A u \in allUsers : (u.allowed /\ u.name \in DOMAIN accounts) =>
         Outranks(accounts[u.name]) \/ accounts[u.name] = role

(* A user deleted with the form is not offered again once the answers are    *)
(* there, unless created again.                                              *)
ExpelledNotListed ==
  Quiet("dashboard") => \A u \in allUsers : u.name \notin expelled

(* No message stays: there is a timer for each that is shown.                *)
MessagesEnd ==
  /\ changeOK => TRUE \in Range(msgTimers)
  /\ changeFailed => FALSE \in Range(msgTimers)

(* The file that becomes the avatar was ended and has all of its bytes, the  *)
(* last chunk among them, also when two uploads are under way at once.       *)
AvatarWhole == avatar # 0 => avatar \in ended /\ received[avatar] = size_u[avatar]

------------------------------------------------------------------------------
(***************************************************************************)
(* The login page (frontend/src/login.tsx): every submission is a request of *)
(* its own, answered in any order; a refusal is shown for some seconds.      *)
(***************************************************************************)

CONSTANT MaxLogins   (* bound: submissions                                   *)

ASSUME LoginAssumption == MaxLogins \in Nat

VARIABLES
  fields,      (* whether username and password are those of a user          *)
  logins,      (* requests under way                                         *)
  failed,      (* the banner                                                 *)
  timers_i,    (* timers that will clear the banner, the oldest first; all    *)
               (*   take as long                                             *)
  ftimeout,    (* the timer that was set last                                *)
  reloaded, tries,
  lastFailure  (* history: the timer of the last refusal                     *)

vars_i == <<fields, logins, failed, timers_i, ftimeout, reloaded, tries, lastFailure>>

LoginInit ==
  /\ fields = FALSE /\ logins = {} /\ failed = FALSE /\ timers_i = <<>> /\ ftimeout = 0
  /\ reloaded = FALSE /\ tries = 0 /\ lastFailure = 0

(* The fields may be changed while requests are under way.                   *)
TypeCredentials ==
  /\ ~ reloaded
  /\ fields' \in BOOLEAN \ {fields}
  /\ UNCHANGED <<logins, failed, timers_i, ftimeout, reloaded, tries, lastFailure>>

LoginRequest ==
  /\ ~ reloaded /\ tries < MaxLogins
  /\ tries' = tries + 1
  /\ logins' = logins \cup {[id |-> tries + 1, right |-> fields]}
  /\ UNCHANGED <<fields, failed, timers_i, ftimeout, reloaded, lastFailure>>

ClearsTimer(id) ==
  IF id \in Range(timers_i)
  THEN RemoveAt(timers_i, CHOOSE i \in DOMAIN timers_i : timers_i[i] = id)
  ELSE timers_i

LoginAnswered(m) ==
  /\ m \in logins /\ ~ reloaded
  /\ logins' = logins \ {m}
  /\ IF m.right
     THEN reloaded' = TRUE /\ UNCHANGED <<failed, timers_i, ftimeout, lastFailure>>
     ELSE /\ failed' = TRUE
          /\ timers_i' = Append(ClearsTimer(ftimeout), m.id)
          /\ ftimeout' = m.id /\ lastFailure' = m.id
          /\ UNCHANGED reloaded
  /\ UNCHANGED <<fields, tries>>

BannerTimer ==
  /\ timers_i # <<>> /\ ~ reloaded
  /\ timers_i' = Tail(timers_i) /\ failed' = FALSE
  /\ UNCHANGED <<fields, logins, ftimeout, reloaded, tries, lastFailure>>

LoginNext ==
  \/ TypeCredentials \/ LoginRequest \/ BannerTimer
  \/ \E m \in logins : LoginAnswered(m)

------------------------------------------------------------------------------
LoginTypeOK ==
  /\ {fields, failed, reloaded} \subseteq BOOLEAN /\ tries \in 0 .. MaxLogins
  /\ logins \subseteq [id : 1 .. MaxLogins, right : BOOLEAN]
  /\ timers_i \in Seq(1 .. MaxLogins) /\ {ftimeout, lastFailure} \subseteq 0 .. MaxLogins

(* The banner is shown exactly as long as the timer of the last refusal that  *)
(* was answered runs: an earlier refusal does not end it early, a later one   *)
(* makes it last, and it does not stay.                                       *)
BannerLasts == failed <=> lastFailure \in Range(timers_i)
=============================================================================
