--------------------------- MODULE WebPages_proofs ---------------------------
(***************************************************************************)
(* The page of the web interface that is shown, with the server's side of    *)
(* it: first the account page, laid out as the pages of Pages_proofs are;    *)
(* then the theorems: what is proved of each page holds of the one that the  *)
(* router shows, for any keys, names, files, numbers and bounds.             *)
(***************************************************************************)
EXTENDS WebPages, Pages_proofs

------------------------------------------------------------------------------
(* The account page.  The server sends it no events, so that answers come in *)
(* the order of the calls: a list loses its first d messages, d being 0 or   *)
(* 1, and A, one message or none, is put behind the others.                  *)
Slid(s, t, d, A) ==
  /\ d \in {0, 1} /\ IsList(s) /\ IsList(t)
  /\ \A i \in DOMAIN t : \/ i + d \in DOMAIN s /\ t[i] = s[i + d]
                         \/ t[i] \in A /\ i + d \notin DOMAIN s /\ \A j \in DOMAIN t : ~ (j > i)
  /\ \A i \in DOMAIN s : i > d => \E j \in DOMAIN t : i = j + d /\ t[j] = s[i]
  /\ \A a \in A : \E i \in DOMAIN t : t[i] = a /\ \A j \in DOMAIN t : ~ (j > i)

LEMMA SlidSame ==
  ASSUME NEW s, IsList(s)
  PROVE  Slid(s, s, 0, {}) /\ DOMAIN s \subseteq Nat \ {0}
<1>1. DOMAIN s = 1 .. Len(s) /\ Len(s) \in Nat
  BY ListedFacts
<1>2. \A i \in DOMAIN s : i + 0 = i /\ i \in Nat \ {0}
  BY <1>1
<1> HIDE DEF IsList
<1> QED BY <1>2 DEF Slid

LEMMA SlidFirst ==
  ASSUME NEW s, IsList(s), s # <<>>
  PROVE  /\ Slid(s, Tail(s), 1, {}) /\ 1 \in DOMAIN s /\ Head(s) = s[1]
         /\ DOMAIN s \subseteq Nat \ {0} /\ DOMAIN Tail(s) \subseteq Nat \ {0}
<1>1. /\ IsList(Tail(s)) /\ Len(s) \in Nat \ {0}
      /\ DOMAIN Tail(s) = 1 .. Len(s) - 1 /\ DOMAIN s = 1 .. Len(s)
      /\ \A i \in 1 .. Len(s) - 1 : Tail(s)[i] = s[i + 1] /\ i + 1 \in DOMAIN s
      /\ Head(s) = s[1] /\ 1 \in DOMAIN s
  BY FirstGone
<1>2. ASSUME NEW i \in DOMAIN s, i > 1 PROVE i - 1 \in DOMAIN Tail(s) /\ i = (i - 1) + 1
  BY <1>1, <1>2
<1>3. DOMAIN s \subseteq Nat \ {0} /\ DOMAIN Tail(s) \subseteq Nat \ {0}
  BY <1>1
<1> HIDE DEF IsList
<1>4. \A i \in DOMAIN s : i > 1 => \E j \in DOMAIN Tail(s) : i = j + 1 /\ Tail(s)[j] = s[i]
  BY <1>1, <1>2
<1> QED BY <1>1, <1>3, <1>4 DEF Slid

LEMMA SlidLast ==
  ASSUME NEW s, IsList(s), NEW a
  PROVE  /\ Slid(s, Append(s, a), 0, {a}) /\ s \o <<a>> = Append(s, a)
         /\ DOMAIN s \subseteq Nat \ {0} /\ DOMAIN Append(s, a) \subseteq Nat \ {0}
<1> DEFINE t == Append(s, a)
<1>1. /\ IsList(t) /\ s \o <<a>> = t /\ Len(s) \in Nat
      /\ DOMAIN t = 1 .. Len(s) + 1 /\ DOMAIN s = 1 .. Len(s)
      /\ \A i \in 1 .. Len(s) : t[i] = s[i]
      /\ t[Len(s) + 1] = a
  BY PutBehind
<1> HIDE DEF t, IsList
<1>2. \A i \in DOMAIN t : i + 0 = i /\ i \in Nat \ {0}
  BY <1>1
<1>3. \A i \in DOMAIN s : i \in DOMAIN t /\ t[i] = s[i] /\ i \in Nat \ {0} /\ i = i + 0
  BY <1>1
<1>4. ASSUME NEW i \in DOMAIN t, i \notin DOMAIN s
      PROVE  t[i] = a /\ \A j \in DOMAIN t : ~ (j > i)
  BY <1>1, <1>4
<1>5. Len(s) + 1 \in DOMAIN t
  BY <1>1
<1>6. Slid(s, t, 0, {a})
  BY <1>1, <1>2, <1>3, <1>4, <1>5 DEF Slid
<1> QED BY <1>1, <1>2, <1>3, <1>6 DEF t

(* A call that is answered, when no event is on its way.                     *)
LEMMA ServedInOrder ==
  ASSUME IsList(up), IsList(down), up # <<>>, NEW a, Serve(a),
         \A i \in DOMAIN down : "event" \notin DOMAIN down[i]
  PROVE  /\ up' = Tail(up) /\ Slid(up, up', 1, {}) /\ Slid(down, down', 0, {a})
         /\ 1 \in DOMAIN up /\ Head(up) = up[1]
<1>1. PICK n \in 0 .. Len(down) : Overtaking(n) /\ down' = InsertAt(down, n + 1, a)
  BY DEF Serve
<1>2. DOMAIN down = 1 .. Len(down) /\ Len(down) \in Nat
  BY ListedFacts
<1>3. n = Len(down)
  <2> SUFFICES ASSUME n # Len(down) PROVE FALSE
    OBVIOUS
  <2> DEFINE L == Len(down)
  <2>1. n \in 0 .. L /\ L \in Nat /\ n # L /\ DOMAIN down = 1 .. L
    BY <1>1, <1>2
  <2> HIDE DEF L
  <2>2. n + 1 \in n + 1 .. L /\ n + 1 \in 1 .. L
    BY <2>1
  <2>3. n + 1 \in n + 1 .. Len(down) /\ n + 1 \in DOMAIN down
    BY <2>1, <2>2 DEF L
  <2> QED BY <1>1, <2>3 DEF Overtaking
<1> DEFINE t == InsertAt(down, n + 1, a)
<1>4. /\ IsList(t) /\ Len(t) = Len(down) + 1
      /\ DOMAIN t = 1 .. Len(down) + 1
      /\ \A i \in 1 .. n : t[i] = down[i]
      /\ t[n + 1] = a
  BY PutBetween
<1> DEFINE r == Append(down, a)
<1>5. /\ IsList(r) /\ Len(r) = Len(down) + 1
      /\ DOMAIN r = 1 .. Len(down) + 1
      /\ \A i \in 1 .. Len(down) : r[i] = down[i]
      /\ r[Len(down) + 1] = a
  BY PutBehind
<1> HIDE DEF t, r
<1>6. t = r
  <2>1. t \in Seq(Range(t)) /\ r \in Seq(Range(r))
    BY <1>4, <1>5 DEF IsList
  <2>2. Len(t) = Len(r) /\ \A i \in 1 .. Len(t) : t[i] = r[i]
    <3>1. \A i \in 1 .. Len(down) + 1 : i \in 1 .. Len(down) \/ i = Len(down) + 1
      BY <1>2
    <3> QED BY <1>3, <1>4, <1>5, <3>1
  <2>3. t = [i \in 1 .. Len(t) |-> t[i]] /\ r = [i \in 1 .. Len(r) |-> r[i]]
    BY <2>1, LenProperties, SeqDef
  <2> QED BY <2>2, <2>3
<1>7. Slid(down, down', 0, {a})
  BY <1>1, <1>6, SlidLast DEF t, r
<1>8. up' = Tail(up)
  BY DEF Serve
<1> QED BY <1>7, <1>8, SlidFirst

------------------------------------------------------------------------------
(* What is said in calls and answers.                                        *)
Loops == [what : {"loop"}, step : {"start", "chunk", "end"}, todo : Seq(FileSizes),
          h : Nat, i : Nat, first : Nat]
CallSays(m) ==
  /\ "event" \notin DOMAIN m
  /\ m.what = "create" => m.name \in Names /\ m.role \in RoleIds
  /\ m.what = "remove" => m.name \in Names /\ m.form \in BOOLEAN
  /\ m.what = "loop" => m \in Loops
  /\ m.what = "setavatar" => m.h \in Nat
AnswerSays(m) ==
  /\ "event" \notin DOMAIN m
  /\ m.what = "users" => /\ DOMAIN m.users \subseteq Names /\ m.ok \in BOOLEAN
                         /\ \A n \in DOMAIN m.users : m.users[n] \in RoleIds
  /\ m.what \in {"password", "create", "remove"} => m.ok \in BOOLEAN
  /\ m.what = "remove" => m.form \in BOOLEAN
  /\ m.what = "loop" => m \in Loops
Said ==
  /\ IsList(up) /\ \A i \in DOMAIN up : CallSays(up[i])
  /\ IsList(down) /\ \A i \in DOMAIN down : AnswerSays(down[i])

AccountsKnown ==
  /\ role \in RoleIds /\ me \in Names /\ clicks \in 0 .. MaxClicks /\ size_u \in Seq(Nat)

(* A password is changed by a click: those on their way have numbers, which  *)
(* are not yet used.                                                         *)
ClickNumbers(f) ==
  /\ \A i \in DOMAIN up : up[i].what = "password" => f[i] \in Nat /\ password < f[i] /\ f[i] <= clicks
  /\ \A i, j \in DOMAIN up :
       (i < j /\ up[i].what = "password" /\ up[j].what = "password") => f[i] < f[j]
PasswordsLeft == password <= clicks /\ \E f : ClickNumbers(f)

(* Who is offered does not outrank the user, however long ago the list was    *)
(* made: an account that is made meanwhile does not either.                   *)
Ranked(n) == n \in DOMAIN accounts => Offered(accounts[n])
ListRanked(m) ==
  m.what = "users" => \A n \in DOMAIN m.users : Offered(m.users[n]) => Ranked(n)
OffersRanked ==
  /\ \A r \in allRoles : Offered(r)
  /\ \A u \in allUsers : u.allowed => Ranked(u.name)
  /\ \A i \in DOMAIN down : ListRanked(down[i])

(* Of a user who was deleted with the form, a list without the user is asked  *)
(* for, will be, is the last that comes, or came.                             *)
Reasks(m) == m.what = "remove" /\ m.form /\ m.ok
Lacks(m, n) == m.what = "users" /\ m.ok /\ n \notin DOMAIN m.users
Goes(n) ==
  \/ \E i \in DOMAIN up : up[i].what = "users"
  \/ \E i \in DOMAIN down : Reasks(down[i])
  \/ \E i \in DOMAIN down : Lacks(down[i], n) /\ \A j \in DOMAIN down : j > i => down[j].what # "users"
  \/ /\ \A i \in DOMAIN down : down[i].what # "users"
     /\ \A u \in allUsers : u.name # n
ExpelledGo == \A n \in expelled : n \notin DOMAIN accounts /\ Administers(role) /\ Goes(n)

(* A file is whole, or as long as what was sent of it.                       *)
Whole(h) == h \in ended /\ received[h] = size_u[h]
SentOf(i, size) == IF i < size THEN i ELSE size
Filling(m) ==
  /\ m.h \in DOMAIN received \ ended /\ m.todo # <<>>
  /\ size_u[m.h] = Head(m.todo) /\ received[m.h] = SentOf(m.i, Head(m.todo))
  /\ m.first = m.h \/ Whole(m.first)
CallFile(m) ==
  /\ (m.what = "loop" /\ m.step = "start") => m.todo # <<>> /\ m.i = 0 /\ (m.first = 0 \/ Whole(m.first))
  /\ (m.what = "loop" /\ m.step # "start") => Filling(m)
  /\ (m.what = "loop" /\ m.step = "chunk") => m.i < Head(m.todo)
  /\ (m.what = "loop" /\ m.step = "end") => ~ (m.i < Head(m.todo))
  /\ m.what = "setavatar" => Whole(m.h)
AnswerFile(m) ==
  /\ (m.what = "loop" /\ m.step # "end") => Filling(m)
  /\ (m.what = "loop" /\ m.step = "end") => Whole(m.first)
FilesFilled ==
  /\ \A i \in DOMAIN up : CallFile(up[i])
  /\ \A i \in DOMAIN down : AnswerFile(down[i])

(* Each upload has a file of its own.                                        *)
OpenCall(m) == m.what = "loop" /\ m.step # "start"
OpenAnswer(m) == m.what = "loop" /\ m.step # "end"
FilesApart ==
  /\ \A i, j \in DOMAIN up : (i # j /\ OpenCall(up[i]) /\ OpenCall(up[j])) => up[i].h # up[j].h
  /\ \A i, j \in DOMAIN down :
       (i # j /\ OpenAnswer(down[i]) /\ OpenAnswer(down[j])) => down[i].h # down[j].h
  /\ \A i \in DOMAIN up, j \in DOMAIN down :
       (OpenCall(up[i]) /\ OpenAnswer(down[j])) => up[i].h # down[j].h

AccountsInv ==
  /\ AccountsTypeOK
  /\ AccountsKnown
  /\ Said
  /\ PasswordsLeft
  /\ OffersRanked
  /\ ExpelledGo
  /\ MessagesEnd
  /\ FilesFilled
  /\ FilesApart
  /\ AvatarWhole

(* The invariant says what is to be shown.                                   *)
LEMMA AccountsImply ==
  ASSUME AccountsInv
  PROVE  AccountsTypeOK /\ OffersRight /\ ExpelledNotListed /\ MessagesEnd /\ AvatarWhole
<1> USE DEF AccountsInv
<1>1. ASSUME NEW r \in RoleIds, Offered(r) PROVE Outranks(r) \/ r = role
  BY <1>1 DEF Offered, Outranks, AccountsKnown, RoleIds
<1>2. OffersRight
  <2>1. \A r \in allRoles : r \in RoleIds /\ Offered(r)
    BY DEF AccountsTypeOK, OffersRanked
  <2>2. \A u \in allUsers : (u.allowed /\ u.name \in DOMAIN accounts) =>
          accounts[u.name] \in RoleIds /\ Offered(accounts[u.name])
    BY DEF AccountsTypeOK, OffersRanked, Ranked
  <2> QED BY <1>1, <2>1, <2>2 DEF OffersRight
<1>3. ExpelledNotListed
  <2> SUFFICES ASSUME up = <<>>, down = <<>>, NEW u \in allUsers, u.name \in expelled PROVE FALSE
    BY DEF ExpelledNotListed, Quiet
  <2>1. DOMAIN up = {} /\ DOMAIN down = {}
    OBVIOUS
  <2> QED BY <2>1 DEF ExpelledGo, Goes
<1> QED BY <1>2, <1>3

LEMMA AccountsBegin ==
  ASSUME AccountsInit, up = AccountsCalls, down = <<>>
  PROVE  AccountsInv
<1> USE DEF AccountsInit, RoleIds, Names
<1>1. \A n \in Names : RoleOf[n] \in RoleIds
  BY DEF RoleOf
<1>2. /\ DOMAIN down = {} /\ DOMAIN up = {1} /\ up[1] = [what |-> "myavatar"]
      /\ up \in Seq({up[1]}) /\ down \in Seq({})
  BY DEF AccountsCalls
<1>3. AccountsTypeOK /\ AccountsKnown
  <2>1. /\ DOMAIN accounts \subseteq Names /\ \A n \in DOMAIN accounts : accounts[n] \in RoleIds
        /\ role \in RoleIds
    BY <1>1
  <2>2. /\ received \in Seq(Nat) /\ size_u \in Seq(Nat) /\ msgTimers \in Seq(BOOLEAN)
        /\ dropped \in Seq(FileSizes) /\ Len(dropped) = 0 /\ DOMAIN size_u = DOMAIN received
    OBVIOUS
  <2>3. Limit \in Nat /\ MaxClicks \in Nat
    BY AccountsAssumption
  <2>4. me \in Names /\ clicks \in 0 .. MaxClicks /\ password \in 0 .. MaxClicks /\ Len(dropped) <= Limit
    BY <2>2, <2>3
  <2>5. AccountsTypeOK
    BY <2>1, <2>2, <2>4 DEF AccountsTypeOK
  <2> QED BY <2>1, <2>2, <2>4, <2>5 DEF AccountsKnown
<1>4. Said
  <2>1. IsList(up) /\ IsList(down)
    BY <1>2, ListedIs
  <2> QED BY <1>2, <2>1 DEF Said, CallSays
<1>5. ClickNumbers([i \in DOMAIN up |-> 0])
  BY <1>2 DEF ClickNumbers
<1>6. OffersRanked /\ ExpelledGo /\ MessagesEnd /\ AvatarWhole
  BY <1>2 DEF OffersRanked, ExpelledGo, MessagesEnd, AvatarWhole
<1>7. FilesFilled /\ FilesApart
  BY <1>2 DEF FilesFilled, FilesApart, CallFile, OpenCall
<1>8. password <= clicks
  OBVIOUS
<1> QED BY <1>3, <1>4, <1>5, <1>6, <1>7, <1>8 DEF AccountsInv, PasswordsLeft

------------------------------------------------------------------------------
(* What a step leaves of each part of the invariant, when it takes d calls   *)
(* and puts A behind them, and takes e answers and puts B behind them.       *)
Moves(d, A, e, B) ==
  /\ Slid(up, up', d, A) /\ DOMAIN up \subseteq Nat \ {0} /\ DOMAIN up' \subseteq Nat \ {0}
  /\ Slid(down, down', e, B) /\ DOMAIN down \subseteq Nat \ {0} /\ DOMAIN down' \subseteq Nat \ {0}

LEMMA SaidStays ==
  ASSUME Said, NEW d, NEW A, NEW e, NEW B, Moves(d, A, e, B),
         \A m \in A : CallSays(m), \A m \in B : AnswerSays(m)
  PROVE  Said'
<1>1. IsList(up') /\ IsList(down')
  BY DEF Moves, Slid
<1>2. ASSUME NEW i \in DOMAIN up' PROVE CallSays(up'[i])
  BY DEF Said, Moves, Slid
<1>3. ASSUME NEW i \in DOMAIN down' PROVE AnswerSays(down'[i])
  BY DEF Said, Moves, Slid
<1> HIDE DEF IsList
<1>4. IsList(up)' /\ IsList(down)'
  BY <1>1 DEF IsList
<1> QED BY <1>2, <1>3, <1>4 DEF Said, CallSays, AnswerSays, Loops, Names, RoleIds

LEMMA NumbersStay ==
  ASSUME PasswordsLeft, password \in Nat, clicks \in Nat, clicks' \in {clicks, clicks + 1},
         NEW d, NEW A, NEW e, NEW B, Moves(d, A, e, B),
         \A m \in A : m.what = "password" => clicks' = clicks + 1,
         \/ password' = password
         \/ d = 1 /\ 1 \in DOMAIN up /\ up[1].what = "password" /\ password' = password + 1
  PROVE  PasswordsLeft'
<1>1. PICK f : ClickNumbers(f)
  BY DEF PasswordsLeft
<1> DEFINE g == [i \in DOMAIN up' |-> IF i + d \in DOMAIN up THEN f[i + d] ELSE clicks']
<1>2. d \in {0, 1} /\ \A i \in DOMAIN up' : i \in Nat \ {0} /\ i + d \in Nat /\ (d = 1 => i + d > 1)
  BY DEF Moves, Slid
<1>3. password' <= clicks'
  BY <1>1 DEF ClickNumbers, PasswordsLeft
<1>4. ASSUME NEW i \in DOMAIN up', up'[i].what = "password"
      PROVE  g[i] \in Nat /\ password' < g[i] /\ g[i] <= clicks'
  <2>1. CASE i + d \in DOMAIN up
    <3>1. up'[i] = up[i + d] /\ g[i] = f[i + d]
      BY <2>1 DEF Moves, Slid
    <3>2. f[i + d] \in Nat /\ password < f[i + d] /\ f[i + d] <= clicks
      BY <1>1, <1>4, <2>1, <3>1 DEF ClickNumbers
    <3>3. CASE password' = password
      BY <3>1, <3>2, <3>3
    <3>4. CASE d = 1 /\ 1 \in DOMAIN up /\ up[1].what = "password" /\ password' = password + 1
      <4>1. f[1] \in Nat /\ password < f[1] /\ f[1] < f[i + d]
        BY <1>1, <1>2, <1>4, <2>1, <3>1, <3>4 DEF ClickNumbers
      <4> QED BY <3>1, <3>2, <3>4, <4>1
    <3> QED BY <3>3, <3>4
  <2>2. CASE i + d \notin DOMAIN up
    <3>1. g[i] = clicks' /\ up'[i] \in A
      BY <2>2 DEF Moves, Slid
    <3>2. clicks' = clicks + 1
      BY <1>4, <3>1
    <3>3. password' <= clicks
      <4>1. CASE password' = password
        BY <4>1 DEF PasswordsLeft
      <4>2. CASE 1 \in DOMAIN up /\ up[1].what = "password" /\ password' = password + 1
        BY <1>1, <4>2 DEF ClickNumbers
      <4> QED BY <4>1, <4>2
    <3> QED BY <3>1, <3>2, <3>3
  <2> QED BY <2>1, <2>2
<1>5. ASSUME NEW i \in DOMAIN up', NEW j \in DOMAIN up', i < j,
             up'[i].what = "password", up'[j].what = "password"
      PROVE  g[i] < g[j]
  <2>1. i + d < j + d
    BY <1>2, <1>5
  <2>2. i + d \in DOMAIN up /\ up'[i] = up[i + d] /\ g[i] = f[i + d]
    BY <1>5 DEF Moves, Slid
  <2>3. CASE j + d \in DOMAIN up
    <3>1. up'[j] = up[j + d] /\ g[j] = f[j + d]
      BY <2>3 DEF Moves, Slid
    <3> QED BY <1>1, <1>5, <2>1, <2>2, <2>3, <3>1 DEF ClickNumbers
  <2>4. CASE j + d \notin DOMAIN up
    <3>1. g[j] = clicks' /\ up'[j] \in A
      BY <2>4 DEF Moves, Slid
    <3>2. clicks' = clicks + 1
      BY <1>5, <3>1
    <3>3. f[i + d] \in Nat /\ f[i + d] <= clicks
      BY <1>1, <1>5, <2>2 DEF ClickNumbers
    <3> QED BY <2>2, <3>1, <3>2, <3>3
  <2> QED BY <2>3, <2>4
<1> HIDE DEF g
<1>6. PICK h : h = g
  OBVIOUS
<1>7. ClickNumbers(h)'
  BY <1>4, <1>5, <1>6 DEF ClickNumbers
<1> QED BY <1>3, <1>7 DEF PasswordsLeft

LEMMA OffersStay ==
  ASSUME OffersRanked, NEW d, NEW A, NEW e, NEW B, Moves(d, A, e, B), role' = role,
         \A n : Ranked(n) => Ranked(n)',
         \A r \in allRoles' : Offered(r),
         \A u \in allUsers' : u.allowed => Ranked(u.name),
         \A m \in B : ListRanked(m)
  PROVE  OffersRanked'
<1>1. \A m : ListRanked(m) => ListRanked(m)'
  BY DEF ListRanked, Offered
<1>2. \A i \in DOMAIN down' : \E m : m = down'[i] /\ ListRanked(m)
  BY DEF OffersRanked, Moves, Slid
<1>3. \A i \in DOMAIN down' : ListRanked(down[i])'
  BY <1>1, <1>2
<1> QED BY <1>3 DEF OffersRanked, Offered

(* A list that goes is still gone: the call for it, its answer and the table  *)
(* stay where they are.                                                      *)
LEMMA GoesOn ==
  ASSUME NEW n, Goes(n), NEW d, NEW A, NEW e, NEW B, Moves(d, A, e, B), allUsers' = allUsers,
         (d = 1 /\ 1 \in DOMAIN up) => up[1].what # "users",
         (e = 1 /\ 1 \in DOMAIN down) => down[1].what # "users" /\ ~ Reasks(down[1]),
         \A m \in B : m.what # "users"
  PROVE  Goes(n)'
<1>1. \A i \in DOMAIN up : i > d \/ (d = 1 /\ i = 1)
  BY DEF Moves, Slid
<1>2. \A i \in DOMAIN down : i > e \/ (e = 1 /\ i = 1)
  BY DEF Moves, Slid
<1>3. \A i \in DOMAIN down' : down'[i].what = "users" => i + e \in DOMAIN down /\ down'[i] = down[i + e]
  BY DEF Moves, Slid
<1>4. CASE \E i \in DOMAIN up : up[i].what = "users"
  <2>1. \E i \in DOMAIN up' : up'[i].what = "users"
    BY <1>1, <1>4 DEF Moves, Slid
  <2> QED BY <2>1 DEF Goes
<1>5. CASE \E i \in DOMAIN down : Reasks(down[i])
  <2>1. \E i \in DOMAIN down' : Reasks(down'[i])
    BY <1>2, <1>5 DEF Moves, Slid
  <2> QED BY <2>1 DEF Goes, Reasks
<1>6. CASE \E i \in DOMAIN down : Lacks(down[i], n) /\ \A j \in DOMAIN down : j > i => down[j].what # "users"
  <2>1. PICK i \in DOMAIN down : Lacks(down[i], n) /\ \A j \in DOMAIN down : j > i => down[j].what # "users"
    BY <1>6
  <2>2. i > e
    BY <1>2, <2>1 DEF Lacks
  <2>3. PICK j \in DOMAIN down' : i = j + e /\ down'[j] = down[i]
    BY <2>2 DEF Moves, Slid
  <2>4. \A k \in DOMAIN down' : k > j => down'[k].what # "users"
    <3> SUFFICES ASSUME NEW k \in DOMAIN down', k > j, down'[k].what = "users" PROVE FALSE
      OBVIOUS
    <3>1. k + e > i /\ k + e \in DOMAIN down /\ down'[k] = down[k + e]
      BY <1>3, <2>3 DEF Moves, Slid
    <3> QED BY <2>1, <3>1
  <2>5. Lacks(down'[j], n)
    BY <2>1, <2>3
  <2> QED BY <2>4, <2>5 DEF Goes, Lacks
<1>7. CASE (\A i \in DOMAIN down : down[i].what # "users") /\ \A u \in allUsers : u.name # n
  <2>1. \A i \in DOMAIN down' : down'[i].what # "users"
    BY <1>3, <1>7
  <2> QED BY <1>7, <2>1 DEF Goes
<1> QED BY <1>4, <1>5, <1>6, <1>7 DEF Goes

LEMMA ExpelledStay ==
  ASSUME ExpelledGo, NEW d, NEW A, NEW e, NEW B, Moves(d, A, e, B), UNCHANGED <<role, allUsers>>,
         (d = 1 /\ 1 \in DOMAIN up) => up[1].what # "users",
         (e = 1 /\ 1 \in DOMAIN down) => down[1].what # "users" /\ ~ Reasks(down[1]),
         \A m \in B : m.what # "users",
         expelled' \subseteq expelled, \A n \in expelled' : n \notin DOMAIN accounts'
  PROVE  ExpelledGo'
<1>1. \A n \in expelled' : Goes(n)'
  BY GoesOn DEF ExpelledGo
<1>2. \A n \in expelled' : Administers(role)'
  BY DEF ExpelledGo, Administers
<1> QED BY <1>1, <1>2 DEF ExpelledGo

(* Files that are not those of the messages taken.                           *)
LEMMA FilesStay ==
  ASSUME FilesFilled, NEW d, NEW A, NEW e, NEW B, Moves(d, A, e, B),
         \A m : (\E i \in DOMAIN up : i > d /\ up[i] = m) => CallFile(m)',
         \A m : (\E i \in DOMAIN down : i > e /\ down[i] = m) => AnswerFile(m)',
         \A m \in A : CallFile(m)', \A m \in B : AnswerFile(m)'
  PROVE  FilesFilled'
<1>1. \A i \in DOMAIN up' : up'[i] \in A \/ \E j \in DOMAIN up : j > d /\ up[j] = up'[i]
  <2> SUFFICES ASSUME NEW i \in DOMAIN up', up'[i] \notin A
               PROVE  \E j \in DOMAIN up : j > d /\ up[j] = up'[i]
    OBVIOUS
  <2>1. i + d \in DOMAIN up /\ up[i + d] = up'[i] /\ i + d > d
    BY DEF Moves, Slid
  <2> QED BY <2>1
<1>2. \A i \in DOMAIN down' : down'[i] \in B \/ \E j \in DOMAIN down : j > e /\ down[j] = down'[i]
  <2> SUFFICES ASSUME NEW i \in DOMAIN down', down'[i] \notin B
               PROVE  \E j \in DOMAIN down : j > e /\ down[j] = down'[i]
    OBVIOUS
  <2>1. i + e \in DOMAIN down /\ down[i + e] = down'[i] /\ i + e > e
    BY DEF Moves, Slid
  <2> QED BY <2>1
<1>3. \A i \in DOMAIN up' : CallFile(up[i])'
  <2> SUFFICES ASSUME NEW i \in DOMAIN up' PROVE CallFile(up[i])'
    OBVIOUS
  <2>1. PICK m : m = up'[i]
    OBVIOUS
  <2>2. CallFile(m)'
    BY <1>1, <2>1
  <2> QED BY <2>1, <2>2
<1>4. \A i \in DOMAIN down' : AnswerFile(down[i])'
  <2> SUFFICES ASSUME NEW i \in DOMAIN down' PROVE AnswerFile(down[i])'
    OBVIOUS
  <2>1. PICK m : m = down'[i]
    OBVIOUS
  <2>2. AnswerFile(m)'
    BY <1>2, <2>1
  <2> QED BY <2>1, <2>2
<1> QED BY <1>3, <1>4 DEF FilesFilled

LEMMA ApartStays ==
  ASSUME FilesApart, NEW d, NEW A, NEW e, NEW B, Moves(d, A, e, B), A = {} \/ B = {},
         \A m \in A : OpenCall(m) =>
           /\ \A i \in DOMAIN up : (i > d /\ OpenCall(up[i])) => up[i].h # m.h
           /\ \A i \in DOMAIN down : (i > e /\ OpenAnswer(down[i])) => down[i].h # m.h,
         \A m \in B : OpenAnswer(m) =>
           /\ \A i \in DOMAIN up : (i > d /\ OpenCall(up[i])) => up[i].h # m.h
           /\ \A i \in DOMAIN down : (i > e /\ OpenAnswer(down[i])) => down[i].h # m.h
  PROVE  FilesApart'
<1>1. \A i \in DOMAIN up' : \/ i + d \in DOMAIN up /\ i + d > d /\ up'[i] = up[i + d]
                            \/ up'[i] \in A /\ i + d \notin DOMAIN up /\ \A j \in DOMAIN up' : ~ (j > i)
  BY DEF Moves, Slid
<1>2. \A i \in DOMAIN down' : \/ i + e \in DOMAIN down /\ i + e > e /\ down'[i] = down[i + e]
                              \/ down'[i] \in B /\ i + e \notin DOMAIN down /\ \A j \in DOMAIN down' : ~ (j > i)
  BY DEF Moves, Slid
<1>3. /\ d \in {0, 1} /\ e \in {0, 1}
      /\ DOMAIN up' \subseteq Nat \ {0} /\ DOMAIN down' \subseteq Nat \ {0}
  BY DEF Moves, Slid
<1>4. ASSUME NEW i \in DOMAIN up', NEW j \in DOMAIN up', i < j, OpenCall(up'[i]), OpenCall(up'[j])
      PROVE  up'[i].h # up'[j].h
  <2>1. i + d \in DOMAIN up /\ i + d > d /\ up'[i] = up[i + d]
    BY <1>1, <1>3, <1>4
  <2>2. CASE j + d \in DOMAIN up /\ up'[j] = up[j + d]
    <3>1. i + d # j + d
      BY <1>3, <1>4
    <3> QED BY <1>4, <2>1, <2>2, <3>1 DEF FilesApart
  <2>3. CASE up'[j] \in A
    BY <1>4, <2>1, <2>3
  <2> QED BY <1>1, <2>2, <2>3
<1>5. ASSUME NEW i \in DOMAIN down', NEW j \in DOMAIN down', i < j, OpenAnswer(down'[i]), OpenAnswer(down'[j])
      PROVE  down'[i].h # down'[j].h
  <2>1. i + e \in DOMAIN down /\ i + e > e /\ down'[i] = down[i + e]
    BY <1>2, <1>3, <1>5
  <2>2. CASE j + e \in DOMAIN down /\ down'[j] = down[j + e]
    <3>1. i + e # j + e
      BY <1>3, <1>5
    <3> QED BY <1>5, <2>1, <2>2, <3>1 DEF FilesApart
  <2>3. CASE down'[j] \in B
    BY <1>5, <2>1, <2>3
  <2> QED BY <1>2, <2>2, <2>3
<1>6. ASSUME NEW i \in DOMAIN up', NEW j \in DOMAIN down', OpenCall(up'[i]), OpenAnswer(down'[j])
      PROVE  up'[i].h # down'[j].h
  <2>1. CASE up'[i] \in A
    <3>1. j + e \in DOMAIN down /\ j + e > e /\ down'[j] = down[j + e]
      BY <1>2, <2>1
    <3> QED BY <1>6, <2>1, <3>1
  <2>2. CASE i + d \in DOMAIN up /\ i + d > d /\ up'[i] = up[i + d]
    <3>1. CASE down'[j] \in B
      BY <1>6, <2>2, <3>1
    <3>2. CASE j + e \in DOMAIN down /\ down'[j] = down[j + e]
      BY <1>6, <2>2, <3>2 DEF FilesApart
    <3> QED BY <1>2, <3>1, <3>2
  <2> QED BY <1>1, <2>1, <2>2
<1>7. \A i, j \in DOMAIN up' : i # j => i < j \/ j < i
  BY <1>3
<1>8. \A i, j \in DOMAIN down' : i # j => i < j \/ j < i
  BY <1>3
<1>9. \A i, j \in DOMAIN up' : (i # j /\ OpenCall(up'[i]) /\ OpenCall(up'[j])) => up'[i].h # up'[j].h
  BY <1>4, <1>7
<1>10. \A i, j \in DOMAIN down' : (i # j /\ OpenAnswer(down'[i]) /\ OpenAnswer(down'[j])) => down'[i].h # down'[j].h
  BY <1>5, <1>8
<1> QED BY <1>6, <1>9, <1>10 DEF FilesApart, OpenCall, OpenAnswer

LEMMA StaysStill ==
  ASSUME Said, UNCHANGED calls
  PROVE  Moves(0, {}, 0, {})
<1>1. up' = up /\ down' = down
  BY DEF calls
<1>2. Slid(up, up, 0, {}) /\ DOMAIN up \subseteq Nat \ {0} /\ Slid(down, down, 0, {}) /\ DOMAIN down \subseteq Nat \ {0}
  BY SlidSame DEF Said
<1> QED BY <1>1, <1>2 DEF Moves

LEMMA AskMoves ==
  ASSUME Said, NEW c, Ask(<<c>>), down' = down
  PROVE  Moves(0, {c}, 0, {})
<1>1. up' = Append(up, c) /\ Slid(up, Append(up, c), 0, {c})
      /\ DOMAIN up \subseteq Nat \ {0} /\ DOMAIN Append(up, c) \subseteq Nat \ {0}
  BY SlidLast DEF Said, Ask
<1>2. Slid(down, down, 0, {}) /\ DOMAIN down \subseteq Nat \ {0}
  BY SlidSame DEF Said
<1> QED BY <1>1, <1>2 DEF Moves

LEMMA GetMoves ==
  ASSUME Said, down # <<>>, Got, up' = up
  PROVE  Moves(0, {}, 1, {}) /\ 1 \in DOMAIN down /\ Head(down) = down[1]
<1>1. Slid(up, up, 0, {}) /\ DOMAIN up \subseteq Nat \ {0}
  BY SlidSame DEF Said
<1>2. down' = Tail(down) /\ Slid(down, Tail(down), 1, {}) /\ 1 \in DOMAIN down /\ Head(down) = down[1]
      /\ DOMAIN down \subseteq Nat \ {0} /\ DOMAIN Tail(down) \subseteq Nat \ {0}
  BY SlidFirst DEF Said, Got
<1> QED BY <1>1, <1>2 DEF Moves

LEMMA GetAskMoves ==
  ASSUME Said, down # <<>>, Got, NEW c, Ask(<<c>>)
  PROVE  Moves(0, {c}, 1, {}) /\ 1 \in DOMAIN down /\ Head(down) = down[1]
<1>1. up' = Append(up, c) /\ Slid(up, Append(up, c), 0, {c})
      /\ DOMAIN up \subseteq Nat \ {0} /\ DOMAIN Append(up, c) \subseteq Nat \ {0}
  BY SlidLast DEF Said, Ask
<1>2. down' = Tail(down) /\ Slid(down, Tail(down), 1, {}) /\ 1 \in DOMAIN down /\ Head(down) = down[1]
      /\ DOMAIN down \subseteq Nat \ {0} /\ DOMAIN Tail(down) \subseteq Nat \ {0}
  BY SlidFirst DEF Said, Got
<1> QED BY <1>1, <1>2 DEF Moves

LEMMA ServeMoves ==
  ASSUME Said, up # <<>>, NEW a, Serve(a)
  PROVE  Moves(1, {}, 0, {a}) /\ 1 \in DOMAIN up /\ Head(up) = up[1]
<1>1. IsList(up) /\ IsList(down) /\ \A i \in DOMAIN down : "event" \notin DOMAIN down[i]
  BY DEF Said, AnswerSays
<1>2. /\ up' = Tail(up) /\ Slid(up, up', 1, {}) /\ Slid(down, down', 0, {a})
      /\ 1 \in DOMAIN up /\ Head(up) = up[1]
  BY <1>1, ServedInOrder
<1>3. DOMAIN up \subseteq Nat \ {0} /\ DOMAIN Tail(up) \subseteq Nat \ {0} /\ DOMAIN down \subseteq Nat \ {0}
  BY <1>1, SlidFirst, SlidSame
<1>4. IsList(down') /\ DOMAIN down' \subseteq Nat \ {0}
  <2>1. \A s : IsList(s) => DOMAIN s \subseteq Nat \ {0}
    BY SlidSame
  <2> QED BY <1>2, <2>1 DEF Slid
<1> QED BY <1>2, <1>3, <1>4 DEF Moves

(* Calls and answers that are not about files under way.                     *)
LEMMA Passes ==
  ASSUME AccountsInv, NEW d, NEW A, NEW e, NEW B, Moves(d, A, e, B), A = {} \/ B = {},
         UNCHANGED <<received, ended, avatar, size_u>>, clicks' \in {clicks, clicks + 1},
         \A m \in A : /\ CallSays(m) /\ CallFile(m) /\ ~ OpenCall(m)
                      /\ m.what = "password" => clicks' = clicks + 1,
         \A m \in B : AnswerSays(m) /\ AnswerFile(m) /\ ~ OpenAnswer(m),
         \/ password' = password
         \/ d = 1 /\ 1 \in DOMAIN up /\ up[1].what = "password" /\ password' = password + 1
  PROVE  Said' /\ PasswordsLeft' /\ FilesFilled' /\ FilesApart' /\ AvatarWhole'
<1>1. Said'
  BY SaidStays DEF AccountsInv
<1>2. password \in Nat /\ clicks \in Nat
  BY DEF AccountsInv, AccountsTypeOK, AccountsKnown
<1>3. PasswordsLeft'
  BY <1>2, NumbersStay DEF AccountsInv
<1>4. \A m : (CallFile(m) => CallFile(m)') /\ (AnswerFile(m) => AnswerFile(m)')
  BY DEF CallFile, AnswerFile, Filling, Whole, SentOf
<1>5. /\ \A m : (\E i \in DOMAIN up : i > d /\ up[i] = m) => CallFile(m)'
      /\ \A m : (\E i \in DOMAIN down : i > e /\ down[i] = m) => AnswerFile(m)'
      /\ \A m \in A : CallFile(m)'
      /\ \A m \in B : AnswerFile(m)'
  BY <1>4 DEF AccountsInv, FilesFilled
<1>6. FilesFilled'
  <2>1. FilesFilled
    BY DEF AccountsInv
  <2> QED BY <1>5, <2>1, FilesStay
<1>7. FilesApart'
  <2>1. FilesApart
    BY DEF AccountsInv
  <2> QED BY <2>1, ApartStays
<1>8. AvatarWhole'
  BY DEF AccountsInv, AvatarWhole
<1> QED BY <1>1, <1>3, <1>6, <1>7, <1>8

LEMMA NothingOffered ==
  ASSUME AccountsInv, NEW d, NEW A, NEW e, NEW B, Moves(d, A, e, B),
         UNCHANGED <<accounts, role, allRoles, allUsers, expelled>>,
         (d = 1 /\ 1 \in DOMAIN up) => up[1].what # "users",
         (e = 1 /\ 1 \in DOMAIN down) => down[1].what # "users" /\ ~ Reasks(down[1]),
         \A m \in B : m.what # "users"
  PROVE  OffersRanked' /\ ExpelledGo'
<1>1. OffersRanked /\ ExpelledGo
  BY DEF AccountsInv
<1>2. /\ \A n : Ranked(n) => Ranked(n)'
      /\ \A r \in allRoles' : Offered(r)
      /\ \A u \in allUsers' : u.allowed => Ranked(u.name)
      /\ \A m \in B : ListRanked(m)
  BY <1>1 DEF Ranked, Offered, OffersRanked, ListRanked
<1>3. OffersRanked'
  BY <1>1, <1>2, OffersStay
<1>4. expelled' \subseteq expelled /\ \A n \in expelled' : n \notin DOMAIN accounts'
  BY <1>1 DEF ExpelledGo
<1>5. ExpelledGo'
  BY <1>1, <1>4, ExpelledStay
<1> QED BY <1>3, <1>5

(* The page begins.                                                          *)
LEMMA MyAvatarStays ==
  ASSUME AccountsInv, MyAvatarArrives
  PROVE  AccountsInv'
<1> DEFINE c == [what |-> "users"]
<1>1. /\ down # <<>> /\ Got /\ Ask(<<c>>) /\ Head(down).what = "myavatar"
      /\ allRoles' = {r \in RoleIds : Offered(r)}
      /\ UNCHANGED <<accounts, password, store_a, me, role, allUsers, msgs_a, drop_a, clicks, expelled>>
  BY DEF MyAvatarArrives, Getting
<1>2. Moves(0, {c}, 1, {}) /\ 1 \in DOMAIN down /\ Head(down) = down[1]
  BY <1>1, GetAskMoves DEF AccountsInv
<1>3. UNCHANGED <<received, ended, avatar, size_u>>
  BY <1>1 DEF store_a
<1>4. CallSays(c) /\ CallFile(c) /\ ~ OpenCall(c) /\ c.what # "password" /\ c.what = "users"
  BY DEF CallSays, CallFile, OpenCall
<1> HIDE DEF c
<1>5. Said' /\ PasswordsLeft' /\ FilesFilled' /\ FilesApart' /\ AvatarWhole'
  BY <1>1, <1>2, <1>3, <1>4, Passes
<1>6. AccountsTypeOK' /\ AccountsKnown' /\ MessagesEnd'
  BY <1>1 DEF AccountsInv, AccountsTypeOK, AccountsKnown, MessagesEnd, store_a, msgs_a, drop_a
<1>7. OffersRanked'
  <2>1. OffersRanked
    BY DEF AccountsInv
  <2>2. /\ \A n : Ranked(n) => Ranked(n)'
        /\ \A r \in allRoles' : Offered(r)
        /\ \A u \in allUsers' : u.allowed => Ranked(u.name)
    BY <1>1, <2>1 DEF Ranked, Offered, OffersRanked
  <2>3. role' = role
    BY <1>1
  <2> QED BY <1>2, <2>1, <2>2, <2>3, OffersStay
<1>8. ExpelledGo'
  <2>1. \E i \in DOMAIN up' : up'[i].what = "users"
    BY <1>2, <1>4 DEF Moves, Slid
  <2> QED BY <1>1, <2>1 DEF AccountsInv, ExpelledGo, Goes, Administers
<1> QED BY <1>5, <1>6, <1>7, <1>8 DEF AccountsInv

(* Who there is, as the server said: those expelled are not in the last list. *)
LEMMA UsersStay ==
  ASSUME AccountsInv, UsersArrive
  PROVE  AccountsInv'
<1> DEFINE m == Head(down)
<1>1. /\ down # <<>> /\ Got /\ m.what = "users" /\ up' = up
      /\ allUsers' = IF m.ok THEN {[name |-> n, allowed |-> Offered(m.users[n])] : n \in DOMAIN m.users}
                     ELSE allUsers
      /\ UNCHANGED <<accounts, password, store_a, me, role, allRoles, msgs_a, drop_a, clicks, expelled>>
  BY DEF UsersArrive, Getting
<1>2. Moves(0, {}, 1, {}) /\ 1 \in DOMAIN down /\ m = down[1]
  BY <1>1, GetMoves DEF AccountsInv
<1>3. UNCHANGED <<received, ended, avatar, size_u>>
  BY <1>1 DEF store_a
<1>4. Said' /\ PasswordsLeft' /\ FilesFilled' /\ FilesApart' /\ AvatarWhole'
  BY <1>1, <1>2, <1>3, Passes
<1>5. AnswerSays(m) /\ ListRanked(m)
  BY <1>2 DEF AccountsInv, Said, OffersRanked
<1> HIDE DEF m
<1>6. allUsers' \subseteq [name : Names, allowed : BOOLEAN]
  <2>1. \A r : Offered(r) \in BOOLEAN
    BY DEF Offered
  <2>2. DOMAIN m.users \subseteq Names
    BY <1>1, <1>5 DEF AnswerSays
  <2>3. CASE m.ok
    <3> SUFFICES ASSUME NEW u \in allUsers' PROVE u \in [name : Names, allowed : BOOLEAN]
      OBVIOUS
    <3>1. PICK n \in DOMAIN m.users : u = [name |-> n, allowed |-> Offered(m.users[n])]
      BY <1>1, <2>3
    <3>2. PICK b \in BOOLEAN : b = Offered(m.users[n])
      BY <2>1
    <3>3. u = [name |-> n, allowed |-> b]
      BY <3>1, <3>2
    <3> QED BY <2>2, <3>3
  <2>4. CASE ~ m.ok
    BY <1>1, <2>4 DEF AccountsInv, AccountsTypeOK
  <2> QED BY <2>3, <2>4
<1>7. AccountsTypeOK' /\ AccountsKnown' /\ MessagesEnd'
  BY <1>1, <1>6 DEF AccountsInv, AccountsTypeOK, AccountsKnown, MessagesEnd, store_a, msgs_a, drop_a
<1>8. OffersRanked'
  <2>1. OffersRanked /\ role' = role
    BY <1>1 DEF AccountsInv
  <2>2. ASSUME NEW u \in allUsers', u.allowed PROVE Ranked(u.name)
    BY <1>1, <1>5, <2>1, <2>2 DEF OffersRanked, ListRanked
  <2>3. /\ \A n : Ranked(n) => Ranked(n)'
        /\ \A r \in allRoles' : Offered(r)
    BY <1>1, <2>1 DEF Ranked, Offered, OffersRanked
  <2> QED BY <1>2, <2>1, <2>2, <2>3, OffersStay
<1>9. ASSUME NEW n \in expelled PROVE Goes(n)'
  <2>1. Goes(n)
    BY <1>9 DEF AccountsInv, ExpelledGo
  <2>2. \A i \in DOMAIN down : i = 1 \/ \E j \in DOMAIN down' : i = j + 1 /\ down'[j] = down[i]
    BY <1>2 DEF Moves, Slid
  <2>3. \A j \in DOMAIN down' : j + 1 \in DOMAIN down /\ down'[j] = down[j + 1] /\ j \in Nat \ {0}
    BY <1>2 DEF Moves, Slid
  <2>4. CASE \E i \in DOMAIN up : up[i].what = "users"
    BY <1>1, <2>4 DEF Goes
  <2>5. CASE \E i \in DOMAIN down : Reasks(down[i])
    <3>1. \E j \in DOMAIN down' : Reasks(down'[j])
      BY <1>1, <1>2, <2>2, <2>5 DEF Reasks
    <3> QED BY <3>1 DEF Goes, Reasks
  <2>6. CASE \E i \in DOMAIN down : Lacks(down[i], n) /\ \A j \in DOMAIN down : j > i => down[j].what # "users"
    <3>1. PICK i \in DOMAIN down : Lacks(down[i], n) /\ \A j \in DOMAIN down : j > i => down[j].what # "users"
      BY <2>6
    <3>2. CASE i = 1
      <4>1. \A j \in DOMAIN down' : down'[j].what # "users"
        <5> SUFFICES ASSUME NEW j \in DOMAIN down' PROVE down'[j].what # "users"
          OBVIOUS
        <5>1. j + 1 > 1
          BY <2>3
        <5> QED BY <2>3, <3>1, <3>2, <5>1
      <4>2. \A u \in allUsers' : u.name # n
        BY <1>1, <1>2, <3>1, <3>2 DEF Lacks
      <4> QED BY <4>1, <4>2 DEF Goes
    <3>3. CASE i # 1
      <4>1. PICK k \in DOMAIN down' : i = k + 1 /\ down'[k] = down[i]
        BY <2>2, <3>3
      <4>2. \A j \in DOMAIN down' : j > k => down'[j].what # "users"
        <5> SUFFICES ASSUME NEW j \in DOMAIN down', j > k PROVE down'[j].what # "users"
          OBVIOUS
        <5>1. j + 1 > i
          BY <2>3, <4>1
        <5> QED BY <2>3, <3>1, <5>1
      <4>3. Lacks(down'[k], n)
        BY <3>1, <4>1
      <4> QED BY <4>2, <4>3 DEF Goes, Lacks
    <3> QED BY <3>2, <3>3
  <2>7. ~ \A i \in DOMAIN down : down[i].what # "users"
    BY <1>1, <1>2
  <2> QED BY <2>1, <2>4, <2>5, <2>6, <2>7 DEF Goes
<1>10. ExpelledGo'
  BY <1>1, <1>9 DEF AccountsInv, ExpelledGo, Administers
<1> QED BY <1>4, <1>7, <1>8, <1>10 DEF AccountsInv

(* The messages that are shown, their timers, and the files dropped.         *)
MessagesOK == {changeFailed, changeOK} \subseteq BOOLEAN /\ msgTimers \in Seq(BOOLEAN) /\ MessagesEnd
DropOK == {uploading, avatarPopup} \subseteq BOOLEAN /\ dropped \in Seq(FileSizes) /\ Len(dropped) <= Limit

LEMMA SaysStays ==
  ASSUME MessagesOK, NEW ok \in BOOLEAN, Says(ok)
  PROVE  MessagesOK'
<1> DEFINE s == msgTimers
           t == Append(s, ok)
<1>1. /\ changeOK' = (changeOK \/ ok) /\ changeFailed' = (changeFailed \/ ~ ok) /\ msgTimers' = t
      /\ s \in Seq(BOOLEAN)
  BY DEF Says, MessagesOK
<1>2. /\ t \in Seq(BOOLEAN) /\ DOMAIN s = 1 .. Len(s) /\ DOMAIN t = 1 .. Len(s) + 1
      /\ (\A i \in 1 .. Len(s) : t[i] = s[i]) /\ t[Len(s) + 1] = ok /\ Len(s) \in Nat
  BY <1>1
<1>3. Len(s) + 1 \in DOMAIN t /\ \A i \in DOMAIN s : i \in DOMAIN t /\ t[i] = s[i]
  BY <1>2
<1>4. (changeOK => TRUE \in Range(s)) /\ (changeFailed => FALSE \in Range(s))
  BY DEF MessagesOK, MessagesEnd
<1> HIDE DEF s, t
<1>5. ok \in Range(t) /\ \A b : b \in Range(s) => b \in Range(t)
  BY <1>2, <1>3 DEF Range
<1>6. MessagesEnd'
  <2>1. changeOK' => TRUE \in Range(t)
    BY <1>1, <1>4, <1>5
  <2>2. changeFailed' => FALSE \in Range(t)
    BY <1>1, <1>4, <1>5
  <2> QED BY <1>1, <2>1, <2>2 DEF MessagesEnd
<1>7. {changeFailed', changeOK'} \subseteq BOOLEAN
  BY <1>1 DEF MessagesOK
<1> QED BY <1>1, <1>2, <1>6, <1>7 DEF MessagesOK

LEMMA TimerStays ==
  ASSUME MessagesOK, MessageTimer
  PROVE  MessagesOK'
<1> DEFINE s == msgTimers
           t == Tail(s)
<1>1. s \in Seq(BOOLEAN) /\ s # <<>> /\ msgTimers' = t
  BY DEF MessagesOK, MessageTimer
<1>2. /\ t \in Seq(BOOLEAN) /\ Len(s) \in Nat \ {0} /\ DOMAIN s = 1 .. Len(s) /\ DOMAIN t = 1 .. Len(s) - 1
      /\ (\A i \in 1 .. Len(s) - 1 : t[i] = s[i + 1]) /\ Head(s) = s[1]
  <2>1. t \in Seq(BOOLEAN)
    BY <1>1, HeadTailProperties
  <2>2. IsList(s)
    BY <1>1, ListedIs
  <2> QED BY <1>1, <2>1, <2>2, FirstGone
<1>3. Head(s) \in BOOLEAN
  BY <1>1, HeadTailProperties
<1>4. (changeOK => TRUE \in Range(s)) /\ (changeFailed => FALSE \in Range(s))
  BY DEF MessagesOK, MessagesEnd
<1>5. IF Head(s) THEN changeOK' = FALSE /\ UNCHANGED changeFailed
      ELSE changeFailed' = FALSE /\ UNCHANGED changeOK
  BY DEF MessageTimer
<1> HIDE DEF s, t
<1>6. \A b : (b \in Range(s) /\ b # Head(s)) => b \in Range(t)
  <2> SUFFICES ASSUME NEW i \in DOMAIN s, s[i] # Head(s) PROVE s[i] \in Range(t)
    BY DEF Range
  <2>1. i \in 1 .. Len(s) /\ i # 1 /\ Len(s) \in Nat
    BY <1>2
  <2>2. i - 1 \in 1 .. Len(s) - 1 /\ (i - 1) + 1 = i
    BY <2>1
  <2>3. i - 1 \in DOMAIN t /\ t[i - 1] = s[i]
    BY <1>2, <2>2
  <2> QED BY <2>3 DEF Range
<1>7. MessagesEnd'
  <2>1. CASE Head(s) = TRUE
    <3>1. changeOK' = FALSE /\ changeFailed' = changeFailed
      BY <1>5, <2>1
    <3>2. changeFailed => FALSE \in Range(t)
      BY <1>4, <1>6, <2>1
    <3> QED BY <1>1, <3>1, <3>2 DEF MessagesEnd
  <2>2. CASE Head(s) = FALSE
    <3>1. changeFailed' = FALSE /\ changeOK' = changeOK
      BY <1>5, <2>2
    <3>2. changeOK => TRUE \in Range(t)
      BY <1>4, <1>6, <2>2
    <3> QED BY <1>1, <3>1, <3>2 DEF MessagesEnd
  <2> QED BY <1>3, <2>1, <2>2
<1>8. {changeFailed', changeOK'} \subseteq BOOLEAN
  BY <1>3, <1>5 DEF MessagesOK
<1> QED BY <1>1, <1>2, <1>7, <1>8 DEF MessagesOK

(* What a click, an answer or a timer leaves that changes messages or the     *)
(* files dropped only.                                                       *)
LEMMA PageStays ==
  ASSUME AccountsInv, NEW d, NEW A, NEW e, NEW B, Moves(d, A, e, B), B = {}, d = 0,
         UNCHANGED <<accounts, password, store_a, me, role, form_a, expelled>>,
         clicks' \in {clicks, clicks + 1}, clicks' <= MaxClicks,
         \A m \in A : /\ CallSays(m) /\ CallFile(m) /\ ~ OpenCall(m)
                      /\ m.what = "password" => clicks' = clicks + 1,
         (e = 1 /\ 1 \in DOMAIN down) => down[1].what # "users" /\ ~ Reasks(down[1]),
         MessagesOK', DropOK'
  PROVE  AccountsInv'
<1>1. /\ UNCHANGED <<received, ended, avatar, size_u, allRoles, allUsers>>
      /\ UNCHANGED <<accounts, password, me, role, expelled>>
  BY DEF store_a, form_a
<1>2. Said' /\ PasswordsLeft' /\ FilesFilled' /\ FilesApart' /\ AvatarWhole'
  <2> DEFINE passed == \/ password' = password
                       \/ d = 1 /\ 1 \in DOMAIN up /\ up[1].what = "password" /\ password' = password + 1
  <2>1. passed
    BY <1>1
  <2> QED BY <1>1, <2>1, Passes
<1>3. OffersRanked' /\ ExpelledGo'
  BY <1>1, NothingOffered
<1>4. AccountsTypeOK'
  BY <1>1 DEF AccountsInv, AccountsTypeOK, MessagesOK, DropOK
<1>5. AccountsKnown'
  <2>1. clicks' \in 0 .. MaxClicks
    BY AccountsAssumption DEF AccountsInv, AccountsKnown
  <2> QED BY <1>1, <2>1 DEF AccountsInv, AccountsKnown
<1> QED BY <1>2, <1>3, <1>4, <1>5 DEF AccountsInv, MessagesOK

LEMMA MessageTimerStays ==
  ASSUME AccountsInv, MessageTimer
  PROVE  AccountsInv'
<1>1. /\ UNCHANGED <<calls, accounts, password, store_a, me, role, form_a, expelled>>
      /\ clicks' = clicks /\ UNCHANGED drop_a
  BY DEF MessageTimer
<1>2. Moves(0, {}, 0, {})
  BY <1>1, StaysStill DEF AccountsInv
<1>3. MessagesOK
  BY DEF AccountsInv, AccountsTypeOK, MessagesOK
<1>4. MessagesOK'
  BY <1>3, TimerStays
<1>5. DropOK'
  BY <1>1 DEF AccountsInv, AccountsTypeOK, DropOK, drop_a
<1>6. clicks' \in {clicks, clicks + 1} /\ clicks' <= MaxClicks
  BY <1>1, AccountsAssumption DEF AccountsInv, AccountsKnown
<1> QED BY <1>1, <1>2, <1>4, <1>5, <1>6, PageStays

LEMMA OneDroppedLess ==
  ASSUME NEW D, NEW s \in Seq(D), NEW k \in DOMAIN s
  PROVE  LET t == SubSeq(s, 1, k - 1) \o SubSeq(s, k + 1, Len(s))
         IN t \in Seq(D) /\ Len(t) <= Len(s)
<1> DEFINE l == Len(s)
           a == SubSeq(s, 1, k - 1)
           b == SubSeq(s, k + 1, l)
<1>1. l \in Nat /\ k \in 1 .. l /\ \A i \in 1 .. l : s[i] \in D
  BY LenProperties, ElementOfSeq
<1> HIDE DEF l
<1>2. k - 1 \in Int /\ k + 1 \in Int /\ 1 \in Int /\ l \in Int
  BY <1>1
<1>3. (\A i \in 1 .. k - 1 : s[i] \in D) /\ (\A i \in k + 1 .. l : s[i] \in D)
  BY <1>1
<1>4. a \in Seq(D) /\ Len(a) = IF 1 <= k - 1 THEN (k - 1) - 1 + 1 ELSE 0
  BY <1>2, <1>3, SubSeqProperties
<1>5. b \in Seq(D) /\ Len(b) = IF k + 1 <= l THEN l - (k + 1) + 1 ELSE 0
  BY <1>2, <1>3, SubSeqProperties
<1> HIDE DEF a, b
<1>6. a \o b \in Seq(D) /\ Len(a \o b) = Len(a) + Len(b)
  BY <1>4, <1>5, ConcatProperties
<1>7. Len(a) + Len(b) <= l
  BY <1>1, <1>4, <1>5
<1> QED BY <1>6, <1>7 DEF a, b, l

(* The user's clicks that ask for something, and those that do not.           *)
LEMMA AskingStays ==
  ASSUME AccountsInv, Click, NEW c, Ask(<<c>>), down' = down,
         UNCHANGED <<accounts, password, store_a, me, role, form_a, expelled>>,
         CallSays(c), CallFile(c), ~ OpenCall(c), MessagesOK', DropOK'
  PROVE  AccountsInv'
<1>1. Moves(0, {c}, 0, {})
  BY AskMoves DEF AccountsInv
<1>2. clicks' \in {clicks, clicks + 1} /\ clicks' <= MaxClicks /\ clicks' = clicks + 1
  BY AccountsAssumption DEF Click, AccountsInv, AccountsKnown
<1>3. \A m \in {c} : /\ CallSays(m) /\ CallFile(m) /\ ~ OpenCall(m)
                     /\ m.what = "password" => clicks' = clicks + 1
  BY <1>2
<1> QED BY <1>1, <1>2, <1>3, PageStays

LEMMA ClickingStays ==
  ASSUME AccountsInv, Click, UNCHANGED calls,
         UNCHANGED <<accounts, password, store_a, me, role, form_a, expelled>>,
         MessagesOK', DropOK'
  PROVE  AccountsInv'
<1>1. Moves(0, {}, 0, {})
  BY StaysStill DEF AccountsInv
<1>2. clicks' \in {clicks, clicks + 1} /\ clicks' <= MaxClicks
  BY AccountsAssumption DEF Click, AccountsInv, AccountsKnown
<1> QED BY <1>1, <1>2, PageStays

LEMMA MessagesSame ==
  ASSUME AccountsInv, UNCHANGED msgs_a
  PROVE  MessagesOK'
BY DEF AccountsInv, AccountsTypeOK, MessagesOK, MessagesEnd, msgs_a

LEMMA MessagesSaid ==
  ASSUME AccountsInv, NEW ok \in BOOLEAN, Says(ok)
  PROVE  MessagesOK'
<1>1. MessagesOK
  BY DEF AccountsInv, AccountsTypeOK, MessagesOK
<1> QED BY <1>1, SaysStays

LEMMA DropSame ==
  ASSUME AccountsInv, UNCHANGED drop_a
  PROVE  DropOK'
BY DEF AccountsInv, AccountsTypeOK, DropOK, drop_a

LEMMA FormsStay ==
  ASSUME AccountsInv, NEW old, NEW same, NEW name \in Names, NEW r \in RoleIds,
         \/ ChangePassword(old, same) \/ CreateNewUser(name, r, same)
         \/ DeleteUser(name) \/ DeleteOwnAccount
  PROVE  AccountsInv'
<1>1. /\ Click /\ down' = down /\ UNCHANGED drop_a
      /\ UNCHANGED <<accounts, password, store_a, me, role, form_a, expelled>>
  BY DEF ChangePassword, CreateNewUser, DeleteUser, DeleteOwnAccount
<1>2. DropOK'
  BY <1>1, DropSame
<1>3. \/ Says(FALSE) /\ UNCHANGED up
      \/ \E c : /\ c \in {[what |-> "password", old |-> old],
                          [what |-> "create", name |-> name, role |-> r],
                          [what |-> "remove", name |-> name, form |-> TRUE],
                          [what |-> "remove", name |-> me, form |-> FALSE]}
                /\ Ask(<<c>>) /\ UNCHANGED msgs_a
  <2>1. CASE ChangePassword(old, same)
    BY <2>1 DEF ChangePassword
  <2>2. CASE CreateNewUser(name, r, same)
    BY <2>2 DEF CreateNewUser
  <2>3. CASE DeleteUser(name)
    BY <2>3 DEF DeleteUser
  <2>4. CASE DeleteOwnAccount
    BY <2>4 DEF DeleteOwnAccount
  <2> QED BY <2>1, <2>2, <2>3, <2>4
<1>4. CASE Says(FALSE) /\ UNCHANGED up
  <2>1. UNCHANGED calls
    BY <1>1, <1>4 DEF calls
  <2>2. MessagesOK'
    BY <1>4, MessagesSaid
  <2> QED BY <1>1, <1>2, <2>1, <2>2, ClickingStays
<1>5. ASSUME NEW c, Ask(<<c>>), UNCHANGED msgs_a,
             c \in {[what |-> "password", old |-> old],
                    [what |-> "create", name |-> name, role |-> r],
                    [what |-> "remove", name |-> name, form |-> TRUE],
                    [what |-> "remove", name |-> me, form |-> FALSE]}
      PROVE  AccountsInv'
  <2>1. CallSays(c) /\ CallFile(c) /\ ~ OpenCall(c)
    <3>1. me \in Names
      BY DEF AccountsInv, AccountsKnown
    <3>2. CASE c = [what |-> "password", old |-> old]
      BY <3>2 DEF CallSays, CallFile, OpenCall
    <3>3. CASE c = [what |-> "create", name |-> name, role |-> r]
      BY <3>3 DEF CallSays, CallFile, OpenCall
    <3>4. CASE c = [what |-> "remove", name |-> name, form |-> TRUE]
      BY <3>4 DEF CallSays, CallFile, OpenCall
    <3>5. CASE c = [what |-> "remove", name |-> me, form |-> FALSE]
      BY <3>1, <3>5 DEF CallSays, CallFile, OpenCall
    <3> QED BY <1>5, <3>2, <3>3, <3>4, <3>5
  <2>2. MessagesOK'
    BY <1>5, MessagesSame
  <2> QED BY <1>1, <1>2, <1>5, <2>1, <2>2, AskingStays
<1> QED BY <1>3, <1>4, <1>5

LEMMA DropsStay ==
  ASSUME AccountsInv, NEW size, NEW k,
         ShowAvatarPopup \/ (size \in FileSizes /\ OnDrop(size)) \/ RemoveDropped(k)
  PROVE  AccountsInv'
<1>1. /\ Click /\ UNCHANGED calls /\ UNCHANGED msgs_a
      /\ UNCHANGED <<accounts, password, store_a, me, role, form_a, expelled>>
  BY DEF ShowAvatarPopup, OnDrop, RemoveDropped
<1>2. DropOK /\ Limit \in Nat
  BY AccountsAssumption DEF AccountsInv, AccountsTypeOK, DropOK
<1>3. DropOK'
  <2>1. CASE ShowAvatarPopup
    <3>1. dropped' \in Seq(FileSizes) /\ Len(dropped') = 0 /\ avatarPopup' = TRUE /\ uploading' = FALSE
      BY <2>1 DEF ShowAvatarPopup
    <3>2. Len(dropped') <= Limit
      BY <1>2, <3>1
    <3>3. {uploading', avatarPopup'} \subseteq BOOLEAN
      BY <3>1
    <3> QED BY <3>1, <3>2, <3>3 DEF DropOK
  <2>2. CASE size \in FileSizes /\ OnDrop(size)
    <3>1. dropped' = Append(dropped, size) /\ Len(dropped) < Limit /\ UNCHANGED <<uploading, avatarPopup>>
      BY <2>2 DEF OnDrop
    <3>2. Append(dropped, size) \in Seq(FileSizes) /\ Len(Append(dropped, size)) <= Limit
      BY <1>2, <2>2, <3>1, AppendProperties DEF DropOK
    <3> QED BY <1>2, <3>1, <3>2 DEF DropOK
  <2>3. CASE RemoveDropped(k)
    <3>1. /\ k \in DOMAIN dropped /\ UNCHANGED <<uploading, avatarPopup>>
          /\ dropped' = SubSeq(dropped, 1, k - 1) \o SubSeq(dropped, k + 1, Len(dropped))
      BY <2>3 DEF RemoveDropped
    <3>2. dropped' \in Seq(FileSizes) /\ Len(dropped') <= Len(dropped)
      BY <1>2, <3>1, OneDroppedLess DEF DropOK
    <3>3. Len(dropped) \in Nat /\ Len(dropped') \in Nat
      BY <1>2, <3>2, LenProperties DEF DropOK
    <3> QED BY <1>2, <3>1, <3>2, <3>3 DEF DropOK
  <2> QED BY <2>1, <2>2, <2>3
<1>4. MessagesOK'
  BY <1>1, MessagesSame
<1> QED BY <1>1, <1>3, <1>4, ClickingStays

LEMMA UploadStays ==
  ASSUME AccountsInv, UploadFiles
  PROVE  AccountsInv'
<1> DEFINE c == [what |-> "loop", step |-> "start", todo |-> dropped, h |-> 0, i |-> 0, first |-> 0]
<1>1. /\ Click /\ Ask(<<c>>) /\ down' = down /\ UNCHANGED msgs_a /\ dropped # <<>>
      /\ uploading' = TRUE /\ UNCHANGED <<dropped, avatarPopup>>
      /\ UNCHANGED <<accounts, password, store_a, me, role, form_a, expelled>>
  BY DEF UploadFiles
<1>2. DropOK
  BY DEF AccountsInv, AccountsTypeOK, DropOK
<1>3. DropOK'
  BY <1>1, <1>2 DEF DropOK
<1>4. MessagesOK'
  BY <1>1, MessagesSame
<1>5. CallSays(c) /\ CallFile(c) /\ ~ OpenCall(c)
  <2>1. c \in Loops
    BY <1>2 DEF Loops, DropOK
  <2> QED BY <1>1, <2>1 DEF CallSays, CallFile, OpenCall
<1> HIDE DEF c
<1> QED BY <1>1, <1>3, <1>4, <1>5, AskingStays

(* What is answered to a form, and the list that is fetched again.           *)
LEMMA AccountAnswerStays ==
  ASSUME AccountsInv, AccountAnswer
  PROVE  AccountsInv'
<1> DEFINE m == Head(down)
<1>1. /\ down # <<>> /\ m.what \in {"password", "create", "remove"} /\ Got
      /\ IF m.what = "remove" /\ ~ m.form THEN UNCHANGED msgs_a ELSE Says(m.ok)
      /\ IF m.what = "remove" /\ m.form /\ m.ok THEN SetupUsersAgain ELSE up' = up
      /\ UNCHANGED <<accounts, password, store_a, me, role, form_a, drop_a, clicks, expelled>>
  BY DEF AccountAnswer
<1>2. 1 \in DOMAIN down /\ m = down[1]
  <2>1. IsList(down)
    BY DEF AccountsInv, Said
  <2> QED BY <1>1, <2>1, FirstGone
<1>3. m.ok \in BOOLEAN
  BY <1>1, <1>2 DEF AccountsInv, Said, AnswerSays
<1> HIDE DEF m
<1>4. MessagesOK'
  BY <1>1, <1>3, MessagesSame, MessagesSaid
<1>5. DropOK'
  BY <1>1, DropSame
<1>6. clicks' \in {clicks, clicks + 1} /\ clicks' <= MaxClicks
  BY <1>1, AccountsAssumption DEF AccountsInv, AccountsKnown
<1>7. CASE ~ (m.what = "remove" /\ m.form /\ m.ok)
  <2>1. up' = up
    BY <1>1, <1>7
  <2>2. Moves(0, {}, 1, {})
    BY <1>1, <2>1, GetMoves DEF AccountsInv
  <2>3. down[1].what # "users" /\ ~ Reasks(down[1])
    BY <1>1, <1>2, <1>7 DEF Reasks
  <2> QED BY <1>1, <1>4, <1>5, <1>6, <2>2, <2>3, PageStays
<1>8. CASE m.what = "remove" /\ m.form /\ m.ok
  <2> DEFINE c == [what |-> "users"]
  <2>1. Ask(<<c>>)
    BY <1>1, <1>8 DEF SetupUsersAgain
  <2>2. Moves(0, {c}, 1, {})
    BY <1>1, <2>1, GetAskMoves DEF AccountsInv
  <2>3. CallSays(c) /\ CallFile(c) /\ ~ OpenCall(c) /\ c.what # "password" /\ c.what = "users"
    BY DEF CallSays, CallFile, OpenCall
  <2> HIDE DEF c
  <2>4. UNCHANGED <<received, ended, avatar, size_u>> /\ UNCHANGED <<password, accounts, role, expelled>>
        /\ UNCHANGED <<allRoles, allUsers>>
    BY <1>1 DEF store_a, form_a
  <2>5. Said' /\ PasswordsLeft' /\ FilesFilled' /\ FilesApart' /\ AvatarWhole'
    BY <1>6, <2>2, <2>3, <2>4, Passes
  <2>6. AccountsTypeOK' /\ AccountsKnown'
    BY <1>1, <1>4, <1>5, <2>4 DEF AccountsInv, AccountsTypeOK, AccountsKnown, MessagesOK, DropOK
  <2>7. OffersRanked'
    <3>1. OffersRanked
      BY DEF AccountsInv
    <3>2. /\ \A n : Ranked(n) => Ranked(n)'
          /\ \A r \in allRoles' : Offered(r)
          /\ \A u \in allUsers' : u.allowed => Ranked(u.name)
      BY <2>4, <3>1 DEF Ranked, Offered, OffersRanked
    <3> QED BY <2>2, <2>4, <3>1, <3>2, OffersStay
  <2>8. ExpelledGo'
    <3>1. \E i \in DOMAIN up' : up'[i].what = "users"
      BY <2>2, <2>3 DEF Moves, Slid
    <3> QED BY <2>4, <3>1 DEF AccountsInv, ExpelledGo, Goes, Administers
  <2> QED BY <1>4, <2>5, <2>6, <2>7, <2>8 DEF AccountsInv, MessagesOK
<1> QED BY <1>7, <1>8

LEMMA SetAvatarAnswerStays ==
  ASSUME AccountsInv, SetAvatarArrives
  PROVE  AccountsInv'
<1>1. /\ down # <<>> /\ Head(down).what = "setavatar" /\ Got /\ up' = up /\ avatarPopup' = FALSE
      /\ UNCHANGED <<accounts, password, store_a, me, role, form_a, msgs_a, dropped, uploading,
                     clicks, expelled>>
  BY DEF SetAvatarArrives, Getting
<1>2. Moves(0, {}, 1, {}) /\ 1 \in DOMAIN down /\ Head(down) = down[1]
  BY <1>1, GetMoves DEF AccountsInv
<1>3. down[1].what # "users" /\ ~ Reasks(down[1])
  BY <1>1, <1>2 DEF Reasks
<1>4. MessagesOK'
  BY <1>1, MessagesSame
<1>5. DropOK'
  BY <1>1 DEF AccountsInv, AccountsTypeOK, DropOK
<1>6. clicks' \in {clicks, clicks + 1} /\ clicks' <= MaxClicks
  BY <1>1, AccountsAssumption DEF AccountsInv, AccountsKnown
<1> QED BY <1>1, <1>2, <1>3, <1>4, <1>5, <1>6, PageStays

(* What an answer of the server leaves that is not about a file.             *)
LEMMA AnswerStays ==
  ASSUME AccountsInv, up # <<>>, NEW a, Serve(a), AnswerSays(a), AnswerFile(a), ~ OpenAnswer(a),
         UNCHANGED <<store_a, me, role, form_a, msgs_a, drop_a, clicks>>,
         \/ password' = password
         \/ Head(up).what = "password" /\ password' = password + 1,
         DOMAIN accounts' \subseteq Names, \A n \in DOMAIN accounts' : accounts'[n] \in RoleIds,
         expelled' \subseteq Names
  PROVE  /\ Moves(1, {}, 0, {a}) /\ 1 \in DOMAIN up /\ Head(up) = up[1]
         /\ AccountsTypeOK' /\ AccountsKnown' /\ Said' /\ PasswordsLeft' /\ MessagesEnd'
         /\ FilesFilled' /\ FilesApart' /\ AvatarWhole'
<1>1. Moves(1, {}, 0, {a}) /\ 1 \in DOMAIN up /\ Head(up) = up[1]
  BY ServeMoves DEF AccountsInv
<1>2. /\ UNCHANGED <<received, ended, avatar, size_u, me, role, allRoles, allUsers, clicks>>
      /\ UNCHANGED <<changeFailed, changeOK, msgTimers, dropped, uploading, avatarPopup>>
  BY DEF store_a, form_a, msgs_a, drop_a
<1>3. Said' /\ PasswordsLeft' /\ FilesFilled' /\ FilesApart' /\ AvatarWhole'
  <2>1. clicks' \in {clicks, clicks + 1}
    BY <1>2
  <2>2. \A m \in {a} : AnswerSays(m) /\ AnswerFile(m) /\ ~ OpenAnswer(m)
    OBVIOUS
  <2>3. \/ password' = password
        \/ 1 = 1 /\ 1 \in DOMAIN up /\ up[1].what = "password" /\ password' = password + 1
    BY <1>1
  <2> QED BY <1>1, <1>2, <2>1, <2>2, <2>3, Passes
<1>4. AccountsKnown'
  BY <1>2 DEF AccountsInv, AccountsKnown
<1>5. password' \in 0 .. MaxClicks
  <2>1. password' <= clicks
    BY <1>2, <1>3 DEF PasswordsLeft
  <2>2. clicks \in 0 .. MaxClicks /\ password \in Nat /\ MaxClicks \in Nat
    BY AccountsAssumption DEF AccountsInv, AccountsTypeOK, AccountsKnown
  <2>3. password' = password \/ password' = password + 1
    OBVIOUS
  <2> QED BY <2>1, <2>2, <2>3
<1>6. AccountsTypeOK' /\ MessagesEnd'
  BY <1>2, <1>5 DEF AccountsInv, AccountsTypeOK, MessagesEnd
<1> QED BY <1>1, <1>3, <1>4, <1>6

LEMMA ServeAccountsStays ==
  ASSUME AccountsInv, ServeAccounts
  PROVE  AccountsInv'
<1> DEFINE m == Head(up)
<1>1. AccountsTypeOK /\ Said /\ OffersRanked /\ ExpelledGo
  BY DEF AccountsInv
<1>2. /\ DOMAIN accounts \subseteq Names /\ \A n \in DOMAIN accounts : accounts[n] \in RoleIds
      /\ expelled \subseteq Names
  BY <1>1 DEF AccountsTypeOK
<1>3. ASSUME Serving("myavatar"), Serve(m), UNCHANGED vars_a
      PROVE  AccountsInv'
  <2>1. up # <<>> /\ m.what = "myavatar"
    BY <1>3 DEF Serving
  <2>2. AnswerSays(m) /\ AnswerFile(m) /\ ~ OpenAnswer(m)
    <3>1. 1 \in DOMAIN up /\ m = up[1]
      BY <2>1, <1>1, FirstGone DEF Said
    <3> QED BY <1>1, <2>1, <3>1 DEF Said, CallSays, AnswerSays, AnswerFile, OpenAnswer
  <2>3. UNCHANGED <<accounts, password, store_a, me, role, form_a, msgs_a, drop_a, clicks, expelled>>
    BY <1>3 DEF vars_a
  <2> HIDE DEF m
  <2>4. /\ Moves(1, {}, 0, {m}) /\ 1 \in DOMAIN up /\ Head(up) = up[1]
        /\ AccountsTypeOK' /\ AccountsKnown' /\ Said' /\ PasswordsLeft' /\ MessagesEnd'
        /\ FilesFilled' /\ FilesApart' /\ AvatarWhole'
    BY <1>2, <1>3, <2>1, <2>2, <2>3, AnswerStays
  <2>5. OffersRanked' /\ ExpelledGo'
    <3>1. UNCHANGED <<accounts, role, allRoles, allUsers, expelled>>
      BY <2>3 DEF form_a
    <3>2. up[1].what # "users" /\ \A x \in {m} : x.what # "users"
      BY <2>1, <2>4 DEF m
    <3> QED BY <2>4, <3>1, <3>2, NothingOffered
  <2> QED BY <2>4, <2>5 DEF AccountsInv
<1>4. ASSUME Serving("users"), UNCHANGED vars_a,
             Serve([what |-> "users", users |-> accounts, ok |-> Administers(role)])
      PROVE  AccountsInv'
  <2> DEFINE a == [what |-> "users", users |-> accounts, ok |-> Administers(role)]
  <2>1. up # <<>> /\ m.what = "users"
    BY <1>4 DEF Serving
  <2>2. a.what = "users" /\ a.users = accounts /\ (a.ok <=> Administers(role)) /\ a.ok \in BOOLEAN
        /\ "event" \notin DOMAIN a
    <3>0. Administers(role) \in BOOLEAN
      BY DEF Administers
    <3>1. PICK b \in BOOLEAN : b = Administers(role)
      BY <3>0
    <3>2. a = [what |-> "users", users |-> accounts, ok |-> b]
      BY <3>1
    <3> HIDE DEF a
    <3> QED BY <3>1, <3>2
  <2>3. Serve(a) /\ UNCHANGED <<accounts, password, store_a, me, role, form_a, msgs_a, drop_a, clicks, expelled>>
    BY <1>4 DEF vars_a
  <2> HIDE DEF a, m
  <2>4. AnswerSays(a) /\ AnswerFile(a) /\ ~ OpenAnswer(a)
    BY <1>2, <2>2 DEF AnswerSays, AnswerFile, OpenAnswer
  <2>5. /\ Moves(1, {}, 0, {a})
        /\ AccountsTypeOK' /\ AccountsKnown' /\ Said' /\ PasswordsLeft' /\ MessagesEnd'
        /\ FilesFilled' /\ FilesApart' /\ AvatarWhole'
    BY <1>2, <2>1, <2>3, <2>4, AnswerStays
  <2>6. allRoles' = allRoles /\ allUsers' = allUsers
    BY <2>3 DEF form_a
  <2>7. OffersRanked'
    <3>1. /\ \A n : Ranked(n) => Ranked(n)'
          /\ \A r \in allRoles' : Offered(r)
          /\ \A u \in allUsers' : u.allowed => Ranked(u.name)
          /\ \A x \in {a} : ListRanked(x)
      BY <1>1, <2>2, <2>3, <2>6 DEF Ranked, Offered, OffersRanked, ListRanked
    <3>2. role' = role
      BY <2>3
    <3> QED BY <1>1, <2>5, <3>1, <3>2, OffersStay
  <2>8. PICK i \in DOMAIN down' : down'[i] = a /\ \A j \in DOMAIN down' : ~ (j > i)
    BY <2>5 DEF Moves, Slid
  <2>9. ASSUME NEW n \in expelled' PROVE n \notin DOMAIN accounts' /\ Administers(role)' /\ Goes(n)'
    <3>1. n \notin DOMAIN accounts /\ Administers(role) /\ Administers(role)'
      BY <1>1, <2>3, <2>9 DEF ExpelledGo, Administers
    <3>2. Lacks(down'[i], n)
      BY <2>2, <2>8, <3>1 DEF Lacks
    <3>3. \A j \in DOMAIN down' : j > i => down'[j].what # "users"
      BY <2>8
    <3> QED BY <2>3, <3>1, <3>2, <3>3 DEF Goes, Lacks
  <2>10. ExpelledGo'
    BY <2>9 DEF ExpelledGo, Administers
  <2> QED BY <2>5, <2>7, <2>10 DEF AccountsInv
<1>5. ASSUME Serving("password"), NEW ok, ok = (Mine /\ m.old = password),
             Serve([what |-> "password", ok |-> ok]),
             password' = IF ok THEN password + 1 ELSE password,
             UNCHANGED <<accounts, store_a, me, role, form_a, msgs_a, drop_a, clicks, expelled>>
      PROVE  AccountsInv'
  <2> DEFINE a == [what |-> "password", ok |-> ok]
  <2>1. up # <<>> /\ m.what = "password"
    BY <1>5 DEF Serving
  <2>2. ok \in BOOLEAN
    BY <1>5
  <2> HIDE DEF m
  <2>3. AnswerSays(a) /\ AnswerFile(a) /\ ~ OpenAnswer(a) /\ a.what = "password"
    BY <2>2 DEF AnswerSays, AnswerFile, OpenAnswer
  <2>4. Serve(a)
    BY <1>5
  <2> HIDE DEF a
  <2>5. password' = password \/ (Head(up).what = "password" /\ password' = password + 1)
    BY <1>5, <2>1 DEF m
  <2>6. /\ Moves(1, {}, 0, {a}) /\ 1 \in DOMAIN up /\ Head(up) = up[1]
        /\ AccountsTypeOK' /\ AccountsKnown' /\ Said' /\ PasswordsLeft' /\ MessagesEnd'
        /\ FilesFilled' /\ FilesApart' /\ AvatarWhole'
    BY <1>2, <1>5, <2>1, <2>3, <2>4, <2>5, AnswerStays
  <2>7. OffersRanked' /\ ExpelledGo'
    <3>1. UNCHANGED <<accounts, role, allRoles, allUsers, expelled>>
      BY <1>5 DEF form_a
    <3>2. up[1].what # "users" /\ \A x \in {a} : x.what # "users"
      BY <2>1, <2>3, <2>6 DEF m
    <3> QED BY <2>6, <3>1, <3>2, NothingOffered
  <2> QED BY <2>6, <2>7 DEF AccountsInv
<1> QED BY <1>3, <1>4, <1>5 DEF ServeAccounts

(* An account that the user may make is one that the user may be offered.    *)
LEMMA OutrankedOffered ==
  ASSUME role \in RoleIds, NEW r \in RoleIds, Outranks(r)
  PROVE  Offered(r)
BY DEF RoleIds, Outranks, Offered

LEMMA ServeCreateStays ==
  ASSUME AccountsInv, ServeCreate
  PROVE  AccountsInv'
<1> DEFINE m == Head(up)
           made == Mine /\ Outranks(m.role) /\ m.name \notin DOMAIN accounts
<1>1. PICK ok \in BOOLEAN : ok = made
  BY DEF Outranks
<1> DEFINE a == [what |-> "create", ok |-> ok]
<1>2. /\ up # <<>> /\ m.what = "create" /\ Serve(a)
      /\ accounts' = IF ok THEN With(accounts, m.name, m.role) ELSE accounts
      /\ expelled' = IF ok THEN expelled \ {m.name} ELSE expelled
      /\ UNCHANGED <<password, store_a, me, role, form_a, msgs_a, drop_a, clicks>>
  BY <1>1 DEF ServeCreate, Serving
<1>3. AccountsTypeOK /\ Said /\ OffersRanked /\ ExpelledGo /\ role \in RoleIds
  BY DEF AccountsInv, AccountsKnown
<1>4. m.name \in Names /\ m.role \in RoleIds
  <2>1. 1 \in DOMAIN up /\ m = up[1]
    BY <1>2, <1>3, FirstGone DEF Said
  <2> QED BY <1>2, <1>3, <2>1 DEF Said, CallSays
<1>5. ok => Outranks(m.role)
  BY <1>1
<1>6. AnswerSays(a) /\ AnswerFile(a) /\ ~ OpenAnswer(a) /\ a.what = "create"
  BY <1>1 DEF AnswerSays, AnswerFile, OpenAnswer
<1> HIDE DEF m, made, a
<1>7. /\ DOMAIN accounts' \subseteq Names /\ \A n \in DOMAIN accounts' : accounts'[n] \in RoleIds
      /\ expelled' \subseteq Names
  BY <1>2, <1>3, <1>4 DEF AccountsTypeOK, With
<1>8. /\ Moves(1, {}, 0, {a}) /\ 1 \in DOMAIN up /\ Head(up) = up[1]
      /\ AccountsTypeOK' /\ AccountsKnown' /\ Said' /\ PasswordsLeft' /\ MessagesEnd'
      /\ FilesFilled' /\ FilesApart' /\ AvatarWhole'
  BY <1>2, <1>6, <1>7, AnswerStays
<1>9. role' = role /\ allRoles' = allRoles /\ allUsers' = allUsers
  BY <1>2 DEF form_a
<1>10. OffersRanked'
  <2>1. \A n : Ranked(n) => Ranked(n)'
    <3>1. CASE ~ ok
      BY <1>2, <1>9, <3>1 DEF Ranked, Offered
    <3>2. CASE ok
      <4>1. Offered(m.role)
        BY <1>3, <1>4, <1>5, <3>2, OutrankedOffered
      <4> QED BY <1>2, <1>9, <3>2, <4>1 DEF Ranked, Offered, With
    <3> QED BY <3>1, <3>2
  <2>2. /\ \A r \in allRoles' : Offered(r)
        /\ \A u \in allUsers' : u.allowed => Ranked(u.name)
        /\ \A x \in {a} : ListRanked(x)
    BY <1>3, <1>6, <1>9 DEF OffersRanked, ListRanked
  <2> QED BY <1>3, <1>8, <1>9, <2>1, <2>2, OffersStay
<1>11. ExpelledGo'
  <2>1. expelled' \subseteq expelled /\ \A n \in expelled' : n \notin DOMAIN accounts'
    BY <1>2, <1>3 DEF ExpelledGo, With
  <2>2. up[1].what # "users" /\ \A x \in {a} : x.what # "users"
    BY <1>2, <1>6, <1>8 DEF m
  <2> QED BY <1>3, <1>8, <1>9, <2>1, <2>2, ExpelledStay
<1> QED BY <1>8, <1>10, <1>11 DEF AccountsInv

LEMMA ServeRemoveStays ==
  ASSUME AccountsInv, ServeRemove
  PROVE  AccountsInv'
<1> DEFINE m == Head(up)
           goes == /\ Mine /\ Administers(role) /\ m.name \in DOMAIN accounts
                   /\ Outranks(accounts[m.name]) /\ m.name # "admin"
<1>1. PICK ok \in BOOLEAN : ok = goes
  OBVIOUS
<1> DEFINE a == [what |-> "remove", form |-> m.form, ok |-> ok]
<1>2. /\ up # <<>> /\ m.what = "remove" /\ Serve(a)
      /\ accounts' = IF ok THEN Without(accounts, m.name) ELSE accounts
      /\ expelled' = IF ok /\ m.form THEN expelled \cup {m.name} ELSE expelled
      /\ UNCHANGED <<password, store_a, me, role, form_a, msgs_a, drop_a, clicks>>
  BY <1>1 DEF ServeRemove, Serving
<1>3. AccountsTypeOK /\ Said /\ OffersRanked /\ ExpelledGo
  BY DEF AccountsInv
<1>4. m.name \in Names /\ m.form \in BOOLEAN
  <2>1. 1 \in DOMAIN up /\ m = up[1]
    BY <1>2, <1>3, FirstGone DEF Said
  <2> QED BY <1>2, <1>3, <2>1 DEF Said, CallSays
<1>5. ok => Administers(role)
  BY <1>1
<1>6. /\ AnswerSays(a) /\ AnswerFile(a) /\ ~ OpenAnswer(a) /\ a.what = "remove"
      /\ a.form = m.form /\ a.ok = ok
  BY <1>1, <1>4 DEF AnswerSays, AnswerFile, OpenAnswer
<1> HIDE DEF m, goes, a
<1>7. /\ DOMAIN accounts' \subseteq Names /\ \A n \in DOMAIN accounts' : accounts'[n] \in RoleIds
      /\ expelled' \subseteq Names
  BY <1>2, <1>3, <1>4 DEF AccountsTypeOK, Without
<1>8. /\ Moves(1, {}, 0, {a}) /\ 1 \in DOMAIN up /\ Head(up) = up[1]
      /\ AccountsTypeOK' /\ AccountsKnown' /\ Said' /\ PasswordsLeft' /\ MessagesEnd'
      /\ FilesFilled' /\ FilesApart' /\ AvatarWhole'
  BY <1>2, <1>6, <1>7, AnswerStays
<1>9. role' = role /\ allRoles' = allRoles /\ allUsers' = allUsers
  BY <1>2 DEF form_a
<1>10. OffersRanked'
  <2>1. \A n : Ranked(n) => Ranked(n)'
    BY <1>2, <1>9 DEF Ranked, Offered, Without
  <2>2. /\ \A r \in allRoles' : Offered(r)
        /\ \A u \in allUsers' : u.allowed => Ranked(u.name)
        /\ \A x \in {a} : ListRanked(x)
    BY <1>3, <1>6, <1>9 DEF OffersRanked, ListRanked
  <2> QED BY <1>3, <1>8, <1>9, <2>1, <2>2, OffersStay
<1>11. ASSUME NEW n \in expelled PROVE n \notin DOMAIN accounts' /\ Administers(role)' /\ Goes(n)'
  <2>1. n \notin DOMAIN accounts /\ Administers(role) /\ Goes(n)
    BY <1>3, <1>11 DEF ExpelledGo
  <2>2. up[1].what # "users" /\ \A x \in {a} : x.what # "users"
    BY <1>2, <1>6, <1>8 DEF m
  <2>3. Goes(n)'
    BY <1>8, <1>9, <2>1, <2>2, GoesOn
  <2>4. n \notin DOMAIN accounts'
    BY <1>2, <2>1 DEF Without
  <2> QED BY <1>9, <2>1, <2>3, <2>4 DEF Administers
<1>12. (ok /\ m.form) => m.name \notin DOMAIN accounts' /\ Administers(role)'
  BY <1>2, <1>5, <1>9 DEF Without, Administers
<1>13. ExpelledGo'
  <2> SUFFICES ASSUME NEW n \in expelled'
               PROVE  n \notin DOMAIN accounts' /\ Administers(role)' /\ Goes(n)'
    BY DEF ExpelledGo, Administers
  <2>1. CASE n \in expelled
    BY <1>11, <2>1
  <2>2. CASE n \notin expelled
    <3>1. ok /\ m.form /\ n = m.name
      BY <1>2, <2>2
    <3>2. \E i \in DOMAIN down' : Reasks(down'[i])
      <4>1. PICK i \in DOMAIN down' : down'[i] = a
        BY <1>8 DEF Moves, Slid
      <4>2. Reasks(a)
        BY <1>6, <3>1, Zenon DEF Reasks
      <4> QED BY <4>1, <4>2
    <3>3. Goes(n)'
      BY <3>2 DEF Goes, Reasks
    <3> QED BY <1>12, <3>1, <3>3
  <2> QED BY <2>1, <2>2
<1> QED BY <1>8, <1>10, <1>13 DEF AccountsInv

(* Nothing changes of the files but x, which was not ended.                  *)
FilesElse(x) ==
  /\ x \notin ended /\ ended \subseteq ended' /\ DOMAIN received \subseteq DOMAIN received'
  /\ \A h \in DOMAIN received : h # x => /\ received'[h] = received[h] /\ size_u'[h] = size_u[h]
                                         /\ h \in ended' => h \in ended

LEMMA OthersStay ==
  ASSUME AccountsTypeOK, NEW x, FilesElse(x)
  PROVE  /\ \A h : Whole(h) => Whole(h)'
         /\ \A m : (CallFile(m) /\ (OpenCall(m) => m.h # x)) => CallFile(m)'
         /\ \A m : (AnswerFile(m) /\ (OpenAnswer(m) => m.h # x)) => AnswerFile(m)'
<1>1. \A h : Whole(h) => Whole(h)'
  BY DEF AccountsTypeOK, FilesElse, Whole
<1>2. \A m : (Filling(m) /\ m.h # x) => Filling(m)'
  <2> SUFFICES ASSUME NEW m, Filling(m), m.h # x PROVE Filling(m)'
    OBVIOUS
  <2>1. /\ m.h \in DOMAIN received' /\ m.h \notin ended'
        /\ received'[m.h] = received[m.h] /\ size_u'[m.h] = size_u[m.h]
    BY DEF Filling, FilesElse
  <2>2. m.first = m.h \/ Whole(m.first)'
    BY <1>1 DEF Filling
  <2> QED BY <2>1, <2>2 DEF Filling, SentOf
<1>3. \A m : (CallFile(m) /\ (OpenCall(m) => m.h # x)) => CallFile(m)'
  <2> SUFFICES ASSUME NEW m, CallFile(m), OpenCall(m) => m.h # x PROVE CallFile(m)'
    OBVIOUS
  <2>1. (m.what = "loop" /\ m.step # "start") => Filling(m)'
    BY <1>2 DEF CallFile, OpenCall
  <2> QED BY <1>1, <2>1 DEF CallFile
<1>4. \A m : (AnswerFile(m) /\ (OpenAnswer(m) => m.h # x)) => AnswerFile(m)'
  <2> SUFFICES ASSUME NEW m, AnswerFile(m), OpenAnswer(m) => m.h # x PROVE AnswerFile(m)'
    OBVIOUS
  <2>1. (m.what = "loop" /\ m.step # "end") => Filling(m)'
    BY <1>2 DEF AnswerFile, OpenAnswer
  <2> QED BY <1>1, <2>1 DEF AnswerFile
<1> QED BY <1>1, <1>3, <1>4

(* A call of an upload that is answered: x is its file.                      *)
LEMMA LoopServed ==
  ASSUME AccountsInv, Serving("loop"), NEW a, Serve(a), a \in Loops, a.what = "loop", AnswerFile(a)',
         NEW x, FilesElse(x), OpenAnswer(a) => a.h = x,
         \A i \in DOMAIN up : (i > 1 /\ OpenCall(up[i])) => up[i].h # x,
         \A i \in DOMAIN down : OpenAnswer(down[i]) => down[i].h # x,
         received' \in Seq(Nat), size_u' \in Seq(Nat), DOMAIN size_u' = DOMAIN received',
         ended' \subseteq DOMAIN received',
         UNCHANGED <<accounts, password, avatar, me, role, form_a, msgs_a, drop_a, clicks, expelled>>
  PROVE  AccountsInv'
<1>1. /\ AccountsTypeOK /\ AccountsKnown /\ Said /\ PasswordsLeft /\ FilesFilled /\ FilesApart
      /\ MessagesEnd /\ AvatarWhole
  BY DEF AccountsInv
<1>2. /\ Moves(1, {}, 0, {a}) /\ 1 \in DOMAIN up /\ Head(up) = up[1]
      /\ Head(up).what = "loop"
  BY ServeMoves DEF AccountsInv, Serving
<1>3. Said'
  <2>1. \A m \in {a} : AnswerSays(m)
    BY DEF AnswerSays, Loops
  <2>2. \A m \in {} : CallSays(m)
    OBVIOUS
  <2> QED BY <1>1, <1>2, <2>1, <2>2, SaidStays
<1>4. PasswordsLeft'
  <2>1. password \in Nat /\ clicks \in Nat
    BY <1>1 DEF AccountsTypeOK, AccountsKnown
  <2>2. clicks' \in {clicks, clicks + 1} /\ password' = password
    OBVIOUS
  <2> QED BY <1>1, <1>2, <2>1, <2>2, NumbersStay
<1>5. OffersRanked' /\ ExpelledGo'
  <2>1. UNCHANGED <<accounts, role, allRoles, allUsers, expelled>>
    BY DEF form_a
  <2>2. up[1].what # "users" /\ \A m \in {a} : m.what # "users"
    BY <1>2
  <2> QED BY <1>2, <2>1, <2>2, NothingOffered
<1>6. /\ \A h : Whole(h) => Whole(h)'
      /\ \A m : (CallFile(m) /\ (OpenCall(m) => m.h # x)) => CallFile(m)'
      /\ \A m : (AnswerFile(m) /\ (OpenAnswer(m) => m.h # x)) => AnswerFile(m)'
  BY <1>1, OthersStay
<1>7. FilesFilled'
  <2>1. \A m : (\E i \in DOMAIN up : i > 1 /\ up[i] = m) => CallFile(m)'
    BY <1>1, <1>6 DEF FilesFilled
  <2>2. \A m : (\E i \in DOMAIN down : i > 0 /\ down[i] = m) => AnswerFile(m)'
    BY <1>1, <1>6 DEF FilesFilled
  <2>3. \A m \in {a} : AnswerFile(m)'
    <3> SUFFICES ASSUME NEW m, m = a PROVE AnswerFile(m)'
      OBVIOUS
    <3> QED OBVIOUS
  <2>4. \A m \in {} : CallFile(m)'
    OBVIOUS
  <2> QED BY <1>1, <1>2, <2>1, <2>2, <2>3, <2>4, FilesStay
<1>8. FilesApart'
  <2>1. \A m \in {a} : OpenAnswer(m) =>
          /\ \A i \in DOMAIN up : (i > 1 /\ OpenCall(up[i])) => up[i].h # m.h
          /\ \A i \in DOMAIN down : (i > 0 /\ OpenAnswer(down[i])) => down[i].h # m.h
    OBVIOUS
  <2>2. \A m \in {} : OpenCall(m) =>
          /\ \A i \in DOMAIN up : (i > 1 /\ OpenCall(up[i])) => up[i].h # m.h
          /\ \A i \in DOMAIN down : (i > 0 /\ OpenAnswer(down[i])) => down[i].h # m.h
    OBVIOUS
  <2> QED BY <1>1, <1>2, <2>1, <2>2, ApartStays
<1>9. AvatarWhole'
  <2>1. avatar # 0 => Whole(avatar)
    BY <1>1 DEF AvatarWhole, Whole
  <2>2. avatar # 0 => \E h : h = avatar /\ Whole(h)'
    BY <1>6, <2>1
  <2> QED BY <2>2 DEF AvatarWhole, Whole
<1>10. UNCHANGED <<allRoles, allUsers, changeFailed, changeOK, msgTimers, dropped, uploading, avatarPopup>>
  BY DEF form_a, msgs_a, drop_a
<1>11. AccountsTypeOK' /\ AccountsKnown' /\ MessagesEnd'
  <2>1. avatar' \in {0} \cup DOMAIN received'
    BY <1>1 DEF AccountsTypeOK, FilesElse
  <2> QED BY <1>1, <1>10, <2>1 DEF AccountsTypeOK, AccountsKnown, MessagesEnd
<1> QED BY <1>3, <1>4, <1>5, <1>7, <1>8, <1>9, <1>11 DEF AccountsInv

LEMMA ServeLoopStays ==
  ASSUME AccountsInv, ServeLoop
  PROVE  AccountsInv'
<1>1. /\ AccountsTypeOK /\ AccountsKnown /\ Said /\ FilesFilled /\ FilesApart
  BY DEF AccountsInv
<1>2. PICK m : m = Head(up)
  OBVIOUS
<1> DEFINE size == Head(m.todo)
           x == Len(received) + 1
           slice == IF m.i + ChunkSize < size THEN ChunkSize ELSE size - m.i
<1>3. /\ Serving("loop") /\ up # <<>> /\ m.what = "loop"
      /\ UNCHANGED <<accounts, password, avatar, me, role, form_a, msgs_a, drop_a, clicks, expelled>>
  BY <1>2 DEF ServeLoop, Serving
<1>4. 1 \in DOMAIN up /\ m = up[1]
  BY <1>1, <1>2, <1>3, FirstGone DEF Said
<1>5. m \in Loops /\ CallFile(m)
  BY <1>1, <1>3, <1>4 DEF Said, CallSays, FilesFilled
<1>6. /\ received \in Seq(Nat) /\ size_u \in Seq(Nat) /\ DOMAIN size_u = DOMAIN received
      /\ ended \subseteq DOMAIN received /\ ChunkSize \in Nat /\ FileSizes \subseteq Nat
  BY <1>1, AccountsAssumption DEF AccountsTypeOK, AccountsKnown
<1>7. m.todo # <<>> /\ m.todo \in Seq(Nat) /\ size \in Nat /\ m.i \in Nat /\ m.h \in Nat /\ m.first \in Nat
  <2>1. m.todo # <<>>
    BY <1>3, <1>5 DEF CallFile, Filling
  <2>2. m.todo \in Seq(FileSizes)
    BY <1>5 DEF Loops
  <2>3. m.todo \in Seq(Nat)
    BY <1>6, <2>2, SeqMonotonic
  <2>4. Head(m.todo) \in Nat
    BY <2>1, <2>3, HeadTailProperties
  <2> QED BY <1>5, <2>1, <2>3, <2>4 DEF Loops
<1>8. ASSUME m.step # "start"
      PROVE  /\ Filling(m) /\ m.h \in DOMAIN received /\ m.h \notin ended
             /\ \A i \in DOMAIN up : (i > 1 /\ OpenCall(up[i])) => up[i].h # m.h
             /\ \A i \in DOMAIN down : OpenAnswer(down[i]) => down[i].h # m.h
  <2>1. OpenCall(m) /\ Filling(m)
    BY <1>3, <1>5, <1>8 DEF OpenCall, CallFile
  <2>2. \A i \in DOMAIN up : i > 1 => i # 1
    OBVIOUS
  <2>3. \A i \in DOMAIN up : (i > 1 /\ OpenCall(up[i])) => up[i].h # m.h
    BY <1>1, <1>4, <2>1, <2>2 DEF FilesApart
  <2>4. \A i \in DOMAIN down : OpenAnswer(down[i]) => down[i].h # m.h
    BY <1>1, <1>4, <2>1 DEF FilesApart
  <2> QED BY <2>1, <2>3, <2>4 DEF Filling
<1>9. CASE m.step = "start"
  <2>1. PICK a : a = [m EXCEPT !.h = x, !.first = IF @ = 0 THEN x ELSE @]
    OBVIOUS
  <2>2. Serve(a) /\ received' = Append(received, 0) /\ size_u' = Append(size_u, size) /\ UNCHANGED ended
    BY <1>2, <1>9, <2>1 DEF ServeLoop
  <2>3. /\ x \in Nat /\ x \notin DOMAIN received
        /\ received' \in Seq(Nat) /\ size_u' \in Seq(Nat)
        /\ DOMAIN received' = DOMAIN received \cup {x} /\ DOMAIN size_u' = DOMAIN received'
        /\ received'[x] = 0 /\ size_u'[x] = size
        /\ \A h \in DOMAIN received : received'[h] = received[h] /\ size_u'[h] = size_u[h]
    <3>1. /\ received' \in Seq(Nat) /\ size_u' \in Seq(Nat) /\ Len(received) \in Nat /\ Len(size_u) = Len(received)
          /\ DOMAIN received = 1 .. Len(received)
      BY <1>6, <1>7, <2>2, LenProperties, AppendProperties
    <3>2. /\ Len(received') = Len(received) + 1 /\ received'[x] = 0
          /\ \A h \in 1 .. Len(received) : received'[h] = received[h]
      BY <1>6, <2>2, AppendProperties
    <3>3. /\ Len(size_u') = Len(received) + 1 /\ size_u'[x] = size
          /\ \A h \in 1 .. Len(received) : size_u'[h] = size_u[h]
      BY <1>6, <1>7, <2>2, <3>1, AppendProperties
    <3>4. DOMAIN received' = 1 .. Len(received) + 1 /\ DOMAIN size_u' = 1 .. Len(received) + 1
      BY <3>1, <3>2, <3>3, LenProperties
    <3> HIDE DEF size
    <3>5. 1 .. Len(received) + 1 = (1 .. Len(received)) \cup {Len(received) + 1}
      BY <3>1
    <3> QED BY <3>1, <3>2, <3>3, <3>4, <3>5
  <2> HIDE DEF x, size
  <2>4. /\ a \in Loops /\ a.what = "loop" /\ a.h = x /\ a.step = "start" /\ a.todo = m.todo /\ a.i = m.i
        /\ a.first = IF m.first = 0 THEN x ELSE m.first
    BY <1>3, <1>5, <1>7, <1>9, <2>1, <2>3 DEF Loops
  <2>5. FilesElse(x)
    BY <1>6, <2>2, <2>3 DEF FilesElse
  <2>6. \A h : Whole(h) => Whole(h)'
    BY <1>1, <2>5, OthersStay
  <2>7. AnswerFile(a)'
    <3>1. m.i = 0 /\ (m.first = 0 \/ Whole(m.first))
      BY <1>3, <1>5, <1>9 DEF CallFile
    <3>2. a.first = x \/ Whole(a.first)'
      BY <2>4, <2>6, <3>1
    <3>3. 0 = SentOf(0, size)
      BY <1>7 DEF SentOf
    <3>4. x \notin ended'
      BY <1>6, <2>2, <2>3
    <3>5. Filling(a)'
      BY <1>7, <2>3, <2>4, <3>1, <3>2, <3>3, <3>4 DEF Filling, size, SentOf
    <3> QED BY <2>4, <3>5 DEF AnswerFile
  <2>8. /\ \A i \in DOMAIN up : OpenCall(up[i]) => up[i].h # x
        /\ \A i \in DOMAIN down : OpenAnswer(down[i]) => down[i].h # x
    BY <1>1, <2>3 DEF FilesFilled, CallFile, AnswerFile, Filling, OpenCall, OpenAnswer
  <2>9. ended' \subseteq DOMAIN received'
    BY <1>6, <2>2, <2>3
  <2> QED BY <1>3, <2>2, <2>3, <2>4, <2>5, <2>7, <2>8, <2>9, LoopServed
<1>10. CASE m.step = "chunk"
  <2>1. PICK a : a = [m EXCEPT !.i = @ + ChunkSize]
    OBVIOUS
  <2>2. Serve(a) /\ received' = [received EXCEPT ![m.h] = @ + slice] /\ UNCHANGED <<ended, size_u>>
    BY <1>2, <1>10, <2>1 DEF ServeLoop
  <2>3. /\ Filling(m) /\ m.h \in DOMAIN received /\ m.h \notin ended /\ m.i < size
        /\ \A i \in DOMAIN up : (i > 1 /\ OpenCall(up[i])) => up[i].h # m.h
        /\ \A i \in DOMAIN down : OpenAnswer(down[i]) => down[i].h # m.h
    BY <1>3, <1>5, <1>8, <1>10 DEF CallFile
  <2> HIDE DEF x, size
  <2>4. slice \in Nat /\ m.i + slice = SentOf(m.i + ChunkSize, size)
    <3> DEFINE k == m.i
    <3>1. k \in Nat /\ ChunkSize \in Nat /\ size \in Nat /\ k < size
      BY <1>6, <1>7, <2>3
    <3> HIDE DEF k
    <3>2. CASE k + ChunkSize < size
      <4>1. slice = ChunkSize /\ SentOf(m.i + ChunkSize, size) = k + ChunkSize
        BY <3>2 DEF k, SentOf
      <4> QED BY <3>1, <4>1 DEF k
    <3>3. CASE ~ (k + ChunkSize < size)
      <4>1. slice = size - k /\ SentOf(m.i + ChunkSize, size) = size
        BY <3>3 DEF k, SentOf
      <4>2. size - k \in Nat /\ k + (size - k) = size
        BY <3>1
      <4> QED BY <4>1, <4>2 DEF k
    <3> QED BY <3>2, <3>3
  <2>5. received[m.h] = m.i
    BY <2>3 DEF Filling, SentOf, size
  <2> HIDE DEF slice
  <2>6. /\ received' \in Seq(Nat) /\ DOMAIN received' = DOMAIN received
        /\ received'[m.h] = m.i + slice
        /\ \A h \in DOMAIN received : h # m.h => received'[h] = received[h]
    <3>1. received[m.h] + slice \in Nat
      BY <1>7, <2>4, <2>5
    <3>2. received' = [received EXCEPT ![m.h] = received[m.h] + slice]
      BY <2>2
    <3>3. received' \in Seq(Nat)
      BY <1>6, <2>3, <3>1, <3>2, ExceptSeq
    <3> QED BY <2>3, <2>5, <3>2, <3>3
  <2>7. /\ a \in Loops /\ a.what = "loop" /\ a.h = m.h /\ a.step = "chunk" /\ a.todo = m.todo
        /\ a.i = m.i + ChunkSize /\ a.first = m.first
    <3>1. PICK k \in Nat : k = m.i + ChunkSize
      BY <1>6, <1>7
    <3>2. a = [m EXCEPT !.i = k]
      BY <2>1, <3>1
    <3> QED BY <1>3, <1>5, <1>10, <3>1, <3>2 DEF Loops
  <2>8. FilesElse(m.h)
    BY <2>2, <2>3, <2>6 DEF FilesElse
  <2>9. \A h : Whole(h) => Whole(h)'
    BY <1>1, <2>8, OthersStay
  <2>10. AnswerFile(a)'
    <3>1. m.first = m.h \/ Whole(m.first)'
      BY <2>3, <2>9 DEF Filling
    <3>2. size_u[m.h] = size /\ m.todo # <<>>
      BY <2>3 DEF Filling, size
    <3>3. Filling(a)'
      BY <2>2, <2>3, <2>4, <2>6, <2>7, <3>1, <3>2 DEF Filling, size, SentOf
    <3> QED BY <2>7, <3>3 DEF AnswerFile
  <2>11. size_u' \in Seq(Nat) /\ DOMAIN size_u' = DOMAIN received' /\ ended' \subseteq DOMAIN received'
    BY <1>6, <2>2, <2>6
  <2> QED BY <1>3, <2>2, <2>3, <2>6, <2>7, <2>8, <2>10, <2>11, LoopServed
<1>11. CASE m.step = "end"
  <2>1. PICK a : a = [m EXCEPT !.todo = Tail(@)]
    OBVIOUS
  <2>2. Serve(a) /\ ended' = ended \cup {m.h} /\ UNCHANGED <<received, size_u>>
    BY <1>2, <1>11, <2>1 DEF ServeLoop
  <2>3. /\ Filling(m) /\ m.h \in DOMAIN received /\ m.h \notin ended /\ ~ (m.i < size)
        /\ \A i \in DOMAIN up : (i > 1 /\ OpenCall(up[i])) => up[i].h # m.h
        /\ \A i \in DOMAIN down : OpenAnswer(down[i]) => down[i].h # m.h
    BY <1>3, <1>5, <1>8, <1>11 DEF CallFile
  <2>4. /\ a \in Loops /\ a.what = "loop" /\ a.step = "end" /\ a.first = m.first /\ ~ OpenAnswer(a)
    <3>1. m.todo \in Seq(FileSizes)
      BY <1>5 DEF Loops
    <3>2. Tail(m.todo) \in Seq(FileSizes)
      BY <1>7, <3>1, HeadTailProperties
    <3>3. PICK t \in Seq(FileSizes) : t = Tail(m.todo)
      BY <3>2
    <3>4. a = [m EXCEPT !.todo = t]
      BY <2>1, <3>3
    <3> QED BY <1>3, <1>5, <1>11, <3>4 DEF Loops, OpenAnswer
  <2>5. FilesElse(m.h)
    BY <2>2, <2>3 DEF FilesElse
  <2>6. \A h : Whole(h) => Whole(h)'
    BY <1>1, <2>5, OthersStay
  <2>7. received[m.h] = size_u[m.h]
    BY <2>3 DEF Filling, SentOf
  <2>8. AnswerFile(a)'
    <3>1. Whole(m.first)'
      <4>1. CASE m.first = m.h
        BY <2>2, <2>7, <4>1 DEF Whole
      <4>2. CASE m.first # m.h
        BY <2>3, <2>6, <4>2 DEF Filling
      <4> QED BY <4>1, <4>2
    <3> QED BY <2>4, <3>1 DEF AnswerFile
  <2>9. /\ received' \in Seq(Nat) /\ size_u' \in Seq(Nat) /\ DOMAIN size_u' = DOMAIN received'
        /\ ended' \subseteq DOMAIN received'
    BY <1>6, <2>2, <2>3
  <2> QED BY <1>3, <2>2, <2>3, <2>4, <2>5, <2>8, <2>9, LoopServed
<1>12. m.step \in {"start", "chunk", "end"}
  BY <1>5 DEF Loops
<1> QED BY <1>9, <1>10, <1>11, <1>12

(* An answer of an upload makes the next call.                               *)
LEMMA LoopAnswerStays ==
  ASSUME AccountsInv, LoopArrives
  PROVE  AccountsInv'
<1>1. /\ AccountsTypeOK /\ AccountsKnown /\ Said /\ FilesFilled /\ FilesApart /\ PasswordsLeft
  BY DEF AccountsInv
<1>2. PICK m : m = Head(down)
  OBVIOUS
<1> DEFINE over == m.step = "end" /\ m.todo = <<>>
           left == ChunksLeft(m.i, Head(m.todo))
<1>3. /\ down # <<>> /\ m.what = "loop" /\ Got
      /\ uploading' = (uploading /\ ~ over)
      /\ UNCHANGED <<accounts, password, store_a, me, role, form_a, msgs_a, dropped, avatarPopup,
                     clicks, expelled>>
  BY <1>2 DEF LoopArrives, Getting
<1>4. 1 \in DOMAIN down /\ m = down[1]
  BY <1>1, <1>2, <1>3, FirstGone DEF Said
<1>5. m \in Loops /\ AnswerFile(m)
  BY <1>1, <1>3, <1>4 DEF Said, AnswerSays, FilesFilled
<1>6. MessagesOK' /\ DropOK'
  <2>1. MessagesOK'
    BY <1>3, MessagesSame
  <2>2. uploading' \in BOOLEAN
    BY <1>3
  <2> QED BY <1>1, <1>3, <2>1, <2>2 DEF AccountsTypeOK, DropOK
<1>7. clicks' \in {clicks, clicks + 1} /\ clicks' <= MaxClicks
  BY <1>1, <1>3, AccountsAssumption DEF AccountsKnown
<1>8. down[1].what # "users" /\ ~ Reasks(down[1])
  BY <1>3, <1>4 DEF Reasks
<1>9. ASSUME NEW c, Ask(<<c>>), CallSays(c), CallFile(c), ~ OpenCall(c), c.what # "password"
      PROVE  AccountsInv'
  <2>1. Moves(0, {c}, 1, {})
    BY <1>1, <1>3, <1>9, GetAskMoves
  <2>2. \A x \in {c} : /\ CallSays(x) /\ CallFile(x) /\ ~ OpenCall(x)
                       /\ x.what = "password" => clicks' = clicks + 1
    BY <1>9
  <2> QED BY <1>3, <1>6, <1>7, <1>8, <2>1, <2>2, PageStays
<1>10. CASE over
  <2>1. PICK c : c = [what |-> "setavatar", h |-> m.first]
    OBVIOUS
  <2>2. Ask(<<c>>)
    BY <1>2, <1>10, <2>1 DEF LoopArrives
  <2>3. m.first \in Nat /\ Whole(m.first)
    BY <1>3, <1>5, <1>10 DEF Loops, AnswerFile
  <2>4. CallSays(c) /\ CallFile(c) /\ ~ OpenCall(c) /\ c.what # "password"
    BY <2>1, <2>3 DEF CallSays, CallFile, OpenCall
  <2> QED BY <1>9, <2>2, <2>4
<1>11. CASE m.step = "end" /\ ~ over
  <2>1. PICK c : c = [m EXCEPT !.step = "start", !.i = 0]
    OBVIOUS
  <2>2. Ask(<<c>>)
    BY <1>2, <1>11, <2>1 DEF LoopArrives
  <2>3. /\ c \in Loops /\ c.what = "loop" /\ c.step = "start" /\ c.i = 0 /\ c.todo = m.todo
        /\ c.first = m.first
    BY <1>3, <1>5, <2>1 DEF Loops
  <2>4. c.todo # <<>> /\ Whole(c.first)
    BY <1>3, <1>5, <1>11, <2>3 DEF AnswerFile
  <2>5. "event" \notin DOMAIN c
    BY <2>3 DEF Loops
  <2>6. CallSays(c) /\ CallFile(c) /\ ~ OpenCall(c) /\ c.what # "password"
    BY <2>3, <2>4, <2>5 DEF CallSays, CallFile, OpenCall
  <2> QED BY <1>9, <2>2, <2>6
<1>12. CASE m.step # "end"
  <2>1. PICK s \in {"chunk", "end"} : s = IF left THEN "chunk" ELSE "end"
    OBVIOUS
  <2>2. PICK c : c = [m EXCEPT !.step = s]
    OBVIOUS
  <2>3. Ask(<<c>>)
    <3>1. CASE left
      BY <1>2, <1>12, <2>1, <2>2, <3>1 DEF LoopArrives
    <3>2. CASE ~ left
      BY <1>2, <1>12, <2>1, <2>2, <3>2 DEF LoopArrives
    <3> QED BY <3>1, <3>2
  <2>4. /\ c \in Loops /\ c.what = "loop" /\ c.step = s /\ c.i = m.i /\ c.todo = m.todo
        /\ c.first = m.first /\ c.h = m.h
    BY <1>3, <1>5, <2>1, <2>2 DEF Loops
  <2>5. "event" \notin DOMAIN c
    BY <2>4 DEF Loops
  <2>6. CallSays(c)
    BY <2>4, <2>5 DEF CallSays
  <2>7. Filling(m)
    BY <1>3, <1>5, <1>12 DEF AnswerFile
  <2>8. Filling(c)
    BY <2>4, <2>7 DEF Filling
  <2>9. CallFile(c)
    <3>1. s = "chunk" => m.i < Head(m.todo)
      BY <2>1 DEF ChunksLeft
    <3>2. s = "end" => ~ (m.i < Head(m.todo))
      BY <2>1 DEF ChunksLeft
    <3> QED BY <2>1, <2>4, <2>8, <3>1, <3>2 DEF CallFile
  <2>10. Moves(0, {c}, 1, {})
    BY <1>1, <1>3, <2>3, GetAskMoves
  <2>11. UNCHANGED <<received, ended, avatar, size_u, allRoles, allUsers>>
    BY <1>3 DEF store_a, form_a
  <2>12. Said'
    <3>1. \A x \in {c} : CallSays(x)
      BY <2>6
    <3>2. \A x \in {} : AnswerSays(x)
      OBVIOUS
    <3> QED BY <1>1, <2>10, <3>1, <3>2, SaidStays
  <2>13. PasswordsLeft'
    <3>1. password \in Nat /\ clicks \in Nat /\ password' = password
      BY <1>1, <1>3 DEF AccountsTypeOK, AccountsKnown
    <3>2. \A x \in {c} : x.what = "password" => clicks' = clicks + 1
      BY <2>4
    <3> QED BY <1>1, <1>7, <2>10, <3>1, <3>2, NumbersStay
  <2>14. OffersRanked' /\ ExpelledGo'
    <3>1. \A x \in {} : x.what # "users"
      OBVIOUS
    <3>2. UNCHANGED <<accounts, role, allRoles, allUsers, expelled>>
      BY <1>3, <2>11
    <3> QED BY <1>8, <2>10, <3>1, <3>2, NothingOffered
  <2>15. \A x : (CallFile(x) => CallFile(x)') /\ (AnswerFile(x) => AnswerFile(x)')
    BY <2>11 DEF CallFile, AnswerFile, Filling, Whole, SentOf
  <2>16. FilesFilled'
    <3>1. \A x : (\E i \in DOMAIN up : i > 0 /\ up[i] = x) => CallFile(x)'
      BY <1>1, <2>15 DEF FilesFilled
    <3>2. \A x : (\E i \in DOMAIN down : i > 1 /\ down[i] = x) => AnswerFile(x)'
      BY <1>1, <2>15 DEF FilesFilled
    <3>3. (\A x \in {c} : CallFile(x)') /\ (\A x \in {} : AnswerFile(x)')
      BY <2>9, <2>15
    <3> QED BY <1>1, <2>10, <3>1, <3>2, <3>3, FilesStay
  <2>17. FilesApart'
    <3>1. OpenAnswer(m)
      BY <1>3, <1>12 DEF OpenAnswer
    <3>2. \A i \in DOMAIN up : (i > 0 /\ OpenCall(up[i])) => up[i].h # c.h
      BY <1>1, <1>4, <2>4, <3>1 DEF FilesApart
    <3>3. \A i \in DOMAIN down : (i > 1 /\ OpenAnswer(down[i])) => down[i].h # c.h
      <4>1. \A i \in DOMAIN down : i > 1 => i # 1
        OBVIOUS
      <4> QED BY <1>1, <1>4, <2>4, <3>1, <4>1 DEF FilesApart
    <3>4. \A x \in {c} : OpenCall(x) =>
            /\ \A i \in DOMAIN up : (i > 0 /\ OpenCall(up[i])) => up[i].h # x.h
            /\ \A i \in DOMAIN down : (i > 1 /\ OpenAnswer(down[i])) => down[i].h # x.h
      BY <3>2, <3>3
    <3>5. \A x \in {} : OpenAnswer(x) =>
            /\ \A i \in DOMAIN up : (i > 0 /\ OpenCall(up[i])) => up[i].h # x.h
            /\ \A i \in DOMAIN down : (i > 1 /\ OpenAnswer(down[i])) => down[i].h # x.h
      OBVIOUS
    <3> QED BY <1>1, <2>10, <3>4, <3>5, ApartStays
  <2>18. AvatarWhole'
    BY <2>11 DEF AccountsInv, AvatarWhole
  <2>19. AccountsTypeOK' /\ AccountsKnown'
    BY <1>1, <1>3, <1>6, <2>11 DEF AccountsTypeOK, AccountsKnown, MessagesOK, DropOK
  <2> QED BY <1>6, <2>12, <2>13, <2>14, <2>16, <2>17, <2>18, <2>19 DEF AccountsInv, MessagesOK
<1> QED BY <1>10, <1>11, <1>12

(* The file that becomes the avatar.                                         *)
LEMMA ServeSetAvatarStays ==
  ASSUME AccountsInv, ServeSetAvatar
  PROVE  AccountsInv'
<1>1. /\ AccountsTypeOK /\ AccountsKnown /\ Said /\ FilesFilled /\ FilesApart /\ PasswordsLeft
      /\ AvatarWhole /\ MessagesEnd
  BY DEF AccountsInv
<1>2. PICK m : m = Head(up)
  OBVIOUS
<1>3. /\ up # <<>> /\ m.what = "setavatar" /\ Serve(m) /\ avatar' = IF Mine THEN m.h ELSE avatar
      /\ UNCHANGED <<accounts, password, received, ended, size_u, me, role, form_a, msgs_a, drop_a,
                     clicks, expelled>>
  BY <1>2 DEF ServeSetAvatar, Serving
<1>4. Moves(1, {}, 0, {m}) /\ 1 \in DOMAIN up /\ m = up[1]
  BY <1>1, <1>2, <1>3, ServeMoves
<1>5. AnswerSays(m) /\ AnswerFile(m) /\ ~ OpenAnswer(m) /\ Whole(m.h)
  BY <1>1, <1>3, <1>4 DEF Said, CallSays, AnswerSays, AnswerFile, OpenAnswer, FilesFilled, CallFile
<1>6. Said'
  <2>1. (\A x \in {m} : AnswerSays(x)) /\ (\A x \in {} : CallSays(x))
    BY <1>5
  <2> QED BY <1>1, <1>4, <2>1, SaidStays
<1>7. PasswordsLeft'
  <2>1. password \in Nat /\ clicks \in Nat /\ password' = password /\ clicks' \in {clicks, clicks + 1}
    BY <1>1, <1>3 DEF AccountsTypeOK, AccountsKnown
  <2> QED BY <1>1, <1>4, <2>1, NumbersStay
<1>8. OffersRanked' /\ ExpelledGo'
  <2>1. UNCHANGED <<accounts, role, allRoles, allUsers, expelled>>
    BY <1>3 DEF form_a
  <2>2. up[1].what # "users" /\ \A x \in {m} : x.what # "users"
    BY <1>3, <1>4
  <2> QED BY <1>4, <2>1, <2>2, NothingOffered
<1>9. \A x : (CallFile(x) => CallFile(x)') /\ (AnswerFile(x) => AnswerFile(x)')
  BY <1>3 DEF CallFile, AnswerFile, Filling, Whole, SentOf
<1>10. FilesFilled'
  <2>1. \A x : (\E i \in DOMAIN up : i > 1 /\ up[i] = x) => CallFile(x)'
    BY <1>1, <1>9 DEF FilesFilled
  <2>2. \A x : (\E i \in DOMAIN down : i > 0 /\ down[i] = x) => AnswerFile(x)'
    BY <1>1, <1>9 DEF FilesFilled
  <2>3. (\A x \in {} : CallFile(x)') /\ (\A x \in {m} : AnswerFile(x)')
    BY <1>5, <1>9
  <2> QED BY <1>1, <1>4, <2>1, <2>2, <2>3, FilesStay
<1>11. FilesApart'
  <2>1. \A x \in {m} : ~ OpenAnswer(x)
    BY <1>5
  <2> QED BY <1>1, <1>4, <2>1, ApartStays
<1>12. AvatarWhole'
  BY <1>1, <1>3, <1>5 DEF AvatarWhole, Whole
<1>13. UNCHANGED <<allRoles, allUsers, changeFailed, changeOK, msgTimers, dropped, uploading, avatarPopup>>
  BY <1>3 DEF form_a, msgs_a, drop_a
<1>14. AccountsTypeOK' /\ AccountsKnown' /\ MessagesEnd'
  <2>1. avatar' \in {0} \cup DOMAIN received'
    BY <1>1, <1>3, <1>5 DEF AccountsTypeOK, Whole
  <2> QED BY <1>1, <1>3, <1>13, <2>1 DEF AccountsTypeOK, AccountsKnown, MessagesEnd
<1> QED BY <1>6, <1>7, <1>8, <1>10, <1>11, <1>12, <1>14 DEF AccountsInv

LEMMA AccountsStepSound ==
  ASSUME AccountsInv, AccountsNext \/ UNCHANGED <<calls, vars_a>>
  PROVE  AccountsInv'
<1>1. CASE UNCHANGED <<calls, vars_a>>
  <2>1. /\ UNCHANGED calls /\ UNCHANGED msgs_a /\ UNCHANGED drop_a /\ clicks' = clicks
        /\ UNCHANGED <<accounts, password, store_a, me, role, form_a, expelled>>
    BY <1>1 DEF vars_a
  <2>2. Moves(0, {}, 0, {})
    BY <2>1, StaysStill DEF AccountsInv
  <2>3. clicks' \in {clicks, clicks + 1} /\ clicks' <= MaxClicks
    BY <2>1, AccountsAssumption DEF AccountsInv, AccountsKnown
  <2>4. MessagesOK' /\ DropOK'
    BY <2>1, MessagesSame, DropSame
  <2> QED BY <2>1, <2>2, <2>3, <2>4, PageStays
<1>2. CASE \E same \in BOOLEAN : \/ \E old \in 0 .. MaxClicks : ChangePassword(old, same)
                                 \/ \E r \in RoleIds : CreateNewUser("new", r, same)
  <2>1. "new" \in Names /\ 1 \in RoleIds
    BY DEF Names, RoleIds
  <2> QED BY <1>2, <2>1, FormsStay
<1>3. CASE (\E n \in Names : DeleteUser(n)) \/ DeleteOwnAccount
  <2>1. "new" \in Names /\ 1 \in RoleIds
    BY DEF Names, RoleIds
  <2> QED BY <1>3, <2>1, FormsStay
<1>4. CASE \E s \in FileSizes : OnDrop(s)
  BY <1>4, DropsStay
<1>5. CASE ShowAvatarPopup \/ \E i \in 1 .. Limit : RemoveDropped(i)
  BY <1>5, DropsStay
<1>6. CASE MyAvatarArrives \/ UsersArrive \/ MessageTimer
  BY <1>6, MyAvatarStays, UsersStay, MessageTimerStays
<1>7. CASE ServeAccounts \/ ServeCreate \/ ServeRemove \/ AccountAnswer
  BY <1>7, ServeAccountsStays, ServeCreateStays, ServeRemoveStays, AccountAnswerStays
<1>8. CASE UploadFiles \/ ServeLoop \/ LoopArrives \/ ServeSetAvatar \/ SetAvatarArrives
  BY <1>8, UploadStays, ServeLoopStays, LoopAnswerStays, ServeSetAvatarStays, SetAvatarAnswerStays
<1> QED BY <1>1, <1>2, <1>3, <1>4, <1>5, <1>6, <1>7, <1>8 DEF AccountsNext

(* The inductive invariant of the pages that are about the home page, its    *)
(* clients, the project, a plug-in and a number edited in place.              *)
HomePagesInv ==
  /\ route = "home" => HomeInv
  /\ route = "clients" => ClientsInv
  /\ route = "value" => ValueInv
  /\ route = "project" => PluginsInv
  /\ route = "plugin" => PluginPageInv

LEMMA HomePagesInit == Init => HomePagesInv
<1> SUFFICES ASSUME Init PROVE HomePagesInv
  OBVIOUS
<1>1. /\ HomeInit /\ ClientsInit /\ ValueInit /\ PluginsInit /\ PluginPageInit
      /\ down = <<>>
      /\ route = "home" => up = HomeCalls
      /\ route = "clients" => up = ClientsCalls
      /\ route = "project" => up = PluginsCalls
  BY DEF Init
<1> QED BY <1>1, HomeInitSound, ClientsInitSound, ValueInitSound, PluginsInitSound, PluginPageInitSound
     DEF HomePagesInv

LEMMA HomePagesStep ==
  HomePagesInv /\ [Next]_<<route, calls, earlier, later>> => HomePagesInv'
<1> SUFFICES ASSUME HomePagesInv, [Next]_<<route, calls, earlier, later>> PROVE HomePagesInv'
  OBVIOUS
<1>1. /\ UNCHANGED route
      /\ route = "home" => HomeNext \/ UNCHANGED <<calls, vars_o>>
      /\ route = "clients" => ClientsNext \/ UNCHANGED <<calls, vars_n>>
      /\ route = "value" => ValueNext \/ UNCHANGED vars_y
      /\ route = "project" => PluginsNext \/ UNCHANGED <<calls, vars_q>>
      /\ route = "plugin" => PluginPageNext \/ UNCHANGED vars_p
  BY DEF Next, earlier, later
<1> QED BY <1>1, HomeStepSound, ClientsStepSound, ValueStepSound, PluginsStepSound, PluginPageStepSound
     DEF HomePagesInv

THEOREM HomeAlwaysSound == Spec => []HomeSound
<1>1. HomePagesInv => HomeSound
  BY HomeImplies, ClientsImply, PluginsImply
  DEF HomePagesInv, HomeSound, ValueInv, PluginPageInv
<1> QED BY HomePagesInit, HomePagesStep, <1>1, PTL DEF Spec

(* The same of the two pages that show the database.                         *)
DatabasePagesInv ==
  /\ route = "rdb" => RdbViewInv
  /\ route = "keytable" => KeyTableInv

LEMMA DatabasePagesInit == Init => DatabasePagesInv
<1> SUFFICES ASSUME Init PROVE DatabasePagesInv
  OBVIOUS
<1>1. /\ RdbInit /\ KeyTableInit /\ down = <<>>
      /\ route = "rdb" => up = RdbCalls
      /\ route = "keytable" => up = <<>>
  BY DEF Init
<1> QED BY <1>1, RdbViewInitSound, KeyTableInitSound DEF DatabasePagesInv

LEMMA DatabasePagesStep ==
  DatabasePagesInv /\ [Next]_<<route, calls, earlier, later>> => DatabasePagesInv'
<1> SUFFICES ASSUME DatabasePagesInv, [Next]_<<route, calls, earlier, later>> PROVE DatabasePagesInv'
  OBVIOUS
<1>1. /\ UNCHANGED route
      /\ route = "rdb" => RdbNext \/ UNCHANGED <<calls, vars_k>>
      /\ route = "keytable" => KeyTableNext \/ UNCHANGED <<calls, vars_t>>
  BY DEF Next, earlier
<1> QED BY <1>1, RdbViewStepSound, KeyTableStepSound DEF DatabasePagesInv

(* Whatever others do to the database and however quickly keys are selected, *)
(* the page comes to rest on the keys there are and on the value of the key  *)
(* that is selected, of its type, and the server sends it the changes of no  *)
(* other; the table shows what its search and its filter say, and a key is   *)
(* made as the dialog shows it (RdbViewer.tsx, rdb.ts, SearchBar.tsx).       *)
THEOREM DatabaseAlwaysSound == Spec => []DatabaseSound
<1>1. RdbViewInv => RdbViewTypeOK
  BY DEF RdbViewInv
<1>2. DatabasePagesInv => DatabaseSound
  BY <1>1, RdbViewImplies, KeyTableImplies DEF DatabasePagesInv, DatabaseSound
<1> QED BY DatabasePagesInit, DatabasePagesStep, <1>2, PTL DEF Spec

(* The same of the account page and of the login page.                       *)
AccountPagesInv ==
  /\ route = "dashboard" => AccountsInv
  /\ route = "login" => LoginInv

LEMMA AccountPagesInit == Init => AccountPagesInv
<1> SUFFICES ASSUME Init PROVE AccountPagesInv
  OBVIOUS
<1>1. /\ AccountsInit /\ LoginInit /\ down = <<>>
      /\ route = "dashboard" => up = AccountsCalls
  BY DEF Init
<1> QED BY <1>1, AccountsBegin, LoginInitSound DEF AccountPagesInv

LEMMA AccountPagesStep ==
  AccountPagesInv /\ [Next]_<<route, calls, earlier, later>> => AccountPagesInv'
<1> SUFFICES ASSUME AccountPagesInv, [Next]_<<route, calls, earlier, later>> PROVE AccountPagesInv'
  OBVIOUS
<1>1. /\ UNCHANGED route
      /\ route = "dashboard" => AccountsNext \/ UNCHANGED <<calls, vars_a>>
      /\ route = "login" => LoginNext \/ UNCHANGED vars_i
  BY DEF Next, earlier, later
<1> QED BY <1>1, AccountsStepSound, LoginStepSound DEF AccountPagesInv

(* An administrator is offered who and what the server allows, and nobody     *)
(* who was deleted; what is told of a form is taken away by its own timer;    *)
(* the avatar is a file that arrived whole, however many uploads are under    *)
(* way (Dashboard.tsx, FileDropUpload.tsx).  The banner of a refused login is *)
(* shown until the timer of the last refusal ends (login.tsx).               *)
THEOREM AccountsAlwaysSound == Spec => []AccountsSound
<1>1. LoginInv => LoginTypeOK /\ BannerLasts
  BY DEF LoginInv
<1>2. AccountPagesInv => AccountsSound
  BY <1>1, AccountsImply DEF AccountPagesInv, AccountsSound
<1> QED BY AccountPagesInit, AccountPagesStep, <1>2, PTL DEF Spec
==============================================================================
