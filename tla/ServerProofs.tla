---------------------------- MODULE ServerProofs -----------------------------
(***************************************************************************)
(* The accounts and the process that serves them, for any number of users, *)
(* requests and stops.  Of every request in flight the inductive invariant *)
(* says that the row it is about to save has the phone number and password *)
(* that are stored, and, field by field, what the profile updates it had   *)
(* seen have left; of the process, that it seeds only before the first     *)
(* registration.                                                           *)
(***************************************************************************)
EXTENDS Server, StartupProofs, HandlersProofs

(* What profile update q wrote in field f of user u gave way to an update  *)
(* that changed the field as well or overlapped with q.                    *)
Superseded(u, f, q) ==
    \E p \in Amended(u) \ (seen[q] \cup {q}) : q \notin seen[p] \/ p \in Changed(u, f)

(* What a request in flight is about to write.                             *)
InsertingUser(r) ==
    /\ call[r] \in Registration /\ draft[r] \in Row
    /\ draft[r].phone = TrimSpace(call[r].phone) /\ draft[r].password = call[r].password

SameCredentials(row, u) ==
    FindUserByID(u) /\ row.phone = user[u].phone /\ row.password = user[u].password

DraftField(r, f) ==
    IF call[r].profile[f] # None
    THEN draft[r].profile[f] = call[r].profile[f]
    ELSE \A q \in seen[r] : q \in Changed(call[r].id, f) =>
            \/ draft[r].profile[f] = call[q].profile[f]
            \/ Superseded(call[r].id, f, q)

SavingUser(r) ==
    /\ call[r] \in Amendment /\ draft[r] \in Row
    /\ SameCredentials(draft[r], call[r].id)
    /\ \A f \in Field : DraftField(r, f)

TypedRequest(r) ==
    /\ call[r] \in Registration \cup Amendment \cup {NoCall}
    /\ draft[r] \in Row \cup {NoDraft}

AccountInv(r) ==
    /\ TypedRequest(r)
    /\ pc[r] = "insert" => InsertingUser(r)
    /\ pc[r] = "save" => SavingUser(r)

(* What the table owes to the requests that took effect.                   *)
FieldKept(u, f) ==
    \A q \in Changed(u, f) :
        user[u].profile[f] = call[q].profile[f] \/ Superseded(u, f, q)

TableInv ==
    /\ user \in [User -> Row \cup {NoUser}]
    /\ \A u \in User : Amended(u) # {} => FindUserByID(u)
    /\ \A u \in User, f \in Field : FieldKept(u, f)
    /\ PhoneIsUnique /\ CanLogIn

UsersInv == CallsInv /\ (\A r \in Request : AccountInv(r)) /\ TableInv

LEMMA AccountKinds ==
    /\ \A c \in Registration : c.op = "register" /\ c.phone \in Typed /\ c.password \in Password
    /\ \A c \in Amendment : c.op = "profile" /\ c.id \in User /\ c.profile \in Profile
    /\ NoCall.op = "none"
BY DEF Registration, Amendment, NoCall

(* What is typed is trimmed to a number, and login finds by that number    *)
(* whoever types it without blanks.                                        *)
LEMMA Trimmed ==
    ASSUME NEW t \in Typed, NEW w
    PROVE  /\ TrimSpace(t) \in Number
           /\ LogsIn([t EXCEPT !.padded = FALSE], w) <=> Authenticates(TrimSpace(t), w)
<1>1. t \in [text : Number, padded : BOOLEAN]
  BY DEF Typed
<1>2. [t EXCEPT !.padded = FALSE].padded = FALSE /\ [t EXCEPT !.padded = FALSE].text = t.text
  BY <1>1
<1> QED
  BY <1>1, <1>2 DEF TrimSpace, LogsIn

LEMMA TrimmedLater ==
    ASSUME NEW t \in Typed, NEW w
    PROVE  LogsIn([t EXCEPT !.padded = FALSE], w)' <=> Authenticates(TrimSpace(t), w)'
<1>1. t \in [text : Number, padded : BOOLEAN]
  BY DEF Typed
<1>2. [t EXCEPT !.padded = FALSE].padded = FALSE /\ [t EXCEPT !.padded = FALSE].text = t.text
  BY <1>1
<1> QED
  BY <1>1, <1>2 DEF TrimSpace, LogsIn

(* A row is no missing row, since a user has a phone number.               *)
LEMMA RowIsUser == NoUser \notin Row
<1>1. NoUser.phone = None /\ \A row \in Row : row.phone \in Number
  BY DEF NoUser, Row
<1> QED
  BY <1>1, UsersAssumption

(* What was amended stays so, in the same order.                           *)
LEMMA AmendedGrow ==
    ASSUME HistoryGrows
    PROVE  \A u \in User, q \in Written :
               /\ q \in Amended(u)' <=> q \in Amended(u)
               /\ \A f \in Field : q \in Changed(u, f)' <=> q \in Changed(u, f)
BY DEF HistoryGrows, Amended, Changed

LEMMA AmendedSame ==
    ASSUME HistoryGrows, Written' = Written
    PROVE  \A u \in User : Amended(u)' = Amended(u)
BY DEF HistoryGrows, Amended

LEMMA SupersededStays ==
    ASSUME HistoryGrows, NEW u \in User, NEW f \in Field, NEW q \in Written, Superseded(u, f, q)
    PROVE  Superseded(u, f, q)'
<1>1. PICK p \in Amended(u) \ (seen[q] \cup {q}) : q \notin seen[p] \/ p \in Changed(u, f)
  BY DEF Superseded
<1>2. p \in Written
  BY DEF Amended
<1>3. seen'[q] = seen[q] /\ seen'[p] = seen[p]
  BY <1>2 DEF HistoryGrows
<1>4. p \in Amended(u)' /\ (p \in Changed(u, f) => p \in Changed(u, f)')
  BY <1>2, AmendedGrow
<1> QED
  BY <1>1, <1>3, <1>4 DEF Superseded

(* No step changes the phone number or the password of a user.             *)
CredentialsStay ==
    \A u \in User : FindUserByID(u) =>
        /\ FindUserByID(u)'
        /\ user'[u].phone = user[u].phone /\ user'[u].password = user[u].password

(* A request that rests is as it was.                                      *)
LEMMA RestingAccount ==
    ASSUME CallsInv, HistoryGrows, CredentialsStay,
           NEW q \in Request, AccountInv(q), Rests(q)
    PROVE  AccountInv(q)'
<1>1. /\ pc'[q] = pc[q] /\ call'[q] = call[q] /\ draft'[q] = draft[q] /\ seen'[q] = seen[q]
      /\ seen[q] \subseteq Written
  BY DEF Rests, CallsInv
<1>2. TypedRequest(q)' /\ (InsertingUser(q) => InsertingUser(q)')
  BY <1>1 DEF AccountInv, TypedRequest, InsertingUser
<1>3. ASSUME SavingUser(q) PROVE SavingUser(q)'
  <2> DEFINE u == call[q].id
  <2>1. u \in User
    BY <1>3, AccountKinds DEF SavingUser
  <2>2. call'[q].id = u
    BY <1>1
  <2>3. SameCredentials(draft[q], u)'
    BY <1>1, <1>3, <2>1, <2>2 DEF SavingUser, SameCredentials, CredentialsStay
  <2>4. ASSUME NEW f \in Field PROVE DraftField(q, f)'
    <3>1. ASSUME call[q].profile[f] = None, NEW p \in seen[q], p \in Changed(u, f)'
          PROVE  draft[q].profile[f] = call'[p].profile[f] \/ Superseded(u, f, p)'
      <4>1. p \in Written /\ call'[p] = call[p]
        BY <1>1 DEF HistoryGrows
      <4>2. p \in Changed(u, f)
        BY <2>1, <2>2, <3>1, <4>1 DEF HistoryGrows, Changed, Amended
      <4>3. draft[q].profile[f] = call[p].profile[f] \/ Superseded(u, f, p)
        BY <1>3, <3>1, <4>2 DEF SavingUser, DraftField
      <4> QED
        BY <4>1, <4>3, <2>1, <2>2, SupersededStays
    <3> QED
      BY <1>1, <1>3, <3>1 DEF SavingUser, DraftField
  <2> QED
    BY <1>1, <1>3, <2>3, <2>4 DEF SavingUser
<1> QED
  BY <1>1, <1>2, <1>3 DEF AccountInv

(* The table keeps what it owes when no profile update is written and the  *)
(* profiles of its users stay.                                             *)
LEMMA TableRests ==
    ASSUME TableInv, HistoryGrows, user' = user,
           \A u \in User : Amended(u)' = Amended(u),
           CanLogIn'
    PROVE  TableInv'
<1>1. ASSUME NEW u \in User, NEW f \in Field PROVE FieldKept(u, f)'
  <2>1. ASSUME NEW q \in Changed(u, f)'
        PROVE  user[u].profile[f] = call'[q].profile[f] \/ Superseded(u, f, q)'
    <3>1. q \in Amended(u) /\ q \in Written /\ call'[q] = call[q]
      BY DEF Changed, Amended, HistoryGrows
    <3>2. q \in Changed(u, f)
      BY <3>1 DEF Changed
    <3>3. user[u].profile[f] = call[q].profile[f] \/ Superseded(u, f, q)
      BY <3>2 DEF TableInv, FieldKept
    <3> QED
      BY <3>1, <3>3, SupersededStays
  <2> QED
    BY <2>1 DEF FieldKept
<1>2. PhoneIsUnique'
  BY DEF TableInv, PhoneIsUnique, FindByPhone
<1> QED
  BY <1>1, <1>2 DEF TableInv, FindUserByID

(* Who could log in still can.                                             *)
LEMMA StillLogsIn ==
    ASSUME UsersInv, CredentialsStay, NEW q \in Request, HasAccount(q), call'[q] = call[q]
    PROVE  LogsIn([call[q].phone EXCEPT !.padded = FALSE], call[q].password)'
<1>1. call[q] \in Registration /\ call[q].phone \in Typed
  BY AccountKinds DEF UsersInv, AccountInv, TypedRequest, HasAccount
<1> DEFINE p == TrimSpace(call[q].phone)
<1>2. p \in Number /\ Authenticates(p, call[q].password)
  BY <1>1, Trimmed DEF UsersInv, TableInv, CanLogIn
<1>3. PICK u \in FindByPhone(p) : user[u].password = call[q].password
  BY <1>2 DEF Authenticates
<1>4. u \in User /\ user[u].phone = p
  BY <1>3 DEF FindByPhone
<1>5. FindUserByID(u)
  BY <1>2, <1>4, UsersAssumption DEF FindUserByID, NoUser
<1>6. user'[u].phone = p /\ user'[u].password = call[q].password
  BY <1>3, <1>4, <1>5 DEF CredentialsStay
<1>7. Authenticates(p, call[q].password)'
  BY <1>4, <1>6 DEF Authenticates, FindByPhone
<1> QED
  BY <1>1, <1>7, TrimmedLater

LEMMA LogInStays ==
    ASSUME UsersInv, CredentialsStay,
           \A q \in Request : HasAccount(q)' => HasAccount(q) /\ call'[q] = call[q]
    PROVE  CanLogIn'
<1>1. ASSUME NEW q \in Request, HasAccount(q)'
      PROVE  LogsIn([call[q].phone EXCEPT !.padded = FALSE], call[q].password)'
  BY <1>1, StillLogsIn
<1> QED
  BY <1>1 DEF CanLogIn

(* A step that does not write to the table.                                *)
LEMMA QuietUsers ==
    ASSUME UsersInv, CallsInv', HistoryGrows, Written' = Written, user' = user,
           \A q \in Request : Rests(q) \/ AccountInv(q)',
           \A q \in Request : HasAccount(q)' => HasAccount(q) /\ call'[q] = call[q]
    PROVE  UsersInv'
<1>1. CredentialsStay
  BY DEF CredentialsStay, FindUserByID
<1>2. \A q \in Request : AccountInv(q)'
  BY <1>1, RestingAccount DEF UsersInv
<1>3. TableInv'
  BY <1>1, LogInStays, AmendedSame, TableRests DEF UsersInv
<1> QED
  BY <1>2, <1>3 DEF UsersInv

LEMMA AnsweredUser ==
    ASSUME UsersInv, NEW r \in Request, pc[r] # "done", NEW how \in Reply,
           Answer(r, how), user' = user
    PROVE  UsersInv'
<1>1. /\ CallsInv' /\ OthersRest(r) /\ HistoryGrows /\ Written' = Written
      /\ pc'[r] = "done" /\ call'[r] = NoCall /\ draft'[r] = NoDraft
  BY Answered DEF UsersInv
<1>2. AccountInv(r)'
  BY <1>1 DEF AccountInv, TypedRequest
<1>3. \A q \in Request : Rests(q) \/ q = r
  BY <1>1 DEF OthersRest
<1>4. \A q \in Request : HasAccount(q)' => HasAccount(q) /\ call'[q] = call[q]
  BY <1>1, <1>3, AccountKinds DEF Rests, HasAccount
<1> QED
  BY <1>1, <1>2, <1>3, <1>4, QuietUsers

LEMMA FailedUser ==
    ASSUME UsersInv, NEW r \in Request, pc[r] # "done", Fail(r) \/ InternalError(r), user' = user
    PROVE  UsersInv'
BY AnsweredUser DEF Fail, InternalError, Reply

LEMMA HeldUser ==
    ASSUME UsersInv, NEW r \in Request, pc[r] # "done", NEW c, NEW row,
           NEW write \in {"insert", "save"}, Hold(r, c, row, write),
           AccountInv(r)', user' = user
    PROVE  UsersInv'
<1>1. /\ CallsInv' /\ OthersRest(r) /\ HistoryGrows /\ Written' = Written
      /\ pc'[r] = write
  BY Holds DEF UsersInv
<1>2. \A q \in Request : Rests(q) \/ q = r
  BY <1>1 DEF OthersRest
<1>3. \A q \in Request : HasAccount(q)' => HasAccount(q) /\ call'[q] = call[q]
  BY <1>1, <1>2 DEF Rests, HasAccount
<1> QED
  BY <1>1, <1>2, <1>3, QuietUsers

LEMMA KilledUsers ==
    ASSUME UsersInv, KillCalls, user' = user
    PROVE  UsersInv'
<1>1. /\ CallsInv' /\ HistoryGrows /\ Written' = Written
      /\ \A q \in Request :
            /\ pc'[q] \notin {"insert", "save"} /\ draft'[q] = NoDraft
            /\ \/ call'[q] = NoCall
               \/ call'[q] = call[q] /\ pc'[q] = pc[q]
  BY Killed DEF UsersInv
<1>2. \A q \in Request : AccountInv(q)'
  BY <1>1 DEF UsersInv, AccountInv, TypedRequest
<1>3. reply' = reply
  BY DEF KillCalls
<1>4. \A q \in Request : HasAccount(q)' => HasAccount(q) /\ call'[q] = call[q]
  BY <1>1, <1>3, AccountKinds DEF HasAccount
<1> QED
  BY <1>1, <1>2, <1>4, QuietUsers

LEMMA RestingUsers ==
    ASSUME UsersInv, UNCHANGED accounts
    PROVE  UsersInv'
<1>1. CallsInv' /\ HistoryGrows
  BY CallsRest DEF UsersInv, accounts
<1>2. Written' = Written /\ user' = user /\ \A q \in Request : Rests(q)
  BY DEF accounts, calls, Written, Rests
<1>3. \A q \in Request : pc'[q] = pc[q] /\ reply'[q] = reply[q] /\ call'[q] = call[q]
  BY DEF accounts, calls
<1> QED
  BY <1>1, <1>2, <1>3, QuietUsers DEF HasAccount

(***************************************************************************)
(* The handlers                                                            *)
(***************************************************************************)
LEMMA PostRegisterStep ==
    ASSUME UsersInv, NEW r \in Request, PostRegister(r)
    PROVE  UsersInv'
<1>1. pc[r] # "done" /\ user' = user
  BY DEF PostRegister
<1>2. CASE Fail(r) \/ InternalError(r)
  BY <1>1, <1>2, FailedUser
<1>3. ASSUME NEW t \in Typed, NEW w \in Password,
             Hold(r, [op |-> "register", id |-> None, phone |-> t, password |-> w],
                  [NoUser EXCEPT !.phone = TrimSpace(t), !.password = w], "insert")
      PROVE  UsersInv'
  <2> DEFINE c == [op |-> "register", id |-> None, phone |-> t, password |-> w]
             row == [NoUser EXCEPT !.phone = TrimSpace(t), !.password = w]
  <2>1. pc'[r] = "insert" /\ call'[r] = c /\ draft'[r] = row
    BY <1>1, <1>3, Holds DEF UsersInv
  <2>2. c \in Registration /\ c.phone = t /\ c.password = w
    BY DEF Registration
  <2>3. NoUser \in [phone : {None}, password : {None}, profile : Profile]
    <3>1. [f \in Field |-> None] \in Profile
      BY DEF Profile
    <3> QED
      BY <3>1 DEF NoUser
  <2>4. row \in Row /\ row.phone = TrimSpace(t) /\ row.password = w
    BY <2>3, Trimmed DEF Row
  <2> HIDE DEF c, row
  <2>5. AccountInv(r)'
    BY <2>1, <2>2, <2>4 DEF AccountInv, TypedRequest, InsertingUser
  <2> QED
    BY <1>1, <1>3, <2>5, HeldUser DEF c, row
<1> QED
  BY <1>2, <1>3 DEF PostRegister, RegisterUser

LEMMA PostLoginStep ==
    ASSUME UsersInv, NEW r \in Request, PostLogin(r)
    PROVE  UsersInv'
<1>1. pc[r] # "done" /\ user' = user
  BY DEF PostLogin
<1>2. Fail(r) \/ InternalError(r) \/ Answer(r, "ok")
  BY DEF PostLogin, Login
<1> QED
  BY <1>1, <1>2, FailedUser, AnsweredUser DEF Reply

LEMMA PutMeStep ==
    ASSUME UsersInv, NEW r \in Request, PutMe(r)
    PROVE  UsersInv'
<1>1. pc[r] # "done" /\ user' = user
  BY DEF PutMe
<1>2. CASE Fail(r) \/ InternalError(r)
  BY <1>1, <1>2, FailedUser
<1>3. ASSUME NEW u \in User, NEW new \in Profile, FindUserByID(u),
             Hold(r, [op |-> "profile", id |-> u, profile |-> new],
                  [user[u] EXCEPT !.profile = Overlay(@, new)], "save")
      PROVE  UsersInv'
  <2> DEFINE c == [op |-> "profile", id |-> u, profile |-> new]
             row == [user[u] EXCEPT !.profile = Overlay(@, new)]
  <2>1. /\ HistoryGrows /\ Written' = Written
        /\ pc'[r] = "save" /\ call'[r] = c /\ draft'[r] = row /\ seen'[r] = Written
    BY <1>1, <1>3, Holds DEF UsersInv
  <2>2. c \in Amendment /\ c.id = u /\ c.profile = new
    BY DEF Amendment
  <2>3. user[u] \in Row
    BY <1>3 DEF UsersInv, TableInv, FindUserByID
  <2>4. Overlay(user[u].profile, new) \in Profile
    BY <2>3 DEF Overlay, Profile, Row
  <2>5. /\ row \in Row /\ row.phone = user[u].phone /\ row.password = user[u].password
        /\ row.profile = Overlay(user[u].profile, new)
    BY <2>3, <2>4 DEF Row
  <2>6. \A f \in Field : row.profile[f] = IF new[f] = None THEN user[u].profile[f] ELSE new[f]
    BY <2>5 DEF Overlay
  <2> HIDE DEF c, row
  <2>7. SameCredentials(draft[r], call[r].id)'
    BY <1>1, <1>3, <2>1, <2>2, <2>5 DEF SameCredentials, FindUserByID
  <2>8. ASSUME NEW f \in Field PROVE DraftField(r, f)'
    <3>1. ASSUME new[f] = None, NEW q \in seen'[r], q \in Changed(u, f)'
          PROVE  row.profile[f] = call'[q].profile[f] \/ Superseded(u, f, q)'
      <4>1. q \in Written /\ call'[q] = call[q]
        BY <2>1, <3>1 DEF HistoryGrows
      <4>2. q \in Changed(u, f)
        BY <4>1, <2>1, <3>1, AmendedGrow
      <4>3. user[u].profile[f] = call[q].profile[f] \/ Superseded(u, f, q)
        BY <4>2 DEF UsersInv, TableInv, FieldKept
      <4> QED
        BY <4>1, <4>3, <2>1, <2>6, <3>1, SupersededStays
    <3> QED
      BY <3>1, <2>1, <2>2, <2>6 DEF DraftField
  <2>9. SavingUser(r)'
    BY <2>1, <2>2, <2>5, <2>7, <2>8 DEF SavingUser
  <2>10. AccountInv(r)'
    BY <2>1, <2>2, <2>5, <2>9 DEF AccountInv, TypedRequest
  <2> QED
    BY <1>1, <1>3, <2>10, HeldUser DEF c, row
<1> QED
  BY <1>2, <1>3 DEF PutMe, UpdateProfile

(***************************************************************************)
(* The writes                                                              *)
(***************************************************************************)
LEMMA TakenUsers ==
    ASSUME UsersInv, CredentialsStay, NEW r \in Request, pc[r] # "done", NEW c, Took(r, c),
           c \in Registration \cup Amendment
    PROVE  /\ \A q \in Request : AccountInv(q)'
           /\ CallsInv' /\ HistoryGrows /\ Written' = Written \cup {r} /\ r \notin Written
           /\ pc'[r] = "done" /\ call'[r] = c /\ seen' = seen
           /\ \A q \in Request : r \notin seen[q]
           /\ \A q \in Request \ {r} :
                 pc'[q] = pc[q] /\ reply'[q] = reply[q] /\ call'[q] = call[q]
<1>1. /\ CallsInv' /\ OthersRest(r) /\ HistoryGrows
      /\ Written' = Written \cup {r} /\ r \notin Written
      /\ pc'[r] = "done" /\ call'[r] = c /\ draft'[r] = NoDraft
      /\ seen' = seen /\ \A q \in Request : r \notin seen[q]
  BY Taken DEF UsersInv
<1>2. AccountInv(r)'
  BY <1>1 DEF AccountInv, TypedRequest
<1>3. \A q \in Request \ {r} : AccountInv(q)'
  BY <1>1, RestingAccount DEF UsersInv, OthersRest
<1>4. \A q \in Request \ {r} : pc'[q] = pc[q] /\ reply'[q] = reply[q] /\ call'[q] = call[q]
  BY <1>1 DEF OthersRest, Rests
<1> QED
  BY <1>1, <1>2, <1>3, <1>4

LEMMA AmendedAfter ==
    ASSUME HistoryGrows, NEW r \in Request, r \notin Written, Written' = Written \cup {r}
    PROVE  \A u \in User : Amended(u)' =
               IF call'[r].op = "profile" /\ call'[r].id = u
               THEN Amended(u) \cup {r} ELSE Amended(u)
BY DEF HistoryGrows, Amended

LEMMA CreateUserStep ==
    ASSUME UsersInv, NEW r \in Request, CreateUser(r)
    PROVE  UsersInv'
<1>1. pc[r] = "insert" /\ InsertingUser(r)
  BY DEF CreateUser, UsersInv, AccountInv
<1>2. CASE InternalError(r) /\ user' = user
  BY <1>1, <1>2, FailedUser
<1>3. ASSUME FindByPhone(draft[r].phone) = {}, NEW u \in User, ~FindUserByID(u),
             user' = [user EXCEPT ![u] = draft[r]], Took(r, [call[r] EXCEPT !.id = u])
      PROVE  UsersInv'
  <2> DEFINE c == [call[r] EXCEPT !.id = u]
  <2>1. /\ c \in Registration /\ c.op = "register"
        /\ TrimSpace(c.phone) = draft[r].phone /\ c.password = draft[r].password
        /\ draft[r] \in Row
    BY <1>1 DEF InsertingUser, Registration
  <2>2. /\ user' \in [User -> Row \cup {NoUser}]
        /\ user'[u] = draft[r] /\ \A v \in User \ {u} : user'[v] = user[v]
    BY <1>3, <2>1 DEF UsersInv, TableInv
  <2>3. CredentialsStay
    BY <1>3, <2>2 DEF CredentialsStay, FindUserByID
  <2>4. /\ \A q \in Request : AccountInv(q)'
        /\ CallsInv' /\ HistoryGrows /\ Written' = Written \cup {r} /\ r \notin Written
        /\ call'[r] = c
        /\ \A q \in Request \ {r} :
              pc'[q] = pc[q] /\ reply'[q] = reply[q] /\ call'[q] = call[q]
    BY <1>1, <1>3, <2>1, <2>3, TakenUsers
  <2> HIDE DEF c
  <2>5. \A v \in User : Amended(v)' = Amended(v)
    BY <2>1, <2>4, AmendedAfter
  <2>6. Amended(u) = {}
    BY <1>3 DEF UsersInv, TableInv
  <2>7. \A v \in User : Amended(v) # {} => FindUserByID(v)'
    BY <2>2, <2>6 DEF UsersInv, TableInv, FindUserByID
  <2>8. ASSUME NEW v \in User, NEW f \in Field PROVE FieldKept(v, f)'
    <3>1. ASSUME NEW q \in Changed(v, f)'
          PROVE  user'[v].profile[f] = call'[q].profile[f] \/ Superseded(v, f, q)'
      <4>1. q \in Amended(v) /\ q \in Written /\ call'[q] = call[q]
        BY <2>4, <2>5 DEF Changed, Amended, HistoryGrows
      <4>2. q \in Changed(v, f) /\ user'[v] = user[v]
        BY <4>1, <2>2, <2>6, <3>1 DEF Changed
      <4>3. user[v].profile[f] = call[q].profile[f] \/ Superseded(v, f, q)
        BY <4>2 DEF UsersInv, TableInv, FieldKept
      <4> QED
        BY <4>1, <4>2, <4>3, <2>4, SupersededStays
    <3> QED
      BY <3>1 DEF FieldKept
  <2>9. PhoneIsUnique'
    <3>1. ASSUME NEW p \in Number, NEW v \in User, NEW w \in User,
                 user'[v].phone = p, user'[w].phone = p
          PROVE  v = w
      <4>1. \A x \in User : user[x].phone # draft[r].phone
        BY <1>3 DEF FindByPhone
      <4>2. CASE v = u \/ w = u
        BY <4>1, <4>2, <3>1, <2>2
      <4>3. CASE v # u /\ w # u
        BY <4>3, <3>1, <2>2 DEF UsersInv, TableInv, PhoneIsUnique, FindByPhone
      <4> QED
        BY <4>2, <4>3
    <3> QED
      BY <3>1 DEF PhoneIsUnique, FindByPhone
  <2>10. CanLogIn'
    <3>1. ASSUME NEW q \in Request, HasAccount(q)'
          PROVE  LogsIn([call[q].phone EXCEPT !.padded = FALSE], call[q].password)'
      <4>1. CASE q = r
        <5>1. /\ user'[u].phone = TrimSpace(call'[q].phone)
              /\ user'[u].password = call'[q].password /\ call'[q].phone \in Typed
          BY <4>1, <2>1, <2>2, <2>4, AccountKinds
        <5>2. Authenticates(TrimSpace(call[q].phone), call[q].password)'
          BY <5>1 DEF Authenticates, FindByPhone
        <5> QED
          BY <5>1, <5>2, TrimmedLater
      <4>2. CASE q # r
        <5>1. HasAccount(q) /\ call'[q] = call[q]
          BY <3>1, <4>2, <2>4 DEF HasAccount
        <5> QED
          BY <5>1, <2>3, StillLogsIn
      <4> QED
        BY <4>1, <4>2
    <3> QED
      BY <3>1 DEF CanLogIn
  <2> QED
    BY <2>2, <2>4, <2>5, <2>7, <2>8, <2>9, <2>10 DEF UsersInv, TableInv
<1> QED
  BY <1>2, <1>3 DEF CreateUser

LEMMA UpdateUserStep ==
    ASSUME UsersInv, NEW r \in Request, UpdateUser(r)
    PROVE  UsersInv'
<1>1. pc[r] = "save" /\ SavingUser(r)
  BY DEF UpdateUser, UsersInv, AccountInv
<1>2. CASE InternalError(r) /\ user' = user
  BY <1>1, <1>2, FailedUser
<1>3. CASE user' = [user EXCEPT ![call[r].id] = draft[r]] /\ Took(r, call[r])
  <2>1. PICK u \in User : u = call[r].id
    BY <1>1, AccountKinds DEF SavingUser
  <2>2. /\ call[r] \in Amendment /\ call[r].op = "profile" /\ draft[r] \in Row
        /\ FindUserByID(u)
        /\ draft[r].phone = user[u].phone /\ draft[r].password = user[u].password
    BY <1>1, <2>1, AccountKinds DEF SavingUser, SameCredentials
  <2>3. /\ user' \in [User -> Row \cup {NoUser}]
        /\ user'[u] = draft[r] /\ \A v \in User \ {u} : user'[v] = user[v]
    BY <1>3, <2>1, <2>2 DEF UsersInv, TableInv
  <2>4. FindUserByID(u)'
    BY <2>2, <2>3, RowIsUser DEF FindUserByID
  <2>5. CredentialsStay
    BY <2>2, <2>3, <2>4 DEF CredentialsStay, FindUserByID
  <2>6. /\ \A q \in Request : AccountInv(q)'
        /\ CallsInv' /\ HistoryGrows /\ Written' = Written \cup {r} /\ r \notin Written
        /\ call'[r] = call[r] /\ seen' = seen
        /\ \A q \in Request : r \notin seen[q]
        /\ \A q \in Request \ {r} :
              pc'[q] = pc[q] /\ reply'[q] = reply[q] /\ call'[q] = call[q]
    BY <1>1, <1>3, <2>2, <2>5, TakenUsers
  <2>7. \A v \in User : Amended(v)' = IF v = u THEN Amended(v) \cup {r} ELSE Amended(v)
    BY <2>1, <2>2, <2>6, AmendedAfter
  <2>8. \A v \in User : Amended(v)' # {} => FindUserByID(v)'
    BY <2>3, <2>4, <2>7 DEF UsersInv, TableInv, FindUserByID
  <2>9. \A v \in User : user'[v].phone = user[v].phone
    BY <2>2, <2>3
  <2>10. PhoneIsUnique'
    BY <2>9 DEF UsersInv, TableInv, PhoneIsUnique, FindByPhone
  <2>11. CanLogIn'
    <3>1. call'[r].op # "register"
      BY <2>2, <2>6
    <3>2. \A q \in Request : HasAccount(q)' => HasAccount(q) /\ call'[q] = call[q]
      BY <3>1, <2>6 DEF HasAccount
    <3> QED
      BY <3>2, <2>5, LogInStays
  <2>12. ASSUME NEW v \in User, NEW f \in Field, NEW q \in Changed(v, f)'
         PROVE  user'[v].profile[f] = call'[q].profile[f] \/ Superseded(v, f, q)'
    <3>1. q \in Amended(v)' /\ q \in Request /\ call'[q].profile[f] # None
      BY DEF Changed, Amended, Written
    <3>2. CASE v # u
      <4>1. q \in Amended(v) /\ q \in Written /\ call'[q] = call[q] /\ user'[v] = user[v]
        BY <3>1, <3>2, <2>3, <2>6, <2>7 DEF Amended, HistoryGrows
      <4>2. user[v].profile[f] = call[q].profile[f] \/ Superseded(v, f, q)
        BY <4>1, <3>1 DEF UsersInv, TableInv, FieldKept, Changed
      <4> QED
        BY <4>1, <4>2, <2>6, SupersededStays
    <3>3. CASE v = u /\ q = r
      BY <3>1, <3>3, <1>1, <2>3, <2>6 DEF SavingUser, DraftField
    <3>4. CASE v = u /\ q # r
      <4>1. q \in Changed(u, f) /\ q \in Written /\ call'[q] = call[q]
        BY <3>1, <3>4, <2>6, <2>7 DEF Changed, Amended, HistoryGrows
      <4>2. r \in Amended(u)' /\ r \notin seen'[q]
        BY <3>1, <2>6, <2>7
      <4>3. CASE call[r].profile[f] # None
        <5>1. r \in Changed(u, f)'
          BY <4>2, <4>3, <2>6 DEF Changed
        <5> QED
          BY <5>1, <4>2, <3>4 DEF Superseded
      <4>4. CASE call[r].profile[f] = None /\ q \notin seen[r]
        BY <4>4, <4>2, <3>4, <2>6 DEF Superseded
      <4>5. CASE call[r].profile[f] = None /\ q \in seen[r]
        <5>1. draft[r].profile[f] = call[q].profile[f] \/ Superseded(u, f, q)
          BY <4>1, <4>5, <1>1, <2>1 DEF SavingUser, DraftField
        <5> QED
          BY <5>1, <4>1, <3>4, <2>3, <2>6, SupersededStays
      <4> QED
        BY <4>3, <4>4, <4>5
    <3> QED
      BY <3>2, <3>3, <3>4
  <2>13. \A v \in User, f \in Field : FieldKept(v, f)'
    BY <2>12 DEF FieldKept
  <2> QED
    BY <2>3, <2>6, <2>8, <2>10, <2>11, <2>13 DEF UsersInv, TableInv
<1> QED
  BY <1>2, <1>3 DEF UpdateUser

(***************************************************************************)
(* The process and the accounts together                                   *)
(***************************************************************************)
(* Who is stored has been counted as registered.                           *)
Joined == (\E u \in User : FindUserByID(u)) => registered > 0

ServerInv == IInv /\ UsersInv /\ Joined /\ SeededBeforeRegistered

LEMMA UsersStart == UsersInit => UsersInv
<1> SUFFICES ASSUME UsersInit PROVE UsersInv
  OBVIOUS
<1>1. CallsInv
  BY CallsStart DEF UsersInit
<1>2. Written = {} /\ \A u \in User : user[u] = NoUser
  BY DEF UsersInit, CallsInit, Written
<1>3. \A u \in User : Amended(u) = {} /\ \A f \in Field : Changed(u, f) = {}
  BY <1>2 DEF Amended, Changed
<1>4. \A p \in Number : FindByPhone(p) = {}
  BY <1>2, UsersAssumption DEF FindByPhone, NoUser
<1>5. TableInv
  BY <1>3, <1>4 DEF UsersInit, CallsInit, TableInv, FieldKept, PhoneIsUnique, CanLogIn, HasAccount
<1>6. \A r \in Request : AccountInv(r)
  BY DEF UsersInit, CallsInit, AccountInv, TypedRequest
<1> QED
  BY <1>1, <1>5, <1>6 DEF UsersInv

LEMMA ServerStarts == ServerInit => ServerInv
<1> SUFFICES ASSUME ServerInit PROVE ServerInv
  OBVIOUS
<1>1. IInv /\ UsersInv
  BY InitInOrder, UsersStart DEF ServerInit
<1>2. \A u \in User : user[u] = NoUser
  BY DEF ServerInit, UsersInit
<1> QED
  BY <1>1, <1>2 DEF ServerInv, Joined, SeededBeforeRegistered, FindUserByID

LEMMA ServeStep ==
    ASSUME ServerInv, NEW r \in Request, Serve(r)
    PROVE  ServerInv'
<1>1. phase = "serving" /\ UsersStep(r) /\ (Register \/ UNCHANGED vars)
  BY DEF Serve
<1>2. IInv'
  BY <1>1, NextInOrder DEF ServerInv, Next
<1>3. UsersInv'
  BY <1>1, PostRegisterStep, PostLoginStep, PutMeStep, CreateUserStep, UpdateUserStep
  DEF ServerInv, UsersStep, AccountStep
<1>4. phase' = "serving"
  BY <1>1 DEF Register, vars
<1>5. registered \in Nat
  BY StartupAssumption DEF ServerInv, IInv, Ordered, TypeOK
<1>6. Joined'
  <2>1. CASE \E u \in User : user[u] = NoUser /\ user'[u] # NoUser
    <3>1. registered' = registered + 1
      BY <2>1 DEF Serve, Register
    <3> QED
      BY <3>1, <1>5 DEF Joined
  <2>2. CASE ~ \E u \in User : user[u] = NoUser /\ user'[u] # NoUser
    <3>1. registered' = registered
      BY <2>2 DEF Serve, vars
    <3> QED
      BY <3>1, <2>2 DEF ServerInv, Joined, FindUserByID
  <2> QED
    BY <2>1, <2>2
<1> QED
  BY <1>2, <1>3, <1>4, <1>6 DEF ServerInv, SeededBeforeRegistered

LEMMA BootStep ==
    ASSUME ServerInv, Boot
    PROVE  ServerInv'
<1>1. IInv'
  BY NextInOrder DEF ServerInv, Boot, Next
<1>2. UsersInv'
  BY RestingUsers DEF ServerInv, Boot
<1>3. user' = user /\ registered' = registered
  BY DEF Boot, accounts, Start, CountUsers, Insert, Seeded
<1>4. Joined'
  BY <1>3 DEF ServerInv, Joined, FindUserByID
<1>5. ASSUME phase' = "seeding" PROVE \A u \in User : user[u] = NoUser
  <2>1. CASE phase = "seeding"
    BY <2>1 DEF ServerInv, SeededBeforeRegistered
  <2>2. CASE phase # "seeding"
    <3>1. CountUsers /\ ~UserExists
      BY <1>5, <2>2 DEF Boot, Start, CountUsers, Insert, Seeded, Dies
    <3>2. ~(registered > 0)
      BY <3>1 DEF UserExists
    <3> QED
      BY <3>2 DEF ServerInv, Joined, FindUserByID
  <2> QED
    BY <2>1, <2>2
<1> QED
  BY <1>1, <1>2, <1>3, <1>4, <1>5 DEF ServerInv, SeededBeforeRegistered

LEMMA StopsStep ==
    ASSUME ServerInv, Stop
    PROVE  ServerInv'
<1>1. IInv'
  BY NextInOrder DEF ServerInv, Stop, Next
<1>2. UsersInv'
  BY KilledUsers DEF ServerInv, Stop
<1>3. user' = user /\ registered' = registered /\ phase' = "down"
  BY DEF Stop, Crash, Dies
<1> QED
  BY <1>1, <1>2, <1>3 DEF ServerInv, Joined, FindUserByID, SeededBeforeRegistered

LEMMA ServerSteps == ServerInv /\ [ServerNext]_server => ServerInv'
<1> SUFFICES ASSUME ServerInv, [ServerNext]_server PROVE ServerInv'
  OBVIOUS
<1>1. CASE UNCHANGED server
  <2>1. IInv'
    BY <1>1, NextInOrder DEF ServerInv, server
  <2>2. UsersInv'
    BY <1>1, RestingUsers DEF ServerInv, server
  <2>3. UNCHANGED <<user, registered, phase>>
    BY <1>1 DEF server, vars, accounts
  <2> QED
    BY <2>1, <2>2, <2>3 DEF ServerInv, Joined, FindUserByID, SeededBeforeRegistered
<1> QED
  BY <1>1, ServeStep, BootStep, StopsStep DEF ServerNext

LEMMA ServerInvariant == ServerSpec => []ServerInv
BY ServerStarts, ServerSteps, PTL DEF ServerSpec

(* The tables and the requests keep their types.                           *)
THEOREM AccountsTyped == ServerSpec => []UsersTypeOK
<1>1. ServerInv => UsersTypeOK
  <2> SUFFICES ASSUME ServerInv PROVE UsersTypeOK
    OBVIOUS
  <2>1. call \in [Request -> Registration \cup Amendment \cup {NoCall}]
    <3>1. call = [r \in Request |-> call[r]]
      BY DEF ServerInv, UsersInv, CallsInv
    <3> QED
      BY <3>1 DEF ServerInv, UsersInv, AccountInv, TypedRequest
  <2>2. draft \in [Request -> Row \cup {NoDraft}]
    <3>1. draft = [r \in Request |-> draft[r]]
      BY DEF ServerInv, UsersInv, CallsInv
    <3> QED
      BY <3>1 DEF ServerInv, UsersInv, AccountInv, TypedRequest
  <2> QED
    BY <2>1, <2>2 DEF ServerInv, UsersInv, CallsInv, TableInv, UsersTypeOK
<1> QED
  BY <1>1, ServerInvariant, PTL

(* No phone number ever has two accounts.                                  *)
THEOREM OneAccountPerPhone == ServerSpec => []PhoneIsUnique
<1>1. ServerInv => PhoneIsUnique
  BY DEF ServerInv, UsersInv, TableInv
<1> QED
  BY <1>1, ServerInvariant, PTL

(* Whoever was told that the registration succeeded can log in ever after  *)
(* with the number without the blanks around it, if that leaves one.       *)
THEOREM RegisteredCanLogIn == ServerSpec => []CanLogIn
<1>1. ServerInv => CanLogIn
  BY DEF ServerInv, UsersInv, TableInv
<1> QED
  BY <1>1, ServerInvariant, PTL

(* A profile update is lost only to one that changed the same field or     *)
(* overlapped with it.                                                     *)
THEOREM ProfileKept == ServerSpec => []LostOnlyByOverlap
<1>1. ServerInv => LostOnlyByOverlap
  BY DEF ServerInv, UsersInv, TableInv, FieldKept, LostOnlyByOverlap, Superseded
<1> QED
  BY <1>1, ServerInvariant, PTL

(* The preset rows come before anybody who registers.                      *)
THEOREM PresetsComeFirst == ServerSpec => []SeededBeforeRegistered
<1>1. ServerInv => SeededBeforeRegistered
  BY DEF ServerInv
<1> QED
  BY <1>1, ServerInvariant, PTL

(* What is proved of the starts alone holds of the server that serves.     *)
THEOREM ServedPresets == ServerSpec => [](TypeOK /\ NoPresetTwice /\ ReferencesHold)
<1>1. ServerInv => TypeOK /\ NoPresetTwice /\ ReferencesHold
  BY InOrderMeans DEF ServerInv
<1> QED
  BY <1>1, ServerInvariant, PTL

(***************************************************************************)
(* What the server does to the start alone                                 *)
(***************************************************************************)
(* Seen without the accounts, the server that serves behaves as the start  *)
(* does by itself: a step of a request registers one more user or is not   *)
(* seen, a stop is a crash, and there is never a user too many.  So what   *)
(* holds of every behaviour of the start holds of the server, action       *)
(* properties included.                                                    *)
THEOREM ServerIsStartup == ServerSpec => Init /\ [][Next]_vars
<1>1. ServerInit => Init
  BY DEF ServerInit
<1>2. [ServerNext]_server => [Next]_vars
  <2> SUFFICES ASSUME [ServerNext]_server PROVE [Next]_vars
    OBVIOUS
  <2>1. CASE UNCHANGED server
    BY <2>1 DEF server
  <2>2. CASE Boot
    BY <2>2 DEF Boot, Next
  <2>3. CASE Stop
    BY <2>3 DEF Stop, Next
  <2>4. ASSUME NEW r \in Request, Serve(r) PROVE [Next]_vars
    BY <2>4 DEF Serve, Next
  <2> QED
    BY <2>1, <2>2, <2>3, <2>4 DEF ServerNext
<1> QED
  BY <1>1, <1>2, PTL DEF ServerSpec

(* A server that has met no fault and was never stopped has all preset     *)
(* rows when it serves, and one whose database init.sql had filled has     *)
(* them whatever happens to it.                                            *)
THEOREM ServedWhole ==
    /\ ServerSpec => [](faults = 0 => ServingMeansSeeded)
    /\ copies = Full /\ ServerSpec => []ServingMeansSeeded
<1>1. Init /\ [][Next]_vars => [](IInv /\ WholeUnlessFault)
  BY InitInOrder, NextInOrder, WholeInit, WholeStep, PTL
<1>2. WholeUnlessFault => (faults = 0 => ServingMeansSeeded)
  BY AllStored DEF WholeUnlessFault, ServingMeansSeeded
<1>3. copies = Full /\ Init /\ [][Next]_vars => []ServingMeansSeeded
  BY FullStays
<1> QED
  BY <1>1, <1>2, <1>3, ServerIsStartup, PTL

(* Requests that come, go and are killed never delay the start.            *)
THEOREM ServerAdvances == ServerSpec => StartAdvances
BY ServerIsStartup, SafelyAdvances
=============================================================================
