-------------------------------- MODULE Users --------------------------------
(***************************************************************************)
(* Accounts: registration, login and the profile of the caller             *)
(* (src/backend/internal/service/user_service.go and its handler and       *)
(* repository).                                                            *)
(*                                                                         *)
(* A registration looks for the phone number and inserts the user in a     *)
(* later call; only the unique index stands between two registrations of   *)
(* one number.  A profile update reads the user, overlays the fields that  *)
(* were sent, and saves the whole row.                                     *)
(***************************************************************************)
EXTENDS Handlers, FiniteSets

CONSTANTS User,       \* ids of rows of users that registrations may get
          Phone,      \* phone numbers that register, none of them preset
          Password,
          Text,       \* names, and addresses of avatars
          Blank,      \* the empty phone number, which is stored like any other
          None        \* the empty text, and the absence of a value

(* What is left of a phone number without the blanks around it.            *)
Number == Phone \cup {Blank}

ASSUME UsersAssumption ==
    /\ None \notin Number \cup Password \cup Text \cup User
    /\ Blank \notin Phone

VARIABLE user         \* the table: [User -> Row]

accounts == <<calls, user>>

(* The fields of a user that a profile update may change.                  *)
Field == {"name", "avatar"}

Profile == [Field -> Text \cup {None}]

(* A phone number as it is typed, with blanks around it or without.  The   *)
(* binding refuses an empty one, but not one of nothing but blanks.        *)
Typed == {t \in [text : Number, padded : BOOLEAN] : t.text = Blank => t.padded}

TrimSpace(t) == t.text

(* A row of users.  The role is set by the registration and read by login, *)
(* never changed, and left out, as is the time of creation.                *)
Row == [phone : Number, password : Password, profile : Profile]

NoUser == [phone |-> None, password |-> None, profile |-> [f \in Field |-> None]]

Registration == [op : {"register"}, id : User \cup {None}, phone : Typed,
                 password : Password]

Amendment == [op : {"profile"}, id : User, profile : Profile]

UsersInit == CallsInit /\ user = [u \in User |-> NoUser]

(***************************************************************************)
(* The repository                                                          *)
(***************************************************************************)
FindByPhone(p) == {u \in User : user[u].phone = p}

FindUserByID(u) == user[u] # NoUser

(* The next user to be stored gets the next id.                            *)
FreeId == CHOOSE u \in User : ~FindUserByID(u)

(* Mutant: there is no unique index on the phone number. *)
CreateUserNoIndex(r) ==
    /\ pc[r] = "insert"
    /\ \/ \E u \in User :
             /\ ~FindUserByID(u) /\ u = FreeId
             /\ user' = [user EXCEPT ![u] = draft[r]]
             /\ Took(r, [call[r] EXCEPT !.id = u])
       \/ InternalError(r) /\ UNCHANGED user

(* Mutant: the number is not among the columns that are inserted. *)
CreateUserNoPhone(r) ==
    /\ pc[r] = "insert"
    /\ \/ /\ FindByPhone(draft[r].phone) = {}
          /\ \E u \in User :
                /\ ~FindUserByID(u) /\ u = FreeId
                /\ user' = [user EXCEPT ![u] = [draft[r] EXCEPT !.phone = None]]
                /\ Took(r, [call[r] EXCEPT !.id = u])
       \/ InternalError(r) /\ UNCHANGED user

(* The insert, under the unique index on the phone number.                 *)
CreateUser(r) ==
    /\ pc[r] = "insert"
    /\ \/ /\ FindByPhone(draft[r].phone) = {}
          /\ \E u \in User :
                /\ ~FindUserByID(u) /\ u = FreeId
                /\ user' = [user EXCEPT ![u] = draft[r]]
                /\ Took(r, [call[r] EXCEPT !.id = u])
       \/ InternalError(r) /\ UNCHANGED user

(* Mutant: the row that is saved went through the JSON form of a user,     *)
(* which hides the password.                                               *)
UpdateUserWithoutHash(r) ==
    /\ pc[r] = "save"
    /\ \/ /\ user' = [user EXCEPT ![call[r].id] = [draft[r] EXCEPT !.password = None]]
          /\ Took(r, call[r])
       \/ InternalError(r) /\ UNCHANGED user

(* The whole row becomes the copy of the handler.                          *)
UpdateUser(r) ==
    /\ pc[r] = "save"
    /\ \/ /\ user' = [user EXCEPT ![call[r].id] = draft[r]]
          /\ Took(r, call[r])
       \/ InternalError(r) /\ UNCHANGED user

(***************************************************************************)
(* The service                                                             *)
(***************************************************************************)
(* The service trims the number t that was typed, be it to the empty one.  *)
(* It is free when the service looks; the find and the hash may fail.      *)
RegisterUser(r, t, w) ==
    LET p == TrimSpace(t) IN
    \/ FindByPhone(p) # {} /\ Fail(r)
    \/ InternalError(r)
    \/ /\ FindByPhone(p) = {}
       /\ Hold(r, [op |-> "register", id |-> None, phone |-> t, password |-> w],
               [NoUser EXCEPT !.phone = p, !.password = w], "insert")

(* Phone number and password are those of a user.                          *)
Authenticates(p, w) == \E u \in FindByPhone(p) : user[u].password = w

(* Login looks for the number as it was typed, and no row has blanks       *)
(* around it; None is the password of nobody.                              *)
LogsIn(t, w) == ~t.padded /\ Authenticates(t.text, w)

(* A number with spaces at its end may be found nevertheless: whether they *)
(* count is up to the collation of the table.                              *)
Login(r, t, w) ==
    \/ Authenticates(t.text, w) /\ Answer(r, "ok")
    \/ ~LogsIn(t, w) /\ Fail(r)
    \/ InternalError(r)

(* Mutant: a field that was not sent is cleared. *)
OverlayAll(old, new) == new

(* The fields that were sent replace the old ones.                         *)
Overlay(old, new) == [f \in Field |-> IF new[f] = None THEN old[f] ELSE new[f]]

UpdateProfile(r, c) ==
    \/ InternalError(r)
    \/ /\ FindUserByID(c.id)
       /\ Hold(r, c, [user[c.id] EXCEPT !.profile = Overlay(@, c.profile)], "save")

(***************************************************************************)
(* The handlers                                                            *)
(***************************************************************************)
(* The limiter of the public routes, the token that the other one asks for *)
(* and the parsing of the body may each refuse a request.                  *)
PostRegister(r) ==
    /\ pc[r] = "new"
    /\ UNCHANGED user
    /\ \/ Fail(r)
       \/ \E t \in Typed, w \in Password : RegisterUser(r, t, w)

PostLogin(r) ==
    /\ pc[r] = "new"
    /\ UNCHANGED user
    /\ \/ Fail(r)
       \/ \E t \in Typed, w \in Password \cup {None} : Login(r, t, w)

(* The caller is whoever the token names: a user that has a row, since a   *)
(* token is issued for one and no row is ever removed.                     *)
PutMe(r) ==
    /\ pc[r] = "new"
    /\ UNCHANGED user
    /\ \/ Fail(r)
       \/ \E u \in User, new \in Profile :
             /\ FindUserByID(u)
             /\ UpdateProfile(r, [op |-> "profile", id |-> u, profile |-> new])

AccountStep(r) == CreateUser(r) \/ UpdateUser(r)

UsersStep(r) == PostRegister(r) \/ PostLogin(r) \/ PutMe(r) \/ AccountStep(r)

-----------------------------------------------------------------------------
(* Types of the table and of the requests.                                 *)
UsersTypeOK ==
    /\ user \in [User -> Row \cup {NoUser}]
    /\ pc \in [Request -> {"new", "insert", "save", "done", "killed"}]
    /\ call \in [Request -> Registration \cup Amendment \cup {NoCall}]
    /\ draft \in [Request -> Row \cup {NoDraft}]
    /\ reply \in [Request -> Reply]
    /\ wrote \in [Request -> BOOLEAN]
    /\ seen \in [Request -> SUBSET Request]

(* No phone number has two accounts, the empty one included, although      *)
(* registrations look for it and insert it in separate database calls.     *)
PhoneIsUnique == \A p \in Number : \A u, v \in FindByPhone(p) : u = v

(* Request r was told that its registration succeeded, under a number that *)
(* is more than blanks.                                                    *)
HasAccount(r) ==
    /\ pc[r] = "done" /\ reply[r] = "ok" /\ call[r].op = "register"
    /\ TrimSpace(call[r].phone) # Blank

(* Whoever was told that the registration succeeded can log in ever after  *)
(* with that password and the phone number, typed without blanks around    *)
(* it however it was typed then, and whatever registrations and profile    *)
(* updates of whole rows overlap and wherever the server is stopped.  Left *)
(* out is whoever typed nothing but blanks: that registration succeeds     *)
(* too, its number is stored as the empty one, which the binding of login  *)
(* refuses, and the blanks are not trimmed there and not found, unless the *)
(* collation disregards them.                                              *)
CanLogIn ==
    \A r \in Request : HasAccount(r) =>
        LogsIn([call[r].phone EXCEPT !.padded = FALSE], call[r].password)

(* The profile updates of user u that took effect, and those that changed  *)
(* field f.                                                                *)
Amended(u) == {r \in Written : call[r].op = "profile" /\ call[r].id = u}

Changed(u, f) == {r \in Amended(u) : call[r].profile[f] # None}

(* What a profile update changed is there, unless another update changed   *)
(* it afterwards or the two overlapped: a save of the whole row undoes     *)
(* nothing that had been saved when its row was read.                      *)
LostOnlyByOverlap ==
    \A u \in User, f \in Field : \A q \in Changed(u, f) :
        \/ user[u].profile[f] = call[q].profile[f]
        \/ \E r \in Amended(u) \ (seen[q] \cup {q}) :
              q \notin seen[r] \/ r \in Changed(u, f)
=============================================================================
