------------------------------- MODULE Server --------------------------------
(***************************************************************************)
(* The process and the accounts it serves, composed: it seeds the          *)
(* database, serves registrations, logins and profile updates, and is      *)
(* stopped and started again with requests in flight.  The users that      *)
(* register are those that the next start finds when it decides whether    *)
(* to seed.                                                                *)
(***************************************************************************)
EXTENDS Startup, Users

ASSUME ServerAssumption == IsFiniteSet(User) /\ MaxRegistered = Cardinality(User)

server == <<vars, accounts>>

ServerInit == Init /\ UsersInit

(* The steps of main up to serving.                                        *)
Boot == (Start \/ CountUsers \/ Insert \/ Seeded) /\ UNCHANGED accounts

(* The process dies, wherever it is.                                       *)
Stop == Crash /\ KillCalls /\ UNCHANGED user

(* One step of a request; a new row is one more registered user.           *)
Serve(r) ==
    /\ phase = "serving"
    /\ UsersStep(r)
    /\ IF \E u \in User : user[u] = NoUser /\ user'[u] # NoUser
       THEN Register ELSE UNCHANGED vars

ServerNext == Boot \/ Stop \/ \E r \in Request : Serve(r)

(* The container starts the process again, and main goes on.               *)
ServerSpec == ServerInit /\ [][ServerNext]_server /\ WF_server(Boot)

(* The preset rows are inserted before anybody has registered, however     *)
(* often the seeding is cut off: nobody who registered takes an id that    *)
(* the preset rows refer to.                                               *)
SeededBeforeRegistered ==
    phase = "seeding" => \A u \in User : user[u] = NoUser
=============================================================================
