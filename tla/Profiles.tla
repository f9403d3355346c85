------------------------------- MODULE Profiles -------------------------------
(***************************************************************************)
(* The users of the profiles service, each operation one SQL statement.    *)
(*                                                                         *)
(* A user stands for the e-mail address, which the table keeps unique.     *)
(* Passwords and display names decide nothing here, XP and venue profiles  *)
(* are in Orders and Sessions, and the venue of a user is left out: it is  *)
(* copied into the tokens of a login and read by no rule modelled here.    *)
(***************************************************************************)
CONSTANTS
    Users,        \* e-mail addresses, those not registered yet included
    NoUser,       \* NULL
    Assignments   \* roles that PATCH /users/{user_id}/venue is sent with

UserRoles == {"guest", "venue_admin", "bartender", "door_staff", "nitecore"}
UserAdmins == {"nitecore"}

ASSUME ProfilesAssumption == NoUser \notin Users /\ Assignments \subseteq UserRoles

VARIABLE users   \* role of each row of profiles.users, "none": there is no row

Registered(u) == users[u] # "none"

ProfilesInit == users = [u \in Users |-> "none"]

CreateUser(u) ==
    /\ ~Registered(u)
    /\ users' = [users EXCEPT ![u] = "guest"]

SetUserVenue(by, u, role) ==
    /\ by \in UserAdmins
    /\ Registered(u) /\ role \in Assignments
    /\ users' = [users EXCEPT ![u] = role]

ProfilesTypeOK == users \in [Users -> UserRoles \cup {"none"}]

=============================================================================
