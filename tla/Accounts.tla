------------------------------- MODULE Accounts -------------------------------
(***************************************************************************)
(* Accounts: the application profile of a user, the Supabase Auth user it  *)
(* belongs to, and the requests that have to change both without a common  *)
(* transaction.  A profile is created by a trigger when Auth records an    *)
(* invitation; one invited user is promoted to the only administrator, who *)
(* invites, disables and enables teachers.                                 *)
(***************************************************************************)
EXTENDS Integers, FiniteSets

CONSTANTS
  Users,      \* people with an address an invitation can be sent to
  Requests    \* disable and enable requests that may be under way together

ASSUME AccountsAssumption == IsFiniteSet(Users) /\ IsFiniteSet(Requests)

VARIABLES
  profile,    \* profiles: role and status of each user
  auth,       \* the Auth user: absent, invited, or signed in once
  banned,     \* Auth users with banned_until set
  promoting,  \* users a bootstrap found invited and is about to promote
  request,    \* what each disable or enable request is about to do
  overlapped  \* history: users whose latest requests overlapped

accountVars == <<profile, auth, banned, promoting, request, overlapped>>

(* Only teachers are ever invited or disabled: the administrator is active.*)
ProfileStates == {"none", "invited", "active", "disabled", "admin"}
Idle == [pc |-> "idle"]
RequestPlaces == {"banning", "unbanning", "opening", "ban unanswered", "unban unanswered"}
RequestStates == {Idle} \cup [pc : RequestPlaces, user : Users]

AccountsInit ==
  /\ profile = [u \in Users |-> "none"]
  /\ auth = [u \in Users |-> "absent"]
  /\ banned = {}
  /\ promoting = {}
  /\ request = [r \in Requests |-> Idle]
  /\ overlapped = {}

get_admin == {u \in Users : profile[u] = "admin"}

(* current_active_teacher_id: what row level security compares owners with.*)
ActiveTeacher(u) == profile[u] = "active"

-----------------------------------------------------------------------------
(* Invitations                                                             *)

(* The trigger on auth.users: an invitation creates the profile with it.   *)
create_invited_teacher(u) ==
  /\ auth[u] = "absent"
  /\ auth' = [auth EXCEPT ![u] = "invited"]
  /\ profile' = [profile EXCEPT ![u] = "invited"]

(* The command looks for an administrator, finds or invites the user, and  *)
(* goes on when the profile is an invitation nobody has signed in with.    *)
Bootstrap(u) ==
  /\ get_admin = {} /\ u \notin promoting
  /\ \/ create_invited_teacher(u)
     \/ profile[u] = "invited" /\ auth[u] = "invited" /\ UNCHANGED <<auth, profile>>
  /\ promoting' = promoting \cup {u}
  /\ UNCHANGED <<banned, request, overlapped>>

(* Mutant: the unique index on the administrator's role left out.          *)
NoAdminIndex == TRUE

(* One update, refused by its own condition or by the unique index on the  *)
(* administrator's role; the command may also die before it.               *)
SingleAdmin == get_admin = {}
promote_invited_to_admin(u) ==
  /\ u \in promoting
  /\ promoting' = promoting \ {u}
  /\ \/ /\ profile[u] = "invited" /\ SingleAdmin
        /\ profile' = [profile EXCEPT ![u] = "admin"]
     \/ UNCHANGED profile
  /\ UNCHANGED <<auth, banned, request, overlapped>>

InviteTeacher(u) ==
  /\ get_admin # {}
  /\ create_invited_teacher(u)
  /\ UNCHANGED <<banned, promoting, request, overlapped>>

(* The user follows the link of the invitation.                            *)
SignIn(u) ==
  /\ auth[u] = "invited"
  /\ auth' = [auth EXCEPT ![u] = "signed in"]
  /\ UNCHANGED <<profile, banned, promoting, request, overlapped>>

CompleteInvite(u) ==
  /\ auth[u] = "signed in" /\ profile[u] = "invited"
  /\ profile' = [profile EXCEPT ![u] = "active"]
  /\ UNCHANGED <<auth, banned, promoting, request, overlapped>>

-----------------------------------------------------------------------------
(* Disabling and enabling                                                  *)

Goes(r, next) == request' = [request EXCEPT ![r] = next]

(* A request begins.  Nothing keeps two of them about one teacher apart;   *)
(* an unanswered call is under way for as long as it may be carried out.   *)
UnderWay(u) == {r \in Requests : request[r] # Idle /\ request[r].user = u}
Begins(r, u, pc) ==
  /\ request[r] = Idle /\ get_admin # {}
  /\ Goes(r, [pc |-> pc, user |-> u])
  /\ overlapped' = IF UnderWay(u) = {} THEN overlapped \ {u} ELSE overlapped \cup {u}
  /\ UNCHANGED <<auth, banned, promoting>>

(* The profile closes first, in a transaction of its own; a teacher that   *)
(* is disabled already only has the ban confirmed.                         *)
DisableTeacher(r, u) ==
  /\ profile[u] \in {"active", "disabled"}
  /\ profile' = [profile EXCEPT ![u] = "disabled"]
  /\ Begins(r, u, "banning")

(* Mutant: the profile opened before the ban is lifted.                    *)
EnableOpensFirst(r, u) ==
  /\ profile[u] = "disabled"
  /\ profile' = [profile EXCEPT ![u] = "active"]
  /\ Begins(r, u, "unbanning")

EnableTeacher(r, u) ==
  /\ profile[u] = "disabled"
  /\ Begins(r, u, "unbanning")
  /\ UNCHANGED profile

(* Auth answers and the request goes on.                                   *)
disable_user(r) ==
  /\ request[r].pc = "banning"
  /\ banned' = banned \cup {request[r].user}
  /\ Goes(r, Idle)
  /\ UNCHANGED <<profile, auth, promoting, overlapped>>

enable_user(r) ==
  /\ request[r].pc = "unbanning"
  /\ banned' = banned \ {request[r].user}
  /\ Goes(r, [request[r] EXCEPT !.pc = "opening"])
  /\ UNCHANGED <<profile, auth, promoting, overlapped>>

enable_disabled(r) ==
  /\ request[r].pc = "opening"
  /\ profile' = [profile EXCEPT ![request[r].user] =
                   IF @ = "disabled" THEN "active" ELSE @]
  /\ Goes(r, Idle)
  /\ UNCHANGED <<auth, banned, promoting, overlapped>>

(* Auth refuses, or the process dies before its next step: the request     *)
(* ends where it is.                                                       *)
RequestFails(r) ==
  /\ request[r].pc \in {"banning", "unbanning", "opening"}
  /\ Goes(r, Idle)
  /\ UNCHANGED <<profile, auth, banned, promoting, overlapped>>

(* Auth does not answer: the request ends, and what it called for may have *)
(* been done, may still be done, or not.                                   *)
Unanswered(r) ==
  /\ request[r].pc \in {"banning", "unbanning"}
  /\ Goes(r, [request[r] EXCEPT !.pc = IF @ = "banning" THEN "ban unanswered"
                                                       ELSE "unban unanswered"])
  /\ UNCHANGED <<profile, auth, banned, promoting, overlapped>>

LateCall(r) ==
  /\ \/ request[r].pc = "ban unanswered" /\ banned' = banned \cup {request[r].user}
     \/ request[r].pc = "unban unanswered" /\ banned' = banned \ {request[r].user}
     \/ request[r].pc \in {"ban unanswered", "unban unanswered"} /\ UNCHANGED banned
  /\ Goes(r, Idle)
  /\ UNCHANGED <<profile, auth, promoting, overlapped>>

-----------------------------------------------------------------------------
AccountsNext ==
  \/ \E u \in Users :
       \/ Bootstrap(u) \/ promote_invited_to_admin(u)
       \/ InviteTeacher(u) \/ SignIn(u) \/ CompleteInvite(u)
  \/ \E r \in Requests :
       \/ \E u \in Users : DisableTeacher(r, u) \/ EnableTeacher(r, u)
       \/ disable_user(r) \/ enable_user(r) \/ enable_disabled(r)
       \/ RequestFails(r) \/ Unanswered(r) \/ LateCall(r)

AccountsTypeOK ==
  /\ profile \in [Users -> ProfileStates]
  /\ auth \in [Users -> {"absent", "invited", "signed in"}]
  /\ banned \subseteq Users
  /\ promoting \subseteq Users
  /\ request \in [Requests -> RequestStates]
  /\ overlapped \subseteq Users

-----------------------------------------------------------------------------
(* Properties                                                              *)

(* Bootstraps that raced past the look-up of the administrator leave one   *)
(* administrator, who keeps the role for ever: profiles_single_admin_idx,  *)
(* and no update of a profile takes the role away.                         *)
AdminForGood ==
  [][/\ Cardinality({u \in Users : profile'[u] = "admin"}) <= 1
     /\ \A u \in Users : profile[u] = "admin" => profile'[u] = "admin"]_accountVars

(* An account is never left open in the application while Auth keeps its   *)
(* owner out, wherever its requests fail and whenever their calls to Auth  *)
(* are carried out: disabling closes the profile before the ban, enabling  *)
(* lifts the ban before it opens the profile.  Only requests that overlap  *)
(* leave one so, until the next that has the account to itself.            *)
OpenAccountsCanSignIn ==
  \A u \in Users : profile[u] = "active" /\ u \notin overlapped => u \notin banned
=============================================================================
