---------------------------- MODULE PaperUploadsProofs ----------------------------
(***************************************************************************)
(* Proofs about PaperUploads and the accounts it composes, for any users,  *)
(* papers, files and requests.                                             *)
(***************************************************************************)
EXTENDS PaperUploads, FiniteSetTheorems, TLAPS

-----------------------------------------------------------------------------
(* Accounts                                                                *)

(* Every step of the accounts keeps their types.                           *)
LEMMA AccountsTypes ==
  ASSUME AccountsTypeOK, AccountsNext
  PROVE  AccountsTypeOK'
<1> USE DEF AccountsTypeOK, ProfileStates
<1>1. \A u \in Users, pc \in RequestPlaces : [pc |-> pc, user |-> u] \in RequestStates
  BY DEF RequestStates
<1>2. Idle \in RequestStates
  BY DEF RequestStates
<1>3. ASSUME NEW r \in Requests, request[r].pc \in RequestPlaces
      PROVE  request[r] \in [pc : RequestPlaces, user : Users]
  <2>1. request[r] \in RequestStates
    OBVIOUS
  <2>2. Idle.pc = "idle"
    BY DEF Idle
  <2> QED BY <1>3, <2>1, <2>2 DEF RequestStates, RequestPlaces
<1>4. ASSUME NEW u \in Users,
             \/ Bootstrap(u) \/ promote_invited_to_admin(u)
             \/ InviteTeacher(u) \/ SignIn(u) \/ CompleteInvite(u)
      PROVE  AccountsTypeOK'
  BY <1>4 DEF Bootstrap, promote_invited_to_admin, InviteTeacher, SignIn,
     CompleteInvite, create_invited_teacher
<1>5. ASSUME NEW r \in Requests, NEW u \in Users,
             DisableTeacher(r, u) \/ EnableTeacher(r, u)
      PROVE  AccountsTypeOK'
  <2>1. PICK pc \in {"banning", "unbanning"} : Begins(r, u, pc)
    BY <1>5 DEF DisableTeacher, EnableTeacher
  <2>2. [pc |-> pc, user |-> u] \in RequestStates
    BY <1>1 DEF RequestPlaces
  <2>3. request' \in [Requests -> RequestStates] /\ overlapped' \subseteq Users
    BY <2>1, <2>2 DEF Begins, Goes
  <2> QED BY <1>5, <2>1, <2>3 DEF DisableTeacher, EnableTeacher, Begins
<1>6. ASSUME NEW r \in Requests, disable_user(r) PROVE AccountsTypeOK'
  BY <1>2, <1>3, <1>6 DEF disable_user, Goes, RequestPlaces
<1>7. ASSUME NEW r \in Requests, NEW pc \in RequestPlaces,
             request[r].pc \in RequestPlaces, Goes(r, [request[r] EXCEPT !.pc = pc])
      PROVE  request' \in [Requests -> RequestStates]
  <2>1. request[r] \in [pc : RequestPlaces, user : Users]
    BY <1>3, <1>7
  <2>2. PICK q : q = [request[r] EXCEPT !.pc = pc]
    OBVIOUS
  <2>3. q \in RequestStates
    BY <2>1, <2>2 DEF RequestStates
  <2>4. request' = [request EXCEPT ![r] = q]
    BY <1>7, <2>2 DEF Goes
  <2> QED BY <2>3, <2>4
<1>8. ASSUME NEW r \in Requests, enable_user(r) PROVE AccountsTypeOK'
  BY <1>7, <1>8 DEF enable_user, RequestPlaces
<1>9. ASSUME NEW r \in Requests, enable_disabled(r) PROVE AccountsTypeOK'
  BY <1>2, <1>3, <1>9 DEF enable_disabled, Goes, RequestPlaces
<1>10. ASSUME NEW r \in Requests, RequestFails(r) PROVE AccountsTypeOK'
  BY <1>2, <1>10 DEF RequestFails, Goes
<1>11. ASSUME NEW r \in Requests, Unanswered(r) PROVE AccountsTypeOK'
  <2>1. CASE request[r].pc = "banning"
    BY <1>7, <1>11, <2>1 DEF Unanswered, RequestPlaces, Goes
  <2>2. CASE request[r].pc = "unbanning"
    BY <1>7, <1>11, <2>2 DEF Unanswered, RequestPlaces, Goes
  <2> QED BY <1>11, <2>1, <2>2 DEF Unanswered
<1>12. ASSUME NEW r \in Requests, LateCall(r) PROVE AccountsTypeOK'
  BY <1>2, <1>3, <1>12 DEF LateCall, Goes, RequestPlaces
<1> QED BY <1>4, <1>5, <1>6, <1>8, <1>9, <1>10, <1>11, <1>12 DEF AccountsNext

(* A user Auth does not know has no profile, and there is one              *)
(* administrator at most.                                                  *)
AdminInv ==
  /\ AccountsTypeOK
  /\ \A u \in Users : auth[u] = "absent" => profile[u] = "none"
  /\ \A u, v \in Users : profile[u] = "admin" /\ profile[v] = "admin" => u = v

(* Only a promotion makes an administrator, of an invited user and when    *)
(* there is none; nothing takes the role away.                             *)
LEMMA AdminStep ==
  ASSUME AdminInv, AccountsNext
  PROVE  /\ AdminInv'
         /\ \A u \in Users : profile[u] = "admin" => profile'[u] = "admin"
<1>0. AccountsTypeOK /\ AccountsTypeOK'
  BY AccountsTypes DEF AdminInv
<1>1. ASSUME NEW u \in Users,
             \/ Bootstrap(u) \/ promote_invited_to_admin(u)
             \/ InviteTeacher(u) \/ SignIn(u) \/ CompleteInvite(u)
      PROVE  /\ AdminInv'
             /\ \A v \in Users : profile[v] = "admin" => profile'[v] = "admin"
  <2>1. CASE create_invited_teacher(u)
    BY <1>0, <2>1 DEF create_invited_teacher, AdminInv, AccountsTypeOK
  <2>2. CASE promote_invited_to_admin(u)
    <3>1. auth' = auth
      BY <2>2 DEF promote_invited_to_admin
    <3>2. CASE profile' = profile
      BY <1>0, <3>1, <3>2 DEF AdminInv
    <3>3. CASE /\ profile[u] = "invited" /\ \A v \in Users : profile[v] # "admin"
               /\ profile' = [profile EXCEPT ![u] = "admin"]
      <4>1. \A v \in Users : profile'[v] = IF v = u THEN "admin" ELSE profile[v]
        BY <1>0, <3>3 DEF AccountsTypeOK
      <4> QED BY <1>0, <3>1, <3>3, <4>1 DEF AdminInv
    <3> QED BY <2>2, <3>2, <3>3 DEF promote_invited_to_admin, SingleAdmin, get_admin
  <2>3. CASE SignIn(u) \/ CompleteInvite(u)
    BY <1>0, <2>3 DEF SignIn, CompleteInvite, AdminInv, AccountsTypeOK
  <2>4. CASE UNCHANGED <<auth, profile>>
    BY <1>0, <2>4 DEF AdminInv
  <2> QED BY <1>1, <2>1, <2>2, <2>3, <2>4 DEF Bootstrap, InviteTeacher
<1>2. ASSUME NEW r \in Requests, NEW u \in Users,
             DisableTeacher(r, u) \/ EnableTeacher(r, u)
      PROVE  /\ AdminInv'
             /\ \A v \in Users : profile[v] = "admin" => profile'[v] = "admin"
  BY <1>0, <1>2 DEF DisableTeacher, EnableTeacher, Begins, AdminInv, AccountsTypeOK
<1>3. ASSUME NEW r \in Requests,
             \/ disable_user(r) \/ enable_user(r) \/ RequestFails(r)
             \/ Unanswered(r) \/ LateCall(r)
      PROVE  /\ AdminInv'
             /\ \A v \in Users : profile[v] = "admin" => profile'[v] = "admin"
  BY <1>0, <1>3 DEF disable_user, enable_user, RequestFails, Unanswered, LateCall,
     AdminInv
<1>4. ASSUME NEW r \in Requests, enable_disabled(r)
      PROVE  /\ AdminInv'
             /\ \A v \in Users : profile[v] = "admin" => profile'[v] = "admin"
  BY <1>0, <1>4 DEF enable_disabled, AdminInv, AccountsTypeOK
<1> QED BY <1>1, <1>2, <1>3, <1>4 DEF AccountsNext

(* For any number of racing bootstraps: one administrator at most, who     *)
(* keeps the role.  The unique index on the role decides the race, and no  *)
(* other update of a profile touches an administrator.                     *)
THEOREM AdministratorIsFinal == Spec => AdminForGood
<1>1. Init => AdminInv
  BY DEF Init, AccountsInit, AdminInv, AccountsTypeOK, ProfileStates, RequestStates
<1>2. ASSUME AdminInv, [Next]_vars
      PROVE  /\ AdminInv'
             /\ \A u \in Users : profile[u] = "admin" => profile'[u] = "admin"
  <2>1. CASE AccountsNext
    BY <1>2, <2>1, AdminStep
  <2>2. CASE UNCHANGED accountVars
    BY <1>2, <2>2 DEF accountVars, AdminInv, AccountsTypeOK
  <2> QED BY <1>2, <2>1, <2>2 DEF Next, vars
<1>3. ASSUME AdminInv'
      PROVE  Cardinality({u \in Users : profile'[u] = "admin"}) <= 1
  <2> DEFINE A == {u \in Users : profile'[u] = "admin"}
  <2>1. \A u, v \in A : u = v
    BY <1>3 DEF AdminInv
  <2> HIDE DEF A
  <2>2. A = {} \/ \E u : A = {u}
    BY <2>1
  <2>3. Cardinality(A) = 0 \/ Cardinality(A) = 1
    BY <2>2, FS_EmptySet, FS_Singleton
  <2> QED BY <2>3 DEF A
<1>4. AdminInv /\ [Next]_vars =>
        [/\ Cardinality({u \in Users : profile'[u] = "admin"}) <= 1
         /\ \A u \in Users : profile[u] = "admin" => profile'[u] = "admin"]_accountVars
  BY <1>2, <1>3
<1> QED BY <1>1, <1>2, <1>4, PTL DEF Spec, AdminForGood

(* About a user whose latest requests did not overlap there is one request *)
(* at most; who is banned, or about to be, is disabled, and a profile      *)
(* about to open is not banned.                                            *)
About(r, u) == request[r] # Idle /\ request[r].user = u
BanInv ==
  /\ AdminInv
  /\ \A u \in Users \ overlapped : u \in banned => profile[u] = "disabled"
  /\ \A u \in Users \ overlapped : \A r \in Requests :
       About(r, u) =>
         /\ request[r].pc \in {"banning", "ban unanswered"} => profile[u] = "disabled"
         /\ request[r].pc = "opening" => u \notin banned
         /\ \A q \in Requests : About(q, u) => q = r

(* A request begins: alone, or overlapping others.                         *)
LEMMA BeginKeepsBans ==
  ASSUME BanInv, AccountsTypeOK', AdminInv', NEW r \in Requests, NEW u \in Users,
         NEW pc \in {"banning", "unbanning"}, Begins(r, u, pc),
         profile' = [profile EXCEPT ![u] = "disabled"]
  PROVE  BanInv'
<1> DEFINE q == [pc |-> pc, user |-> u]
<1>0. AccountsTypeOK
  BY DEF BanInv, AdminInv
<1>1. /\ q.pc = pc /\ q.user = u /\ request' = [request EXCEPT ![r] = q]
      /\ request'[r] = q /\ banned' = banned /\ request[r] = Idle
      /\ overlapped' = IF UnderWay(u) = {} THEN overlapped \ {u} ELSE overlapped \cup {u}
  BY <1>0 DEF Begins, Goes, AccountsTypeOK
<1> HIDE DEF q
<1>2. \A v \in Users : profile'[v] = IF v = u THEN "disabled" ELSE profile[v]
  BY <1>0 DEF AccountsTypeOK
<1>3. \A x \in Requests \ {r} : request'[x] = request[x]
  BY <1>0, <1>1 DEF AccountsTypeOK
<1>4. ASSUME NEW v \in Users, v \notin overlapped', v # u
      PROVE  /\ v \notin overlapped /\ ~About(r, v)'
             /\ \A x \in Requests \ {r} : About(x, v)' <=> About(x, v)
  BY <1>1, <1>3, <1>4 DEF About
<1>5. ASSUME u \notin overlapped'
      PROVE  \A x \in Requests : About(x, u)' => x = r
  <2>1. UnderWay(u) = {}
    BY <1>1, <1>5
  <2> QED BY <1>3, <2>1 DEF About, UnderWay
<1>6. ASSUME NEW v \in Users, v \notin overlapped', v \in banned'
      PROVE  profile'[v] = "disabled"
  BY <1>1, <1>2, <1>4, <1>6 DEF BanInv
<1>7. ASSUME NEW v \in Users, v \notin overlapped', NEW x \in Requests, About(x, v)'
      PROVE  /\ request'[x].pc \in {"banning", "ban unanswered"} => profile'[v] = "disabled"
             /\ request'[x].pc = "opening" => v \notin banned'
             /\ \A y \in Requests : About(y, v)' => y = x
  <2>1. CASE v = u
    <3>1. u \notin overlapped' /\ About(x, u)'
      BY <1>7, <2>1
    <3>2. x = r /\ \A y \in Requests : About(y, u)' => y = r
      BY <1>5, <3>1
    <3>3. request'[x].pc \in {"banning", "unbanning"} /\ profile'[u] = "disabled"
      BY <1>1, <1>2, <3>2
    <3> QED BY <2>1, <3>2, <3>3
  <2>2. CASE v # u
    <3>1. x # r /\ About(x, v) /\ v \notin overlapped
      BY <1>4, <1>7, <2>2
    <3>2. /\ request[x].pc \in {"banning", "ban unanswered"} => profile[v] = "disabled"
          /\ request[x].pc = "opening" => v \notin banned
          /\ \A y \in Requests : About(y, v) => y = x
      BY <3>1 DEF BanInv
    <3> QED BY <1>1, <1>2, <1>3, <1>4, <1>7, <2>2, <3>1, <3>2
  <2> QED BY <2>1, <2>2
<1> QED BY <1>6, <1>7 DEF BanInv

(* A request goes on or ends: it stays about its user, and bans, lifts and *)
(* opens only what its place allows.                                       *)
LEMMA GoingKeepsBans ==
  ASSUME BanInv, AccountsTypeOK', AdminInv', NEW r \in Requests, request[r] # Idle,
         NEW c, request' = [request EXCEPT ![r] = c], c = Idle \/ c.user = request[r].user,
         overlapped' = overlapped,
         c.pc = "ban unanswered" => request[r].pc = "banning",
         c.pc # "banning",
         c.pc = "opening" => banned' = banned \ {request[r].user},
         \A v \in banned' : v \in banned \/
            (v = request[r].user /\ request[r].pc \in {"banning", "ban unanswered"}),
         \/ profile' = profile
         \/ /\ request[r].pc = "opening" /\ c = Idle /\ banned' = banned
            /\ \A v \in Users \ {request[r].user} : profile'[v] = profile[v]
  PROVE  BanInv'
<1> DEFINE u == request[r].user
<1>0. AccountsTypeOK /\ request'[r] = c /\ About(r, u) /\ Idle.pc = "idle"
  BY DEF BanInv, AdminInv, AccountsTypeOK, About, Idle
<1>1. \A x \in Requests \ {r} : request'[x] = request[x]
  BY <1>0 DEF AccountsTypeOK
<1>2. \A v, x : x \in Requests /\ About(x, v)' => About(x, v)
  BY <1>0, <1>1 DEF About
<1>3. u \in Users
  BY <1>0 DEF AccountsTypeOK, RequestStates
<1> HIDE DEF u
<1>4. ASSUME NEW v \in Users, v \notin overlapped
      PROVE  /\ v \in banned' => profile'[v] = "disabled"
             /\ \A x \in Requests : About(x, v)' =>
                  /\ request'[x].pc \in {"banning", "ban unanswered"} =>
                       profile'[v] = "disabled"
                  /\ request'[x].pc = "opening" => v \notin banned'
                  /\ \A y \in Requests : About(y, v)' => y = x
  <2>0. /\ v \in banned => profile[v] = "disabled"
        /\ \A x \in Requests : About(x, v) =>
             /\ request[x].pc \in {"banning", "ban unanswered"} => profile[v] = "disabled"
             /\ request[x].pc = "opening" => v \notin banned
             /\ \A y \in Requests : About(y, v) => y = x
    BY <1>4 DEF BanInv
  <2>1. CASE v = u
    <3>1. /\ request[r].pc \in {"banning", "ban unanswered"} => profile[v] = "disabled"
          /\ request[r].pc = "opening" => v \notin banned
          /\ \A y \in Requests : About(y, v) => y = r
      BY <1>0, <2>0, <2>1
    <3>2. v \in banned' => profile'[v] = "disabled"
      BY <2>0, <2>1, <3>1 DEF u
    <3>3. ASSUME NEW x \in Requests, About(x, v)'
          PROVE  /\ x = r /\ request'[x].pc # "banning" /\ c # Idle
                 /\ request'[x].pc = "ban unanswered" => profile'[v] = "disabled"
                 /\ request'[x].pc = "opening" => v \notin banned'
      <4>1. x = r
        BY <1>2, <3>1, <3>3
      <4>2. c # Idle
        BY <1>0, <3>3, <4>1 DEF About
      <4> QED BY <1>0, <2>1, <3>1, <4>1, <4>2 DEF u
    <3> QED BY <1>2, <3>1, <3>2, <3>3
  <2>2. CASE v # u
    <3>1. profile'[v] = profile[v] /\ (v \in banned' => v \in banned)
      BY <2>2 DEF u
    <3>2. \A x \in Requests : About(x, v)' => x # r /\ About(x, v)
      BY <1>0, <1>2, <2>2 DEF About, u
    <3> QED BY <1>1, <2>0, <3>1, <3>2
  <2> QED BY <2>1, <2>2
<1> QED BY <1>4 DEF BanInv

(* Every step of the accounts keeps the invariant.                         *)
LEMMA BanStep ==
  ASSUME BanInv, AccountsNext
  PROVE  BanInv'
<1>0. AdminInv /\ AdminInv' /\ AccountsTypeOK /\ AccountsTypeOK'
  BY AdminStep DEF BanInv, AdminInv
<1>1. Idle.pc = "idle"
  BY DEF Idle
<1>2. ASSUME NEW u \in Users,
             \/ Bootstrap(u) \/ promote_invited_to_admin(u)
             \/ InviteTeacher(u) \/ SignIn(u) \/ CompleteInvite(u)
      PROVE  BanInv'
  <2>1. banned' = banned /\ request' = request /\ overlapped' = overlapped
    BY <1>2 DEF Bootstrap, promote_invited_to_admin, InviteTeacher, SignIn,
       CompleteInvite
  <2>2. \A v \in Users : profile[v] = "disabled" => profile'[v] = "disabled"
    BY <1>0, <1>2 DEF Bootstrap, promote_invited_to_admin, InviteTeacher, SignIn,
       CompleteInvite, create_invited_teacher, AdminInv, AccountsTypeOK
  <2>3. \A v, r : About(r, v)' <=> About(r, v)
    BY <2>1 DEF About
  <2> QED BY <1>0, <2>1, <2>2, <2>3 DEF BanInv
<1>3. ASSUME NEW r \in Requests, NEW u \in Users, DisableTeacher(r, u)
      PROVE  BanInv'
  BY <1>0, <1>3, BeginKeepsBans DEF DisableTeacher
<1>4. ASSUME NEW r \in Requests, NEW u \in Users, EnableTeacher(r, u)
      PROVE  BanInv'
  <2>1. profile' = [profile EXCEPT ![u] = "disabled"]
    BY <1>0, <1>4 DEF EnableTeacher, AccountsTypeOK
  <2> QED BY <1>0, <1>4, <2>1, BeginKeepsBans DEF EnableTeacher
<1>5. ASSUME NEW r \in Requests,
             \/ disable_user(r) \/ enable_disabled(r) \/ RequestFails(r) \/ LateCall(r)
      PROVE  BanInv'
  <2>1. request[r] # Idle /\ request' = [request EXCEPT ![r] = Idle]
    BY <1>1, <1>5 DEF disable_user, enable_disabled, RequestFails, LateCall, Goes
  <2>2. overlapped' = overlapped
    BY <1>5 DEF disable_user, enable_disabled, RequestFails, LateCall
  <2>3. \A v \in banned' : \/ v \in banned
                          \/ /\ v = request[r].user
                             /\ request[r].pc \in {"banning", "ban unanswered"}
    BY <1>5 DEF disable_user, enable_disabled, RequestFails, LateCall
  <2>4. \/ profile' = profile
        \/ /\ request[r].pc = "opening" /\ banned' = banned
           /\ \A v \in Users \ {request[r].user} : profile'[v] = profile[v]
    BY <1>0, <1>5 DEF disable_user, enable_disabled, RequestFails, LateCall,
       AccountsTypeOK
  <2> QED BY <1>0, <1>1, <2>1, <2>2, <2>3, <2>4, GoingKeepsBans
<1>6. ASSUME NEW r \in Requests, enable_user(r) \/ Unanswered(r)
      PROVE  BanInv'
  <2>1. request[r] \in [pc : RequestPlaces, user : Users] /\ request[r] # Idle
    BY <1>0, <1>1, <1>6 DEF enable_user, Unanswered, AccountsTypeOK, RequestStates
  <2>2. PICK pc \in {"opening", "ban unanswered", "unban unanswered"} :
          /\ Goes(r, [request[r] EXCEPT !.pc = pc])
          /\ pc = "ban unanswered" => request[r].pc = "banning"
          /\ pc = "opening" => banned' = banned \ {request[r].user}
          /\ pc # "opening" => banned' = banned
    BY <1>6 DEF enable_user, Unanswered
  <2>3. PICK c : c = [request[r] EXCEPT !.pc = pc]
    OBVIOUS
  <2>4. c.pc = pc /\ c.user = request[r].user /\ request' = [request EXCEPT ![r] = c]
    BY <2>1, <2>2, <2>3 DEF Goes
  <2>5. overlapped' = overlapped /\ profile' = profile
    BY <1>6 DEF enable_user, Unanswered
  <2> QED BY <1>0, <2>1, <2>2, <2>4, <2>5, GoingKeepsBans
<1> QED BY <1>2, <1>3, <1>4, <1>5, <1>6 DEF AccountsNext

(* For any number of disable and enable requests, failing wherever they    *)
(* will and their unanswered calls carried out at any time: an open        *)
(* account is not banned, unless its latest requests overlapped.           *)
THEOREM OpenMeansNotBanned == Spec => []OpenAccountsCanSignIn
<1>1. Init => BanInv
  <2> SUFFICES ASSUME Init PROVE BanInv
    OBVIOUS
  <2>1. AdminInv
    BY DEF Init, AccountsInit, AdminInv, AccountsTypeOK, ProfileStates, RequestStates
  <2> QED BY <2>1 DEF Init, AccountsInit, BanInv, About
<1>2. ASSUME BanInv, [Next]_vars PROVE BanInv'
  <2>1. CASE AccountsNext
    BY <1>2, <2>1, BanStep
  <2>2. CASE UNCHANGED accountVars
    <3>1. \A r, u : About(r, u)' <=> About(r, u)
      BY <2>2 DEF accountVars, About
    <3>2. AdminInv'
      BY <1>2, <2>2 DEF accountVars, BanInv, AdminInv, AccountsTypeOK
    <3> QED BY <1>2, <2>2, <3>1, <3>2 DEF accountVars, BanInv
  <2> QED BY <1>2, <2>1, <2>2 DEF Next, vars
<1>3. BanInv => OpenAccountsCanSignIn
  BY DEF BanInv, OpenAccountsCanSignIn
<1> QED BY <1>1, <1>2, <1>3, PTL DEF Spec

-----------------------------------------------------------------------------
(* What one step of an upload does                                         *)

Rows == [status : {"none", "uploaded", "parsing", "ready", "failed"},
         file : Files \cup {NoFile}, source : BOOLEAN,
         text : {NoText} \cup UNION {Texts[f] : f \in Files}]

(* Places from which an upload marks its row, and those from which it      *)
(* moves a row of the given status.                                        *)
Marking == {"failing", "failing text", "cleaning, cancelled", "cancelling"}
Holder(pc, status) ==
  \/ status \in Unfinished /\ pc \in Marking
  \/ status = "uploaded" /\ pc \in {"storing", "starting"}
  \/ status = "parsing" /\ pc \in {"parsing", "writing", "finishing"}

(* Places after the row was inserted or reset.                             *)
Busy(pc) == pc \notin {"free", "resetting"}

(* A step of upload u about paper p: it changes nothing of other uploads   *)
(* and papers, and what it does to its own place and row is tied together. *)
Frame(u, p) ==
  /\ upload' = [upload EXCEPT ![u] = upload'[u]]
  /\ upload'[u] = Free \/ upload'[u] \in [pc : UploadPlaces, paper : {p}]
  /\ upload[u] = Free \/ Paper(u) = p
  /\ papers' = [papers EXCEPT ![p] = papers'[p]] /\ papers'[p] \in Rows
  /\ \A q \in Papers \ {p} : /\ q \in abandoned' <=> q \in abandoned
                             /\ q \in released' <=> q \in released
                             /\ q \in deleting' <=> q \in deleting
  /\ deleting' \subseteq Papers /\ abandoned' \subseteq Papers
  /\ released \subseteq released' /\ released' \subseteq Papers
  /\ assignment' = assignment

Move(u, p) ==
  LET a == upload[u].pc
      b == upload'[u].pc
      s == papers[p].status
      t == papers'[p].status
  IN (* the row exists from now on and keeps its file                      *)
     /\ t # "none"
     /\ \/ s # "none" /\ papers'[p].file = papers[p].file
        \/ s = "none" /\ papers'[p].file \in Files
                      /\ stage_upload_file(papers'[p].file)
     (* who held the row still does, or has settled or abandoned it        *)
     /\ Holder(a, s) => Holder(b, t) \/ t \notin Unfinished \/ p \in abandoned'
     /\ t # s \/ (p \in abandoned /\ p \notin abandoned') =>
          Holder(b, t) \/ t \notin Unfinished \/ p \in abandoned'
     (* only a busy upload changes an unfinished row, and an upload becomes *)
     (* busy with a row that was new or failed                             *)
     /\ t # s /\ s \in Unfinished => Busy(a)
     /\ Busy(b) => \/ p \in released' \/ t \in Unfinished
                   \/ t = s /\ Busy(a)
     /\ Busy(b) /\ ~Busy(a) => s \in {"none", "failed"} /\ t \in Unfinished
     (* the source comes before parsing and stays                          *)
     /\ b = "starting" => papers'[p].source = TRUE
     /\ papers[p].source = TRUE /\ s # "none" => papers'[p].source = TRUE
     /\ t # s /\ t = "parsing" => a = "starting"
     /\ t # s /\ t = "ready" =>
          /\ s = "parsing" /\ a = "finishing"
          /\ papers'[p].text = papers[p].text
     (* the text comes before the end, and only a clean-up takes it away   *)
     /\ b = "finishing" => papers'[p].text # NoText
     /\ papers[p].text # NoText =>
          papers'[p].text # NoText \/ s = "none" \/ Busy(a)
     (* a text is one the parser made of the file of its row, and only     *)
     (* what the parser may accept is written and finished                 *)
     /\ \/ papers'[p].text = NoText
        \/ s # "none" /\ papers'[p].text \in {papers[p].text} \cup Texts[papers[p].file]
     /\ b = "writing" => a = "parsing" /\ Texts[papers[p].file] # {}
     /\ b = "finishing" => a = "writing"
     (* a delete without an answer is one of a clean-up, which has only its *)
     (* cancellation left to mark, and releases the paper when it does     *)
     /\ p \in deleting' /\ p \notin deleting =>
          /\ Busy(a) /\ t = s /\ (b = "cancelling" \/ ~Busy(b))
          /\ a \in {"cleaning", "cleaning, cancelled"}
     /\ Busy(a) /\ a = "cancelling" =>
          /\ ~Busy(b)
          /\ t # s /\ p \in deleting => p \in released'

(* Places and papers of uploads, by type.                                  *)
LEMMA UploadTypes ==
  ASSUME TypeOK, NEW u \in Uploads
  PROVE  /\ upload[u] = Free => upload[u].pc = "free"
         /\ upload[u].pc \in UploadPlaces \cup {"free"}
         /\ upload[u] # Free =>
              /\ Paper(u) \in Papers /\ upload[u].pc \in UploadPlaces
              /\ upload[u].pc # "free"
              /\ upload[u] \in [pc : UploadPlaces, paper : Papers]
<1>1. Free.pc = "free"
  BY DEF Free
<1>2. upload[u] \in {Free} \cup [pc : UploadPlaces, paper : Papers]
  BY DEF TypeOK
<1>3. "free" \notin UploadPlaces
  BY DEF UploadPlaces, Owning
<1> QED BY <1>1, <1>2, <1>3 DEF Paper

(* The three ways an upload goes on.                                       *)
LEMMA UploadGoes ==
  ASSUME TypeOK, NEW u \in Uploads, upload[u] # Free
  PROVE  /\ Ends(u) => /\ upload' = [upload EXCEPT ![u] = upload'[u]]
                       /\ upload'[u] = Free /\ upload'[u].pc = "free"
         /\ \A b \in UploadPlaces : Becomes(u, b) =>
              /\ upload' = [upload EXCEPT ![u] = upload'[u]]
              /\ upload'[u].pc = b
              /\ upload'[u] \in [pc : UploadPlaces, paper : {Paper(u)}]
<1>1. upload \in [Uploads -> {Free} \cup [pc : UploadPlaces, paper : Papers]]
  BY DEF TypeOK
<1>2. upload[u] \in [pc : UploadPlaces, paper : Papers]
  BY UploadTypes
<1>3. Ends(u) => /\ upload' = [upload EXCEPT ![u] = upload'[u]]
                 /\ upload'[u] = Free /\ upload'[u].pc = "free"
  BY <1>1 DEF Ends, Free
<1>4. ASSUME NEW b \in UploadPlaces, Becomes(u, b)
      PROVE  /\ upload' = [upload EXCEPT ![u] = upload'[u]]
             /\ upload'[u].pc = b
             /\ upload'[u] \in [pc : UploadPlaces, paper : {Paper(u)}]
  <2>1. PICK c : c = [upload[u] EXCEPT !.pc = b]
    OBVIOUS
  <2>2. c.pc = b /\ c \in [pc : UploadPlaces, paper : {Paper(u)}]
    BY <1>2, <2>1 DEF Paper
  <2>3. upload' = [upload EXCEPT ![u] = c] /\ upload'[u] = c
    BY <1>1, <1>4, <2>1 DEF Becomes
  <2> QED BY <2>2, <2>3
<1> QED BY <1>3, <1>4

(* The ways a row changes.                                                 *)
LEMMA RowGoes ==
  ASSUME TypeOK, NEW p \in Papers
  PROVE  /\ papers[p] \in Rows
         /\ UNCHANGED papers => papers' = [papers EXCEPT ![p] = papers'[p]]
         /\ \A st \in {"uploaded", "parsing", "ready", "failed"} : Set(p, st) =>
              /\ papers' = [papers EXCEPT ![p] = papers'[p]]
              /\ papers'[p] \in Rows /\ papers'[p].status = st
              /\ papers'[p].file = papers[p].file
              /\ papers'[p].source = papers[p].source
              /\ papers'[p].text = papers[p].text
         /\ StoresSource(p) =>
              /\ papers' = [papers EXCEPT ![p] = papers'[p]]
              /\ papers'[p] \in Rows /\ papers'[p].status = papers[p].status
              /\ papers'[p].file = papers[p].file
              /\ papers'[p].source = TRUE /\ papers'[p].text = papers[p].text
         /\ StoresText(p) /\ papers[p].status # "none" =>
              /\ papers' = [papers EXCEPT ![p] = papers'[p]]
              /\ papers'[p] \in Rows /\ papers'[p].status = papers[p].status
              /\ papers'[p].file = papers[p].file
              /\ papers'[p].source = papers[p].source
              /\ papers'[p].text # NoText /\ papers'[p].text \in Texts[papers[p].file]
         /\ Deletes(p) =>
              /\ papers' = [papers EXCEPT ![p] = papers'[p]]
              /\ papers'[p] \in Rows /\ papers'[p].status = papers[p].status
              /\ papers'[p].file = papers[p].file
              /\ papers'[p].source = papers[p].source
              /\ papers'[p].text = NoText
<1>1. papers \in [Papers -> Rows]
  BY DEF TypeOK, Rows
<1>2. papers[p] \in Rows
  BY <1>1
<1>3. UNCHANGED papers => papers' = [papers EXCEPT ![p] = papers'[p]]
  BY <1>1
<1>4. ASSUME NEW st \in {"uploaded", "parsing", "ready", "failed"}, Set(p, st)
      PROVE  /\ papers' = [papers EXCEPT ![p] = papers'[p]]
             /\ papers'[p] \in Rows /\ papers'[p].status = st
             /\ papers'[p].file = papers[p].file
             /\ papers'[p].source = papers[p].source
             /\ papers'[p].text = papers[p].text
  BY <1>1, <1>4 DEF Set, Rows
<1>5. ASSUME StoresSource(p)
      PROVE  /\ papers' = [papers EXCEPT ![p] = papers'[p]]
             /\ papers'[p] \in Rows /\ papers'[p].status = papers[p].status
             /\ papers'[p].file = papers[p].file
             /\ papers'[p].source = TRUE
             /\ papers'[p].text = papers[p].text
  BY <1>1, <1>5 DEF StoresSource, Rows
<1>6. ASSUME StoresText(p), papers[p].status # "none"
      PROVE  /\ papers' = [papers EXCEPT ![p] = papers'[p]]
             /\ papers'[p] \in Rows /\ papers'[p].status = papers[p].status
             /\ papers'[p].file = papers[p].file
             /\ papers'[p].source = papers[p].source
             /\ papers'[p].text # NoText /\ papers'[p].text \in Texts[papers[p].file]
  <2>1. PICK d \in Texts[papers[p].file] : papers' = [papers EXCEPT ![p].text = d]
    BY <1>6 DEF StoresText
  <2>2. papers[p].file \in Files
    BY <1>2, <1>6 DEF TypeOK, Rows
  <2>3. d # NoText /\ d \in UNION {Texts[f] : f \in Files}
    <3>1. Texts[papers[p].file] = {e \in Answers[papers[p].file] : e.ok}
      BY <2>2 DEF Texts
    <3>2. NoText.ok = FALSE
      BY DEF NoText
    <3> QED BY <2>1, <2>2, <3>1, <3>2
  <2> QED BY <1>1, <2>1, <2>3 DEF Rows
<1>7. ASSUME Deletes(p)
      PROVE  /\ papers' = [papers EXCEPT ![p] = papers'[p]]
             /\ papers'[p] \in Rows /\ papers'[p].status = papers[p].status
             /\ papers'[p].file = papers[p].file
             /\ papers'[p].source = papers[p].source
             /\ papers'[p].text = NoText
  BY <1>1, <1>7 DEF Deletes, Rows
<1> QED BY <1>2, <1>3, <1>4, <1>5, <1>6, <1>7

(* An upload in flight is about a paper that has a row.                    *)
Known == \A u \in Uploads : upload[u] # Free => papers[Paper(u)].status # "none"

(* Reserving a row.                                                        *)
LEMMA ReserveMoves ==
  ASSUME TypeOK, NEW u \in Uploads, NEW p \in Papers, Reserve(u, p)
  PROVE  Frame(u, p) /\ Move(u, p)
<1>0. /\ upload \in [Uploads -> {Free} \cup [pc : UploadPlaces, paper : Papers]]
      /\ papers \in [Papers -> Rows] /\ papers[p] \in Rows
      /\ upload[u] = Free /\ upload[u].pc = "free"
      /\ UNCHANGED <<assignment, deleting, abandoned, released>>
      /\ deleting \subseteq Papers /\ abandoned \subseteq Papers
      /\ released \subseteq Papers
  BY UploadTypes DEF TypeOK, Rows, Reserve
<1>1. ASSUME NEW b \in {"storing", "resetting"},
             upload' = [upload EXCEPT ![u] = [pc |-> b, paper |-> p]]
      PROVE  /\ upload' = [upload EXCEPT ![u] = upload'[u]]
             /\ upload'[u] \in [pc : UploadPlaces, paper : {p}]
             /\ upload'[u].pc = b
  <2>1. b \in UploadPlaces
    BY DEF UploadPlaces, Owning
  <2> QED BY <1>0, <1>1, <2>1
<1>2. ASSUME NEW f \in Files, papers[p].status = "none", stage_upload_file(f),
             papers' = [papers EXCEPT ![p] = [NoPaper EXCEPT !.status = "uploaded",
                                                             !.file = f]],
             upload' = [upload EXCEPT ![u] = [pc |-> "storing", paper |-> p]]
      PROVE  Frame(u, p) /\ Move(u, p)
  <2>1. PICK r : r = [NoPaper EXCEPT !.status = "uploaded", !.file = f]
    OBVIOUS
  <2>2. /\ r.status = "uploaded" /\ r.file = f /\ r \in Rows /\ r.text = NoText
    BY <2>1 DEF NoPaper, Rows
  <2>3. papers'[p] = r /\ papers' = [papers EXCEPT ![p] = papers'[p]]
    BY <1>0, <1>2, <2>1
  <2>4. Frame(u, p)
    BY <1>0, <1>1, <1>2, <2>2, <2>3 DEF Frame
  <2>5. upload'[u].pc = "storing"
    BY <1>1, <1>2
  <2>6. Move(u, p)
    BY <1>0, <1>2, <2>2, <2>3, <2>5 DEF Move, Holder, Busy, Unfinished, Marking
  <2> QED BY <2>4, <2>6
<1>3. ASSUME papers[p].status = "failed", UNCHANGED papers,
             upload' = [upload EXCEPT ![u] = [pc |-> "resetting", paper |-> p]]
      PROVE  Frame(u, p) /\ Move(u, p)
  <2>1. papers' = [papers EXCEPT ![p] = papers'[p]]
    BY <1>0, <1>3
  <2>2. Frame(u, p)
    BY <1>0, <1>1, <1>3, <2>1 DEF Frame
  <2>3. upload'[u].pc = "resetting"
    BY <1>1, <1>3
  <2>4. Move(u, p)
    BY <1>0, <1>3, <2>3 DEF Move, Holder, Busy, Unfinished, Marking
  <2> QED BY <2>2, <2>4
<1> QED BY <1>2, <1>3 DEF Reserve

(* The only ways a step of an upload under way changes the shared state.   *)
RowChange(p) ==
  \/ UNCHANGED papers
  \/ StoresSource(p) \/ StoresText(p) \/ Deletes(p)
  \/ \E st \in {"uploaded", "parsing", "ready", "failed"} : Set(p, st)

(* Such a step touches its own place, row and history alone.               *)
LEMMA StepFrames ==
  ASSUME TypeOK, Known, NEW u \in Uploads, upload[u] # Free,
         Ends(u) \/ \E b \in UploadPlaces : Becomes(u, b),
         RowChange(Paper(u)),
         abandoned' \in {abandoned, abandoned \cup {Paper(u)},
                         abandoned \ {Paper(u)}},
         released' \in {released, released \cup {Paper(u)}},
         deleting' \in {deleting, deleting \cup {Paper(u)}},
         assignment' = assignment
  PROVE  Frame(u, Paper(u))
<1> DEFINE p == Paper(u)
<1>1. /\ p \in Papers /\ abandoned \subseteq Papers /\ released \subseteq Papers
      /\ deleting \subseteq Papers /\ papers[p].status # "none"
  BY UploadTypes DEF TypeOK, Known
<1>2. /\ upload' = [upload EXCEPT ![u] = upload'[u]]
      /\ upload'[u] = Free \/ upload'[u] \in [pc : UploadPlaces, paper : {p}]
  BY UploadGoes
<1>3. papers' = [papers EXCEPT ![p] = papers'[p]] /\ papers'[p] \in Rows
  BY <1>1, RowGoes DEF RowChange
<1> HIDE DEF p
<1>4. /\ \A q \in Papers \ {p} : /\ q \in abandoned' <=> q \in abandoned
                                 /\ q \in released' <=> q \in released
                                 /\ q \in deleting' <=> q \in deleting
      /\ deleting' \subseteq Papers /\ abandoned' \subseteq Papers
      /\ released \subseteq released' /\ released' \subseteq Papers
  BY <1>1 DEF p
<1> QED BY <1>2, <1>3, <1>4 DEF Frame, p

(* A step that leaves the status of the row only has to keep the row held  *)
(* and come to each place from the right one.                              *)
LEMMA PlaceMoves ==
  ASSUME TypeOK, Known, NEW u \in Uploads, upload[u] # Free, NEW p, p = Paper(u),
         papers'[p].status = papers[p].status,
         papers'[p].file = papers[p].file,
         papers'[p].source = papers[p].source \/ papers'[p].source = TRUE,
         papers'[p].text \in {papers[p].text, NoText} \cup Texts[papers[p].file],
         papers'[p].text = NoText => papers[p].text = NoText \/ Busy(upload[u].pc),
         abandoned \subseteq abandoned',
         Holder(upload[u].pc, papers[p].status) =>
           \/ Holder(upload'[u].pc, papers[p].status) \/ p \in abandoned',
         Busy(upload'[u].pc) => Busy(upload[u].pc),
         upload'[u].pc = "starting" => papers'[p].source = TRUE,
         upload'[u].pc = "finishing" =>
           papers'[p].text # NoText /\ upload[u].pc = "writing",
         upload'[u].pc = "writing" =>
           upload[u].pc = "parsing" /\ Texts[papers[p].file] # {},
         deleting' = deleting \/
           (/\ upload[u].pc \in {"cleaning", "cleaning, cancelled"}
            /\ upload'[u].pc \in {"cancelling", "free"}),
         upload[u].pc = "cancelling" => ~Busy(upload'[u].pc)
  PROVE  Move(u, p)
<1>1. papers[p].status # "none"
  BY DEF Known
<1>2. Busy("cleaning") /\ Busy("cleaning, cancelled") /\ ~Busy("free")
  BY DEF Busy
<1> QED BY <1>1, <1>2 DEF Move

(* Resetting a failed row.                                                 *)
LEMMA ResetMoves ==
  ASSUME TypeOK, Known, NEW u \in Uploads, Reset(u)
  PROVE  Frame(u, Paper(u)) /\ Move(u, Paper(u))
<1> DEFINE p == Paper(u)
<1>0. /\ upload[u] # Free /\ upload[u].pc = "resetting" /\ p \in Papers
      /\ UNCHANGED <<assignment, deleting, released>>
      /\ "storing" \in UploadPlaces
  BY UploadTypes DEF Reset, UploadPlaces, Owning
<1> HIDE DEF p
<1>1. CASE /\ papers[p].status = "failed" /\ Set(p, "uploaded")
           /\ Becomes(u, "storing") /\ abandoned' = abandoned \ {p}
  <2>1. Frame(u, p)
    BY <1>0, <1>1, StepFrames DEF RowChange, p
  <2>2. /\ papers'[p].status = "uploaded" /\ papers'[p].file = papers[p].file
        /\ papers'[p].source = papers[p].source
        /\ papers'[p].text = papers[p].text
    BY <1>0, <1>1, RowGoes
  <2>3. upload'[u].pc = "storing"
    BY <1>0, <1>1, UploadGoes
  <2>4. Move(u, p)
    BY <1>0, <1>1, <2>2, <2>3 DEF Move, Holder, Busy, Unfinished, Marking
  <2> QED BY <2>1, <2>4 DEF p
<1>2. CASE Ends(u) /\ UNCHANGED <<papers, abandoned>>
  <2>1. Frame(u, p)
    BY <1>0, <1>2, StepFrames DEF RowChange, p
  <2>2. upload'[u].pc = "free"
    BY <1>0, <1>2, UploadGoes
  <2>3. Move(u, p)
    BY <1>0, <1>2, <2>2, PlaceMoves DEF p, Busy, Holder, Marking
  <2> QED BY <2>1, <2>3 DEF p
<1> QED BY <1>1, <1>2 DEF Reset, Allowed, p

(* Writing an object leaves the status of the row.                         *)
LEMMA ObjectStored ==
  ASSUME TypeOK, NEW p \in Papers, papers[p].status # "none",
         UNCHANGED papers \/ StoresSource(p) \/ StoresText(p)
  PROVE  /\ RowChange(p)
         /\ papers'[p].status = papers[p].status
         /\ papers'[p].file = papers[p].file
         /\ papers'[p].source = papers[p].source \/ papers'[p].source = TRUE
         /\ papers'[p].text \in {papers[p].text} \cup Texts[papers[p].file]
         /\ papers'[p].text = NoText => papers[p].text = NoText
BY RowGoes DEF RowChange

(* Storing the source, parsing and storing the text.                       *)
LEMMA StoreMoves ==
  ASSUME TypeOK, Known, NEW u \in Uploads,
         StoreSource(u) \/ Parse(u) \/ WriteText(u)
  PROVE  Frame(u, Paper(u)) /\ Move(u, Paper(u))
<1> DEFINE p == Paper(u)
<1>0. /\ upload[u] # Free /\ p \in Papers /\ papers[p].status # "none"
      /\ UNCHANGED <<assignment, deleting, released>>
      /\ {"starting", "failing", "writing", "finishing", "failing text",
          "cleaning"} \subseteq UploadPlaces
  BY UploadTypes DEF StoreSource, Parse, WriteText, UploadPlaces, Owning, Known
<1> HIDE DEF p
<1>1. ASSUME UNCHANGED papers \/ StoresSource(p) \/ StoresText(p),
             Ends(u) \/ \E b \in UploadPlaces : Becomes(u, b),
             abandoned' \in {abandoned, abandoned \cup {p}}
      PROVE  Frame(u, p)
  BY <1>0, <1>1, StepFrames, ObjectStored DEF p
<1>2. ASSUME UNCHANGED papers \/ StoresSource(p) \/ StoresText(p),
             Busy(upload[u].pc), upload[u].pc # "cancelling",
             Ends(u) \/ Becomes(u, "cleaning"), abandoned' = abandoned \cup {p}
      PROVE  Frame(u, p) /\ Move(u, p)
  <2>1. upload'[u].pc \in {"free", "cleaning"}
    BY <1>0, <1>2, UploadGoes
  <2>2. Frame(u, p)
    BY <1>0, <1>1, <1>2
  <2>3. /\ papers'[p].status = papers[p].status
        /\ papers'[p].file = papers[p].file
        /\ papers'[p].source = papers[p].source \/ papers'[p].source = TRUE
        /\ papers'[p].text \in {papers[p].text} \cup Texts[papers[p].file]
    BY <1>0, <1>2, ObjectStored
  <2>4. Move(u, p)
    BY <1>0, <1>2, <2>1, <2>3, PlaceMoves DEF p
  <2> QED BY <2>2, <2>4
<1>3. CASE StoreSource(u)
  <2>0. upload[u].pc = "storing" /\ Busy("storing")
    BY <1>3 DEF StoreSource, Busy
  <2>2. ASSUME NEW b \in {"starting", "failing"}, Becomes(u, b),
               UNCHANGED papers \/ StoresSource(p),
               b = "starting" => StoresSource(p), abandoned' = abandoned
        PROVE  Frame(u, p) /\ Move(u, p)
    <3>1. upload'[u].pc = b
      BY <1>0, <2>2, UploadGoes
    <3>2. Frame(u, p)
      BY <1>0, <1>1, <2>2
    <3>3. /\ papers'[p].status = papers[p].status
          /\ papers'[p].file = papers[p].file
          /\ papers'[p].source = papers[p].source \/ papers'[p].source = TRUE
          /\ b = "starting" => papers'[p].source = TRUE
          /\ papers'[p].text \in {papers[p].text} \cup Texts[papers[p].file]
      BY <1>0, <2>2, ObjectStored, RowGoes
    <3>4. Holder("storing", papers[p].status) => Holder(b, papers[p].status)
      BY <2>2 DEF Holder, Marking, Unfinished
    <3>5. Move(u, p)
      BY <1>0, <2>0, <2>2, <3>1, <3>3, <3>4, PlaceMoves DEF p
    <3> QED BY <3>2, <3>5
  <2>3. \/ Ends(u) /\ abandoned' = abandoned \cup {p} 
        \/ \E b \in {"starting", "failing"} :
             /\ Becomes(u, b) /\ (UNCHANGED papers \/ StoresSource(p))
             /\ b = "starting" => StoresSource(p) 
             /\ abandoned' = abandoned
    BY <1>3 DEF StoreSource, Abandon, p
  <2>4. UNCHANGED papers \/ StoresSource(p)
    BY <1>3 DEF StoreSource, p
  <2> QED BY <1>2, <2>0, <2>2, <2>3, <2>4 DEF p
<1>4. CASE Parse(u)
  <2>0. upload[u].pc = "parsing" /\ Busy("parsing") /\ UNCHANGED papers
    BY <1>4 DEF Parse, Busy
  <2>1. CASE Ends(u) /\ abandoned' = abandoned \cup {p}
    BY <1>2, <2>0, <2>1 DEF p
  <2>2. ASSUME NEW b \in {"writing", "failing"}, Becomes(u, b),
               b = "writing" => Texts[papers[p].file] # {},
               abandoned' = abandoned
        PROVE  Frame(u, p) /\ Move(u, p)
    <3>1. upload'[u].pc = b
      BY <1>0, <2>2, UploadGoes
    <3>2. Frame(u, p)
      BY <1>0, <1>1, <2>0, <2>2
    <3>4. Holder("parsing", papers[p].status) => Holder(b, papers[p].status)
      BY <2>2 DEF Holder, Marking, Unfinished
    <3>5. Move(u, p)
      BY <1>0, <2>0, <2>2, <3>1, <3>4, PlaceMoves DEF p
    <3> QED BY <3>2, <3>5
  <2> QED BY <1>4, <2>1, <2>2 DEF Parse, Abandon, p
<1>5. CASE WriteText(u)
  <2>0. /\ upload[u].pc = "writing" /\ Busy("writing")
        /\ UNCHANGED papers \/ StoresText(p)
    BY <1>5 DEF WriteText, Busy, p
  <2>1. CASE Becomes(u, "cleaning") /\ abandoned' = abandoned \cup {p}
    BY <1>2, <2>0, <2>1 DEF p
  <2>2. ASSUME NEW b \in {"finishing", "failing text"}, Becomes(u, b),
               b = "finishing" => StoresText(p), abandoned' = abandoned
        PROVE  Frame(u, p) /\ Move(u, p)
    <3>1. upload'[u].pc = b
      BY <1>0, <2>2, UploadGoes
    <3>2. Frame(u, p)
      BY <1>0, <1>1, <2>0, <2>2
    <3>3. /\ papers'[p].status = papers[p].status
          /\ papers'[p].file = papers[p].file
          /\ papers'[p].source = papers[p].source \/ papers'[p].source = TRUE
          /\ b = "finishing" => papers'[p].text # NoText
          /\ papers'[p].text \in {papers[p].text} \cup Texts[papers[p].file]
      BY <1>0, <2>0, <2>2, ObjectStored, RowGoes
    <3>4. Holder("writing", papers[p].status) => Holder(b, papers[p].status)
      BY <2>2 DEF Holder, Marking, Unfinished
    <3>5. Move(u, p)
      BY <1>0, <2>0, <2>2, <3>1, <3>3, <3>4, PlaceMoves DEF p
    <3> QED BY <3>2, <3>5
  <2> QED BY <1>5, <2>1, <2>2 DEF WriteText, Abandon, p
<1> QED BY <1>3, <1>4, <1>5 DEF p

(* Beginning to parse, while the teacher may have been disabled.           *)
LEMMA BeginMoves ==
  ASSUME TypeOK, Known, NEW u \in Uploads, BeginParsing(u)
  PROVE  Frame(u, Paper(u)) /\ Move(u, Paper(u))
<1> DEFINE p == Paper(u)
<1>0. /\ upload[u] # Free /\ p \in Papers /\ upload[u].pc = "starting"
      /\ UNCHANGED <<assignment, deleting, released>> /\ Busy("starting")
      /\ "parsing" \in UploadPlaces
  BY UploadTypes DEF BeginParsing, UploadPlaces, Owning, Busy
<1> HIDE DEF p
<1>1. CASE /\ papers[p].status = "uploaded" /\ Set(p, "parsing")
           /\ \/ Becomes(u, "parsing") /\ abandoned' = abandoned
              \/ Ends(u) /\ abandoned' = abandoned \cup {p}
  <2>1. Frame(u, p)
    BY <1>0, <1>1, StepFrames DEF RowChange, p
  <2>2. /\ papers'[p].status = "parsing" /\ papers'[p].file = papers[p].file
        /\ papers'[p].source = papers[p].source
        /\ papers'[p].text = papers[p].text
    BY <1>0, <1>1, RowGoes
  <2>3. upload'[u].pc = "parsing" \/ (upload'[u].pc = "free" /\ p \in abandoned')
    BY <1>0, <1>1, UploadGoes
  <2>4. Move(u, p)
    BY <1>0, <1>1, <2>2, <2>3 DEF Move, Holder, Busy, Unfinished, Marking
  <2> QED BY <2>1, <2>4 DEF p
<1>2. CASE /\ UNCHANGED papers /\ Ends(u)
           /\ abandoned' \in {abandoned, abandoned \cup {p}}
           /\ papers[p].status = "uploaded" => p \in abandoned'
  <2>1. Frame(u, p)
    BY <1>0, <1>2, StepFrames DEF RowChange, p
  <2>2. upload'[u].pc = "free"
    BY <1>0, <1>2, UploadGoes
  <2>3. Holder("starting", papers[p].status) => p \in abandoned'
    BY <1>2 DEF Holder, Marking
  <2>4. Move(u, p)
    BY <1>0, <1>2, <2>2, <2>3, PlaceMoves DEF p, Busy
  <2> QED BY <2>1, <2>4 DEF p
<1> QED BY <1>1, <1>2 DEF BeginParsing, Allowed, Abandon, AbandonIfClosed, p

(* The last transaction, its answer lost or refused.                       *)
LEMMA FinishMoves ==
  ASSUME TypeOK, Known, NEW u \in Uploads, Finish(u)
  PROVE  Frame(u, Paper(u)) /\ Move(u, Paper(u))
<1> DEFINE p == Paper(u)
<1>0. /\ upload[u] # Free /\ p \in Papers /\ upload[u].pc = "finishing"
      /\ UNCHANGED <<assignment, deleting>> /\ Busy("finishing")
      /\ {"cleaning", "cleaning, cancelled"} \subseteq UploadPlaces
  BY UploadTypes DEF Finish, UploadPlaces, Owning, Busy
<1> HIDE DEF p
<1>1. CASE /\ papers[p].status = "parsing" /\ Set(p, "ready")
           /\ UNCHANGED abandoned
           /\ \/ Ends(u) /\ UNCHANGED released
              \/ /\ Becomes(u, "cleaning") \/ Becomes(u, "cleaning, cancelled")
                 /\ released' = released \cup {p}
  <2>1. Frame(u, p)
    BY <1>0, <1>1, StepFrames DEF RowChange, p
  <2>2. /\ papers'[p].status = "ready" /\ papers'[p].file = papers[p].file
        /\ papers'[p].source = papers[p].source
        /\ papers'[p].text = papers[p].text
    BY <1>0, <1>1, RowGoes
  <2>3. \/ upload'[u].pc = "free"
        \/ upload'[u].pc \in {"cleaning", "cleaning, cancelled"} /\ p \in released'
    BY <1>0, <1>1, UploadGoes
  <2>4. Move(u, p)
    BY <1>0, <1>1, <2>2, <2>3 DEF Move, Holder, Busy, Unfinished, Marking
  <2> QED BY <2>1, <2>4 DEF p
<1>2. CASE /\ UNCHANGED <<papers, released>> /\ Becomes(u, "cleaning")
           /\ abandoned' \in {abandoned, abandoned \cup {p}}
           /\ papers[p].status = "parsing" => p \in abandoned'
  <2>1. Frame(u, p)
    BY <1>0, <1>2, StepFrames DEF RowChange, p
  <2>2. upload'[u].pc = "cleaning"
    BY <1>0, <1>2, UploadGoes
  <2>3. Holder("finishing", papers[p].status) => p \in abandoned'
    BY <1>2 DEF Holder, Marking
  <2>4. Move(u, p)
    BY <1>0, <1>2, <2>2, <2>3, PlaceMoves DEF p
  <2> QED BY <2>1, <2>4 DEF p
<1> QED BY <1>1, <1>2 DEF Finish, Allowed, Abandon, AbandonIfClosed, p

(* Marking the row failed.                                                 *)
LEMMA MarkMoves ==
  ASSUME TypeOK, Known, NEW u \in Uploads, mark_failed(u)
  PROVE  Frame(u, Paper(u)) /\ Move(u, Paper(u))
<1> DEFINE p == Paper(u)
           then == AfterMark[upload[u].pc]
<1>0. /\ upload[u] # Free /\ p \in Papers /\ UNCHANGED <<assignment, deleting>>
      /\ upload[u].pc \in {"failing", "failing text", "cancelling"}
      /\ Goto(u, then) /\ "cleaning" \in UploadPlaces
  BY UploadTypes DEF mark_failed, AfterMark, UploadPlaces, Owning
<1>1. /\ then \in {"free", "cleaning"}
      /\ then = "free" => Ends(u)
      /\ then = "cleaning" => Becomes(u, "cleaning")
      /\ upload[u].pc = "cancelling" => then = "free"
      /\ Busy(upload[u].pc) /\ ~Busy("free") /\ Busy("cleaning")
  BY <1>0 DEF AfterMark, Goto, Busy
<1> HIDE DEF p, then
<1>2. upload'[u].pc = then /\ (Ends(u) \/ \E b \in UploadPlaces : Becomes(u, b))
  BY <1>0, <1>1, UploadGoes
<1>3. CASE /\ papers[p].status \in Unfinished /\ Set(p, "failed")
           /\ Release(u, then) /\ UNCHANGED abandoned
  <2>1. /\ released' \in {released, released \cup {p}}
        /\ then # "free" \/ p \in deleting => p \in released'
    BY <1>3 DEF Release, p
  <2>2. Frame(u, p)
    BY <1>0, <1>2, <1>3, <2>1, StepFrames DEF RowChange, p
  <2>3. /\ papers'[p].status = "failed" /\ papers'[p].file = papers[p].file
        /\ papers'[p].source = papers[p].source
        /\ papers'[p].text = papers[p].text
    BY <1>0, <1>3, RowGoes
  <2>4. Move(u, p)
    BY <1>0, <1>1, <1>2, <1>3, <2>1, <2>3 DEF Move, Holder, Busy, Unfinished, Marking
  <2> QED BY <2>2, <2>4 DEF p
<1>4. CASE /\ UNCHANGED <<papers, released>>
           /\ abandoned' \in {abandoned, abandoned \cup {p}}
           /\ papers[p].status \in Unfinished => p \in abandoned'
  <2>1. Frame(u, p)
    BY <1>0, <1>2, <1>4, StepFrames DEF RowChange, p
  <2>2. Holder(upload[u].pc, papers[p].status) => p \in abandoned'
    BY <1>4 DEF Holder, Unfinished
  <2>3. Move(u, p)
    BY <1>0, <1>1, <1>2, <1>4, <2>2, PlaceMoves DEF p
  <2> QED BY <2>1, <2>3 DEF p
<1> QED BY <1>3, <1>4 DEF mark_failed, Allowed, Abandon, AbandonIfClosed, p, then

(* Cleaning up after a failure.                                            *)
LEMMA CleanMoves ==
  ASSUME TypeOK, Known, NEW u \in Uploads, delete_after_failure(u)
  PROVE  Frame(u, Paper(u)) /\ Move(u, Paper(u))
<1> DEFINE p == Paper(u)
           b == IF upload[u].pc = "cleaning" THEN "free" ELSE "cancelling"
<1>0. /\ upload[u] # Free /\ p \in Papers
      /\ upload[u].pc \in {"cleaning", "cleaning, cancelled"}
      /\ Goto(u, b) /\ "cancelling" \in UploadPlaces
      /\ UNCHANGED <<assignment, abandoned, released>>
      /\ Deletes(p) \/ UNCHANGED papers
      /\ deleting' \in {deleting, deleting \cup {p}}
  BY UploadTypes DEF delete_after_failure, Cleans, UploadPlaces, Owning
<1>1. /\ b = "free" => upload[u].pc = "cleaning" /\ Ends(u)
      /\ b # "free" => b = "cancelling" /\ Becomes(u, b)
      /\ upload[u].pc = "cleaning, cancelled" => b = "cancelling"
  BY <1>0 DEF Goto
<1> HIDE DEF p, b
<1>2. upload'[u].pc = b /\ (Ends(u) \/ \E c \in UploadPlaces : Becomes(u, c))
  BY <1>0, <1>1, UploadGoes
<1>3. Frame(u, p)
  BY <1>0, <1>2, StepFrames DEF RowChange, p
<1>4. /\ papers'[p].status = papers[p].status
      /\ papers'[p].file = papers[p].file
      /\ papers'[p].source = papers[p].source
      /\ papers'[p].text \in {papers[p].text, NoText}
  BY <1>0, RowGoes
<1>5. /\ Busy(upload[u].pc)
      /\ Holder(upload[u].pc, papers[p].status) => Holder(b, papers[p].status)
  BY <1>0, <1>1 DEF Busy, Holder, Marking
<1>6. Move(u, p)
  BY <1>0, <1>1, <1>2, <1>4, <1>5, PlaceMoves DEF p
<1> QED BY <1>3, <1>6 DEF p

(* A cancellation, at whatever await the request is in.                    *)
LEMMA CancelMoves ==
  ASSUME TypeOK, Known, NEW u \in Uploads, Cancel(u)
  PROVE  Frame(u, Paper(u)) /\ Move(u, Paper(u))
<1> DEFINE p == Paper(u)
           b == Cancelled[upload[u].pc]
<1>0. /\ upload[u] # Free /\ p \in Papers /\ Becomes(u, b)
      /\ upload[u].pc \in (Owning \cup {"cleaning"}) \ {"cancelling"}
      /\ UNCHANGED <<assignment, abandoned>>
  BY UploadTypes DEF Cancel, Cancelled, Owning
<1>1. /\ b \in {"cleaning, cancelled", "cancelling"} /\ b \in UploadPlaces
      /\ upload[u].pc \in {"cleaning", "cleaning, cancelled"} => b = "cancelling"
  BY <1>0 DEF Cancelled, UploadPlaces, Owning
<1> HIDE DEF p, b
<1>2. upload'[u].pc = b /\ (\E c \in UploadPlaces : Becomes(u, c))
  BY <1>0, <1>1, UploadGoes
<1>3. /\ Busy(upload[u].pc)
      /\ Holder(upload[u].pc, papers[p].status) => Holder(b, papers[p].status)
  BY <1>0, <1>1 DEF Busy, Holder, Marking, Owning, Unfinished
<1>4. CASE /\ UNCHANGED released
           /\ UNCHANGED papers \/ StoresText(p) \/ Deletes(p)
           /\ \/ UNCHANGED deleting
              \/ /\ deleting' = deleting \cup {p} /\ b = "cancelling"
                 /\ upload[u].pc \in {"cleaning", "cleaning, cancelled"}
  <2>1. Frame(u, p)
    BY <1>0, <1>2, <1>4, StepFrames DEF RowChange, p
  <2>2. /\ papers'[p].status = papers[p].status
        /\ papers'[p].file = papers[p].file
        /\ papers'[p].source = papers[p].source
        /\ papers'[p].text \in {papers[p].text, NoText} \cup Texts[papers[p].file]
    BY <1>0, <1>4, RowGoes DEF Known, p
  <2>3. /\ upload'[u].pc \in {"cleaning, cancelled", "cancelling"}
        /\ upload[u].pc # "cancelling"
        /\ Holder(upload[u].pc, papers[p].status) =>
             Holder(upload'[u].pc, papers[p].status)
        /\ \/ deleting' = deleting
           \/ /\ upload[u].pc \in {"cleaning", "cleaning, cancelled"}
              /\ upload'[u].pc \in {"cancelling", "free"}
    BY <1>0, <1>1, <1>2, <1>3, <1>4
  <2>4. Move(u, p)
    BY <1>0, <1>3, <2>2, <2>3, PlaceMoves DEF p
  <2> QED BY <2>1, <2>4 DEF p
<1>5. CASE /\ papers[p].status \in Unfinished
           /\ Set(p, "failed") /\ Release(u, "cancelling") /\ UNCHANGED deleting
  <2>1. released' = released \cup {p}
    BY <1>5 DEF Release, p
  <2>2. Frame(u, p)
    BY <1>0, <1>2, <1>5, <2>1, StepFrames DEF RowChange, p
  <2>3. /\ papers'[p].status = "failed" /\ papers'[p].file = papers[p].file
        /\ papers'[p].source = papers[p].source
        /\ papers'[p].text = papers[p].text
    BY <1>0, <1>5, RowGoes
  <2>4. Move(u, p)
    BY <1>0, <1>1, <1>2, <1>3, <1>5, <2>1, <2>3 DEF Move, Unfinished
  <2> QED BY <2>2, <2>4 DEF p
<1>6. \/ UNCHANGED <<papers, deleting, released>>
      \/ StoresText(p) /\ UNCHANGED <<deleting, released>>
      \/ /\ Allowed(p, Unfinished) /\ Set(p, "failed")
         /\ Release(u, "cancelling") /\ UNCHANGED deleting
      \/ /\ upload[u].pc \in {"cleaning", "cleaning, cancelled"}
         /\ Cleans(p) /\ UNCHANGED released
  BY DEF Cancel, p
<1> QED BY <1>1, <1>4, <1>5, <1>6 DEF Cleans, Allowed, p

(* The process of a request ends.                                          *)
LEMMA CrashMoves ==
  ASSUME TypeOK, Known, NEW u \in Uploads, Crash(u)
  PROVE  Frame(u, Paper(u)) /\ Move(u, Paper(u))
<1> DEFINE p == Paper(u)
<1>0. /\ upload[u] # Free /\ p \in Papers /\ Ends(u)
      /\ UNCHANGED <<assignment, released>>
      /\ abandoned' \in {abandoned, abandoned \cup {p}}
      /\ upload[u].pc \in Owning /\ papers[p].status \in Unfinished => p \in abandoned'
      /\ \/ UNCHANGED <<papers, deleting>>
         \/ /\ upload[u].pc \in {"cleaning", "cleaning, cancelled"}
            /\ UNCHANGED papers \/ Deletes(p)
            /\ deleting' \in {deleting, deleting \cup {p}}
  BY UploadTypes DEF Crash, Abandon, Cleans
<1> HIDE DEF p
<1>1. upload'[u].pc = "free"
  BY <1>0, UploadGoes
<1>2. Frame(u, p)
  BY <1>0, StepFrames DEF RowChange, p
<1>3. Holder(upload[u].pc, papers[p].status) => p \in abandoned'
  BY <1>0 DEF Holder, Marking, Owning, Unfinished
<1>4. /\ papers'[p].status = papers[p].status
      /\ papers'[p].file = papers[p].file
      /\ papers'[p].source = papers[p].source
      /\ papers'[p].text \in {papers[p].text, NoText}
      /\ papers' = papers \/ Busy(upload[u].pc)
  BY <1>0, RowGoes DEF Busy
<1>5. Move(u, p)
  BY <1>0, <1>1, <1>3, <1>4, PlaceMoves DEF p, Busy
<1> QED BY <1>2, <1>5 DEF p

-----------------------------------------------------------------------------
(* The invariant of uploads                                                *)

(* An unfinished row nobody abandoned has an upload that will move it.     *)
Owned ==
  \A p \in Papers :
    papers[p].status \in Unfinished /\ p \notin abandoned =>
      \E u \in Uploads : /\ upload[u] # Free /\ Paper(u) = p
                         /\ Holder(upload[u].pc, papers[p].status)

(* While a paper was never released, an upload busy with it is the only    *)
(* one, and its row is unfinished.                                         *)
Lone ==
  \A u \in Uploads : Busy(upload[u].pc) /\ Paper(u) \notin released =>
    /\ papers[Paper(u)].status \in Unfinished
    /\ \A v \in Uploads : Busy(upload[v].pc) /\ Paper(v) = Paper(u) => v = u

(* Parsing begins with the source in the storage, and it stays there.      *)
Sourced ==
  /\ \A u \in Uploads : upload[u].pc = "starting" => papers[Paper(u)].source = TRUE
  /\ \A p \in Papers : papers[p].status \in {"parsing", "ready"} => papers[p].source = TRUE

(* So does the text of a paper that was never released.                    *)
Texted ==
  /\ \A u \in Uploads : upload[u].pc = "finishing" /\ Paper(u) \notin released =>
       papers[Paper(u)].text # NoText
  /\ \A p \in Papers : papers[p].status = "ready" /\ p \notin released =>
       papers[p].text # NoText

(* A delete without an answer leaves the paper to its clean-up: until the  *)
(* paper is released the row is unfinished, and an upload still busy with  *)
(* it has only a cancellation left to mark.                                *)
Late ==
  \A p \in deleting \ released :
    /\ papers[p].status \in Unfinished
    /\ \A u \in Uploads : Busy(upload[u].pc) /\ Paper(u) = p =>
         upload[u].pc = "cancelling"

(* A text is one the parser made of the file of its row, and only what the *)
(* parser may accept is written and becomes ready.                         *)
Parsed ==
  /\ \A u \in Uploads : upload[u].pc \in {"writing", "finishing"} =>
       Texts[papers[Paper(u)].file] # {}
  /\ \A p \in Papers : papers[p].status = "ready" => Texts[papers[p].file] # {}
  /\ \A p \in Papers : papers[p].status # "none" =>
       papers[p].text \in {NoText} \cup Texts[papers[p].file]

UploadInv ==
  /\ TypeOK /\ Known /\ Owned /\ Lone /\ Sourced /\ Texted /\ Late /\ Parsed

(* What a step of upload u about paper p leaves to the others.             *)
LEMMA OthersKeep ==
  ASSUME TypeOK, NEW u \in Uploads, NEW p \in Papers, Frame(u, p)
  PROVE  /\ \A v \in Uploads \ {u} : upload'[v] = upload[v]
         /\ \A q \in Papers \ {p} : papers'[q] = papers[q]
         /\ upload'[u] # Free => upload'[u].paper = p
         /\ upload'[u] = Free => upload'[u].pc = "free"
         /\ upload'[u].pc # "free" => upload'[u].paper = p
         /\ upload' \in [Uploads -> {Free} \cup [pc : UploadPlaces, paper : Papers]]
         /\ papers' \in [Papers -> Rows]
<1>1. /\ upload \in [Uploads -> {Free} \cup [pc : UploadPlaces, paper : Papers]]
      /\ papers \in [Papers -> Rows]
  BY DEF TypeOK, Rows
<1>2. PICK c : c = upload'[u]
  OBVIOUS
<1>3. PICK r : r = papers'[p]
  OBVIOUS
<1>4. /\ upload' = [upload EXCEPT ![u] = c] /\ papers' = [papers EXCEPT ![p] = r]
      /\ r \in Rows /\ (c = Free \/ c \in [pc : UploadPlaces, paper : {p}])
  BY <1>2, <1>3 DEF Frame
<1>5. Free.pc = "free"
  BY DEF Free
<1>6. c \in {Free} \cup [pc : UploadPlaces, paper : Papers]
  BY <1>4
<1>7. /\ c # Free => c.paper = p
      /\ c = Free => c.pc = "free"
      /\ c.pc # "free" => c.paper = p
  BY <1>4, <1>5
<1> QED BY <1>1, <1>2, <1>4, <1>6, <1>7

(* Every step of an upload keeps the invariant.                            *)
LEMMA MoveKeeps ==
  ASSUME UploadInv, NEW u \in Uploads, NEW p \in Papers, Frame(u, p), Move(u, p),
         AccountsTypeOK'
  PROVE  UploadInv'
<1> DEFINE a == upload[u].pc
           b == upload'[u].pc
           s == papers[p].status
           t == papers'[p].status
<1>0. TypeOK /\ Known /\ Owned /\ Lone /\ Sourced /\ Texted /\ Late /\ Parsed
  BY DEF UploadInv
<1>1. /\ \A v \in Uploads \ {u} : upload'[v] = upload[v]
      /\ \A q \in Papers \ {p} : papers'[q] = papers[q]
      /\ upload'[u] # Free => upload'[u].paper = p
      /\ upload'[u] = Free => upload'[u].pc = "free"
      /\ upload'[u].pc # "free" => upload'[u].paper = p
      /\ upload' \in [Uploads -> {Free} \cup [pc : UploadPlaces, paper : Papers]]
      /\ papers' \in [Papers -> Rows]
  BY <1>0, OthersKeep
<1>2. \A v \in Uploads : upload[v].pc # "free" => upload[v] # Free /\ Paper(v) \in Papers
  BY <1>0, UploadTypes
<1>3. a # "free" => Paper(u) = p
  BY <1>2 DEF Frame
<1>4. \A q \in Papers \ {p} : /\ q \in abandoned' <=> q \in abandoned
                              /\ q \in released' <=> q \in released
                              /\ q \in deleting' <=> q \in deleting
  BY DEF Frame
<1>5. released \subseteq released'
  BY DEF Frame
<1>6. \A v \in Uploads \ {u} : Paper(v)' = Paper(v)
  BY <1>1 DEF Paper
<1>7. b # "free" => Paper(u)' = p
  BY <1>1 DEF Paper
<1>10. TypeOK'
  <2>1. /\ assignment' \in {"draft", "ready"}
        /\ deleting' \subseteq Papers
        /\ abandoned' \subseteq Papers /\ released' \subseteq Papers
    BY <1>0 DEF TypeOK, Frame
  <2>2. ASSUME NEW q \in Papers
        PROVE  /\ papers'[q].status = "none" <=> papers'[q].file = NoFile
               /\ papers'[q].status # "none" => stage_upload_file(papers'[q].file)
    <3>1. /\ papers[q].status = "none" <=> papers[q].file = NoFile
          /\ papers[q].status # "none" => stage_upload_file(papers[q].file)
      BY <1>0 DEF TypeOK
    <3>2. CASE q # p
      BY <1>1, <3>1, <3>2
    <3>3. CASE q = p
      BY <3>1, <3>3, FilesAssumption DEF Move
    <3> QED BY <3>2, <3>3
  <2> QED BY <1>1, <2>1, <2>2 DEF TypeOK, Rows
<1>11. Known'
  <2> SUFFICES ASSUME NEW v \in Uploads, upload'[v] # Free
               PROVE  papers'[Paper(v)'].status # "none"
    BY DEF Known
  <2>1. CASE v = u
    BY <1>1, <2>1 DEF Move, Paper
  <2>2. CASE v # u
    <3>1. /\ upload[v] # Free /\ Paper(v) \in Papers /\ Paper(v)' = Paper(v)
          /\ papers[Paper(v)].status # "none"
      BY <1>0, <1>1, <1>6, <2>2, UploadTypes DEF Known
    <3> QED BY <1>1, <3>1 DEF Move
  <2> QED BY <2>1, <2>2
<1>12. Owned'
  <2> SUFFICES ASSUME NEW q \in Papers, papers'[q].status \in Unfinished,
                      q \notin abandoned'
               PROVE  \E v \in Uploads : /\ upload'[v] # Free /\ Paper(v)' = q
                                         /\ Holder(upload'[v].pc, papers'[q].status)
    BY DEF Owned, Holder
  <2>0. ~Holder("free", papers'[q].status)
    BY DEF Holder, Marking
  <2>1. CASE q = p /\ Holder(b, t)
    <3>1. upload'[u] # Free /\ Paper(u)' = p
      BY <1>1, <1>7, <2>0, <2>1
    <3> QED BY <2>1, <3>1
  <2>2. CASE /\ papers'[q].status = papers[q].status /\ q \notin abandoned
             /\ ~(q = p /\ Holder(b, t))
    <3>1. PICK v \in Uploads : /\ upload[v] # Free /\ Paper(v) = q
                               /\ Holder(upload[v].pc, papers[q].status)
      BY <1>0, <2>2 DEF Owned
    <3>2. v # u
      <4> SUFFICES ASSUME v = u PROVE FALSE
        OBVIOUS
      <4>1. q = p
        BY <3>1 DEF Frame
      <4> QED BY <2>2, <3>1, <4>1 DEF Move
    <3> QED BY <1>1, <1>6, <2>2, <3>1, <3>2
  <2>3. CASE q = p /\ (t # s \/ p \in abandoned) /\ ~Holder(b, t)
    BY <2>3 DEF Move
  <2>4. CASE q # p
    BY <1>1, <1>4, <2>2, <2>4
  <2>5. CASE q = p
    BY <2>1, <2>2, <2>3, <2>5
  <2> QED BY <2>4, <2>5
<1>13. Lone'
  <2>0. ~Busy("free")
    BY DEF Busy
  <2> SUFFICES ASSUME NEW v \in Uploads, Busy(upload'[v].pc), Paper(v)' \notin released'
               PROVE  /\ papers'[Paper(v)'].status \in Unfinished
                      /\ \A w \in Uploads : Busy(upload'[w].pc) /\ Paper(w)' = Paper(v)'
                                            => w = v
    BY DEF Lone, Busy
  <2>1. CASE v = u
    <3>1. Paper(v)' = p /\ p \notin released /\ p \notin released' /\ Busy(b)
      BY <1>5, <1>7, <2>0, <2>1
    <3>2. CASE Busy(a)
      <4>1. /\ Paper(u) = p /\ s \in Unfinished
            /\ \A w \in Uploads : Busy(upload[w].pc) /\ Paper(w) = p => w = u
        BY <1>0, <1>3, <2>0, <3>1, <3>2 DEF Lone
      <4>2. t \in Unfinished
        BY <3>1, <4>1 DEF Move
      <4> QED BY <1>1, <1>6, <2>1, <3>1, <4>1, <4>2
    <3>3. CASE ~Busy(a)
      <4>1. s \in {"none", "failed"} /\ t \in Unfinished
        BY <3>1, <3>3 DEF Move
      <4>2. ASSUME NEW w \in Uploads, w # u, Busy(upload'[w].pc), Paper(w)' = p
            PROVE  FALSE
        BY <1>0, <1>1, <1>6, <3>1, <4>1, <4>2 DEF Lone, Unfinished
      <4> QED BY <2>1, <3>1, <4>1, <4>2
    <3> QED BY <3>2, <3>3
  <2>2. CASE v # u
    <3>1. /\ Busy(upload[v].pc) /\ Paper(v)' = Paper(v) /\ Paper(v) \notin released
          /\ Paper(v) \in Papers
      BY <1>1, <1>2, <1>5, <1>6, <2>0, <2>2
    <3>2. /\ papers[Paper(v)].status \in Unfinished
          /\ \A w \in Uploads : Busy(upload[w].pc) /\ Paper(w) = Paper(v) => w = v
      BY <1>0, <3>1 DEF Lone
    <3>3. CASE Paper(v) # p
      BY <1>1, <1>6, <1>7, <2>0, <2>2, <3>1, <3>2, <3>3
    <3>4. CASE Paper(v) = p
      <4>1. ~Busy(a)
        BY <1>3, <2>0, <2>2, <3>2, <3>4
      <4>2. t = s /\ ~Busy(b)
        BY <3>2, <3>4, <4>1 DEF Move, Unfinished
      <4> QED BY <1>1, <1>6, <2>2, <3>1, <3>2, <3>4, <4>2
    <3> QED BY <3>3, <3>4
  <2> QED BY <2>1, <2>2
<1>14. Sourced'
  <2>1. ASSUME NEW v \in Uploads, upload'[v].pc = "starting"
        PROVE  papers'[Paper(v)'].source = TRUE
    <3>1. CASE v = u
      BY <1>7, <2>1, <3>1 DEF Move
    <3>2. CASE v # u
      <4>1. /\ papers[Paper(v)].source = TRUE /\ papers[Paper(v)].status # "none"
            /\ Paper(v) \in Papers /\ Paper(v)' = Paper(v)
        BY <1>0, <1>1, <1>2, <1>6, <2>1, <3>2 DEF Sourced, Known
      <4> QED BY <1>1, <4>1 DEF Move
    <3> QED BY <3>1, <3>2
  <2>2. ASSUME NEW q \in Papers, papers'[q].status \in {"parsing", "ready"}
        PROVE  papers'[q].source = TRUE
    <3>1. CASE q # p \/ t = s
      <4>1. papers[q].source = TRUE
        BY <1>0, <1>1, <2>2, <3>1 DEF Sourced
      <4> QED BY <1>1, <2>2, <3>1, <4>1 DEF Move
    <3>2. CASE q = p /\ t # s
      <4>1. (a = "starting" \/ s = "parsing") /\ s # "none"
        BY <1>0, <1>2, <1>3, <2>2, <3>2 DEF Move, Known
      <4>2. papers[p].source = TRUE
        BY <1>0, <1>3, <4>1 DEF Sourced
      <4> QED BY <3>2, <4>1, <4>2 DEF Move
    <3> QED BY <3>1, <3>2
  <2> QED BY <2>1, <2>2 DEF Sourced
<1>15. Texted'
  <2>0. Busy("finishing")
    BY DEF Busy
  <2>1. ASSUME NEW v \in Uploads, upload'[v].pc = "finishing", Paper(v)' \notin released'
        PROVE  papers'[Paper(v)'].text # NoText
    <3>1. CASE v = u
      BY <1>7, <2>1, <3>1 DEF Move
    <3>2. CASE v # u
      <4>1. /\ upload[v].pc = "finishing" /\ Paper(v) \notin released
            /\ papers[Paper(v)].text # NoText /\ papers[Paper(v)].status # "none"
            /\ Paper(v) \in Papers /\ Paper(v)' = Paper(v)
        BY <1>0, <1>1, <1>2, <1>5, <1>6, <2>1, <3>2 DEF Texted, Known
      <4>2. CASE Paper(v) # p
        BY <1>1, <4>1, <4>2
      <4>3. CASE Paper(v) = p
        <5>1. ~Busy(a)
          BY <1>0, <1>3, <2>0, <3>2, <4>1, <4>3 DEF Lone, Busy
        <5> QED BY <4>1, <4>3, <5>1 DEF Move
      <4> QED BY <4>2, <4>3
    <3> QED BY <3>1, <3>2
  <2>2. ASSUME NEW q \in Papers, papers'[q].status = "ready", q \notin released'
        PROVE  papers'[q].text # NoText
    <3>1. CASE q # p
      BY <1>0, <1>1, <1>4, <2>2, <3>1 DEF Texted
    <3>2. CASE q = p /\ t = s
      <4>1. papers[p].text # NoText /\ p \notin released
        BY <1>0, <1>5, <2>2, <3>2 DEF Texted
      <4>2. ~Busy(a)
        BY <1>0, <1>3, <2>2, <3>2, <4>1 DEF Lone, Busy, Unfinished
      <4> QED BY <2>2, <3>2, <4>1, <4>2 DEF Move
    <3>3. CASE q = p /\ t # s
      <4>1. a = "finishing" /\ papers'[p].text = papers[p].text
        BY <2>2, <3>3 DEF Move
      <4> QED BY <1>0, <1>3, <1>5, <2>2, <3>3, <4>1 DEF Texted
    <3> QED BY <3>1, <3>2, <3>3
  <2> QED BY <2>1, <2>2 DEF Texted
<1>16. Parsed'
  <2>1. ASSUME NEW v \in Uploads, upload'[v].pc \in {"writing", "finishing"}
        PROVE  Texts[papers'[Paper(v)'].file] # {}
    <3>1. CASE v = u
      <4>1. Paper(v)' = p
        BY <1>7, <2>1, <3>1
      <4>2. Texts[papers[p].file] # {}
        BY <1>0, <1>3, <2>1, <3>1 DEF Move, Parsed
      <4>3. a # "free"
        BY <2>1, <3>1 DEF Move, Busy
      <4>4. s # "none"
        BY <1>0, <1>2, <1>3, <4>3 DEF Known
      <4> QED BY <4>1, <4>2, <4>4 DEF Move
    <3>2. CASE v # u
      <4>1. /\ Texts[papers[Paper(v)].file] # {} /\ papers[Paper(v)].status # "none"
            /\ Paper(v) \in Papers /\ Paper(v)' = Paper(v)
        BY <1>0, <1>1, <1>2, <1>6, <2>1, <3>2 DEF Parsed, Known
      <4> QED BY <1>1, <4>1 DEF Move
    <3> QED BY <3>1, <3>2
  <2>2. ASSUME NEW q \in Papers, papers'[q].status = "ready"
        PROVE  Texts[papers'[q].file] # {}
    <3>1. CASE q # p \/ t = s
      <4>1. Texts[papers[q].file] # {}
        BY <1>0, <1>1, <2>2, <3>1 DEF Parsed
      <4> QED BY <1>1, <2>2, <3>1, <4>1 DEF Move
    <3>2. CASE q = p /\ t # s
      <4>1. a = "finishing" /\ s = "parsing"
        BY <2>2, <3>2 DEF Move
      <4>2. Texts[papers[p].file] # {}
        BY <1>0, <1>3, <4>1 DEF Parsed
      <4> QED BY <3>2, <4>1, <4>2 DEF Move
    <3> QED BY <3>1, <3>2
  <2>3. ASSUME NEW q \in Papers, papers'[q].status # "none"
        PROVE  papers'[q].text \in {NoText} \cup Texts[papers'[q].file]
    <3>1. papers[q].status # "none" =>
            papers[q].text \in {NoText} \cup Texts[papers[q].file]
      BY <1>0 DEF Parsed
    <3>2. CASE q # p
      BY <1>1, <2>3, <3>1, <3>2
    <3>3. CASE q = p
      BY <3>1, <3>3 DEF Move
    <3> QED BY <3>2, <3>3
  <2> QED BY <2>1, <2>2, <2>3 DEF Parsed
<1>17. Late'
  <2> SUFFICES ASSUME NEW q \in Papers, q \in deleting', q \notin released'
               PROVE  /\ papers'[q].status \in Unfinished
                      /\ \A v \in Uploads : Busy(upload'[v].pc) /\ Paper(v)' = q =>
                           upload'[v].pc = "cancelling"
    BY <1>10 DEF Late, Busy, TypeOK
  <2>0. ~Busy("free") /\ q \notin released /\ Busy("cancelling")
    BY <1>5 DEF Busy
  <2>1. CASE q # p
    <3>1. q \in deleting
      BY <1>4, <2>1
    <3>2. /\ papers[q].status \in Unfinished
          /\ \A v \in Uploads : Busy(upload[v].pc) /\ Paper(v) = q =>
               upload[v].pc = "cancelling"
      BY <1>0, <2>0, <3>1 DEF Late
    <3> QED BY <1>1, <1>6, <1>7, <2>0, <2>1, <3>2
  <2>2. CASE q = p /\ p \in deleting
    <3>1. /\ s \in Unfinished
          /\ \A v \in Uploads : Busy(upload[v].pc) /\ Paper(v) = p =>
               upload[v].pc = "cancelling"
      BY <1>0, <2>0, <2>2 DEF Late
    <3>2. t = s
      BY <1>3, <2>0, <2>2, <3>1 DEF Move
    <3>3. ~Busy(b)
      BY <1>3, <2>0, <3>1 DEF Move, Unfinished
    <3> QED BY <1>1, <1>6, <2>2, <3>1, <3>2, <3>3
  <2>3. CASE q = p /\ p \notin deleting
    <3>1. Busy(a) /\ t = s /\ (b = "cancelling" \/ ~Busy(b))
      BY <2>3 DEF Move
    <3>2. /\ s \in Unfinished
          /\ \A v \in Uploads : Busy(upload[v].pc) /\ Paper(v) = p => v = u
      BY <1>0, <1>3, <2>0, <2>3, <3>1 DEF Lone
    <3> QED BY <1>1, <1>6, <2>3, <3>1, <3>2
  <2> QED BY <2>1, <2>2, <2>3
<1> QED BY <1>10, <1>11, <1>12, <1>13, <1>14, <1>15, <1>16, <1>17 DEF UploadInv

(* A delete that lands late finds the text of a released or of an          *)
(* unfinished paper.                                                       *)
LEMMA DeleteLandsKeeps ==
  ASSUME UploadInv, NEW p \in Papers, DeleteLands(p), AccountsTypeOK'
  PROVE  UploadInv'
<1>0. TypeOK /\ Known /\ Owned /\ Lone /\ Sourced /\ Texted /\ Late /\ Parsed
  BY DEF UploadInv
<1>1. /\ UNCHANGED <<assignment, upload, abandoned, released>>
      /\ deleting' = deleting \ {p} /\ p \in deleting
      /\ papers \in [Papers -> Rows] /\ papers' \in [Papers -> Rows]
      /\ \A q \in Papers \ {p} : papers'[q] = papers[q]
      /\ papers'[p].status = papers[p].status /\ papers'[p].file = papers[p].file
      /\ papers'[p].source = papers[p].source /\ papers'[p].text = NoText
  <2>1. papers \in [Papers -> Rows]
    BY <1>0 DEF TypeOK, Rows
  <2>2. papers' = [papers EXCEPT ![p] = papers'[p]] /\ papers'[p] \in Rows
    BY <1>0, RowGoes DEF DeleteLands
  <2> QED BY <1>0, <2>1, <2>2, RowGoes DEF DeleteLands
<1>2. \A q \in Papers : /\ papers'[q].status = papers[q].status
                        /\ papers'[q].file = papers[q].file
                        /\ papers'[q].source = papers[q].source
  BY <1>1
<1>3. \A u \in Uploads : Paper(u)' = Paper(u) /\ (upload[u] # Free => Paper(u) \in Papers)
  BY <1>0, <1>1, UploadTypes DEF Paper
<1>4. TypeOK'
  BY <1>0, <1>1, <1>2 DEF TypeOK, Rows
<1>5. \A u \in Uploads : upload[u].pc # "free" => upload[u] # Free
  BY <1>0, UploadTypes
<1>6. Known' /\ Owned'
  BY <1>0, <1>1, <1>2, <1>3 DEF Known, Owned, Holder
<1>7. Lone'
  BY <1>0, <1>1, <1>2, <1>3, <1>5 DEF Lone, Busy
<1>8. Sourced'
  BY <1>0, <1>1, <1>2, <1>3, <1>5 DEF Sourced
<1>9. \/ p \in released
      \/ /\ papers[p].status # "ready"
         /\ \A u \in Uploads : upload[u].pc = "finishing" => Paper(u) # p
  BY <1>0, <1>1 DEF Late, Busy, Unfinished
<1>10. Texted'
  BY <1>0, <1>1, <1>2, <1>3, <1>5, <1>9 DEF Texted
<1>11. Late'
  BY <1>0, <1>1, <1>2, <1>3 DEF Late, Busy, TypeOK
<1>12. Parsed'
  BY <1>0, <1>1, <1>2, <1>3, <1>5 DEF Parsed
<1> QED BY <1>4, <1>6, <1>7, <1>8, <1>10, <1>11, <1>12 DEF UploadInv

(* UploadInv is an invariant.                                              *)
LEMMA UploadInvHolds == Spec => []UploadInv
<1>1. Init => UploadInv
  <2> SUFFICES ASSUME Init PROVE UploadInv
    OBVIOUS
  <2>1. /\ NoPaper \in Rows /\ NoPaper.status = "none" /\ NoPaper.file = NoFile
        /\ Free.pc = "free"
    BY DEF NoPaper, Rows, Free
  <2>2. AccountsTypeOK
    BY DEF Init, AccountsInit, AccountsTypeOK, ProfileStates, RequestStates
  <2>3. TypeOK
    BY <2>1, <2>2 DEF Init, UploadsInit, TypeOK, Rows
  <2> QED BY <2>1, <2>3 DEF Init, UploadsInit, UploadInv, Known, Owned, Lone, Busy,
             Sourced, Texted, Late, Parsed, Unfinished
<1>2. ASSUME UploadInv, [Next]_vars PROVE UploadInv'
  <2>0. TypeOK /\ Known
    BY <1>2 DEF UploadInv
  <2>1. AccountsTypeOK'
    <3>1. CASE AccountsNext
      BY <2>0, <3>1, AccountsTypes DEF TypeOK
    <3>2. CASE UNCHANGED accountVars
      BY <2>0, <3>2 DEF TypeOK, AccountsTypeOK, accountVars
    <3> QED BY <1>2, <3>1, <3>2 DEF Next, vars
  <2>2. CASE UNCHANGED <<papers, upload, deleting, abandoned, released>>
             /\ assignment' \in {"draft", "ready"}
    <3>1. TypeOK'
      BY <2>0, <2>1, <2>2 DEF TypeOK
    <3>2. Known' /\ Owned' /\ Lone'
      BY <1>2, <2>2 DEF UploadInv, Known, Owned, Holder, Lone, Busy, Paper
    <3>3. Sourced' /\ Texted' /\ Late' /\ Parsed'
      BY <1>2, <2>2 DEF UploadInv, Sourced, Texted, Late, Busy, Parsed, Paper
    <3> QED BY <3>1, <3>2, <3>3 DEF UploadInv
  <2>3. ASSUME NEW u \in Uploads, NEW p \in Papers, Reserve(u, p) PROVE UploadInv'
    BY <1>2, <2>0, <2>1, <2>3, ReserveMoves, MoveKeeps
  <2>4. ASSUME NEW u \in Uploads, UploadStep(u) \/ Cancel(u) \/ Crash(u)
        PROVE  UploadInv'
    <3>1. Frame(u, Paper(u)) /\ Move(u, Paper(u))
      BY <2>0, <2>4, ResetMoves, StoreMoves, BeginMoves, FinishMoves, MarkMoves,
         CleanMoves, CancelMoves, CrashMoves DEF UploadStep
    <3>2. upload[u] # Free
      BY <2>0, <2>4, UploadTypes DEF UploadStep, Reset, StoreSource, BeginParsing,
         Parse, WriteText, Finish, mark_failed, AfterMark, delete_after_failure,
         Cancel, Cancelled, Owning, Crash
    <3>3. Paper(u) \in Papers
      BY <2>0, <3>2, UploadTypes
    <3> QED BY <1>2, <2>1, <3>1, <3>3, MoveKeeps
  <2>5. CASE UNCHANGED uploadVars
    BY <2>0, <2>2, <2>5 DEF uploadVars, TypeOK
  <2>6. CASE ConfirmRubric
    BY <2>2, <2>6 DEF ConfirmRubric
  <2>7. ASSUME NEW p \in Papers, DeleteLands(p) PROVE UploadInv'
    BY <1>2, <2>1, <2>7, DeleteLandsKeeps
  <2> QED BY <1>2, <2>3, <2>4, <2>5, <2>6, <2>7 DEF Next, UploadsNext, vars
<1> QED BY <1>1, <1>2, PTL DEF Spec

(* Account and upload state stay within their types, and every row has a   *)
(* file that staging accepted.                                             *)
THEOREM UploadTypesHold == Spec => []TypeOK
<1>1. UploadInv => TypeOK
  BY DEF UploadInv
<1> QED BY <1>1, UploadInvHolds, PTL

(* For any number of requests sending the same papers, cancelled or killed *)
(* anywhere and under a teacher who may be disabled: a row left in         *)
(* uploaded or parsing that nobody abandoned has a request that will move  *)
(* it.                                                                     *)
THEOREM NoOrphanedRow == Spec => []UnfinishedIsOwned
<1>1. UploadInv => UnfinishedIsOwned
  <2>1. \A a, t : Holder(a, t) => a \in Owning
    BY DEF Holder, Marking, Owning
  <2> QED BY <2>1 DEF UploadInv, Owned, UnfinishedIsOwned
<1> QED BY <1>1, UploadInvHolds, PTL

(* And a ready paper has its source, and its text unless it was released.  *)
THEOREM ReadyHasObjects == Spec => []ReadyKeepsObjects
<1>1. UploadInv => ReadyKeepsObjects
  BY DEF UploadInv, Sourced, Texted, ReadyKeepsObjects
<1> QED BY <1>1, UploadInvHolds, PTL

(* For any order of uploads, retries, clean-ups and late deletes: a ready  *)
(* paper was staged, its parser can accept it, and the text it has, if it  *)
(* has one, is a document the parser may make of that paper's own file.    *)
THEOREM ReadyWasParsed == Spec => []ReadyTextWasParsed
<1>1. UploadInv => ReadyTextWasParsed
  BY DEF UploadInv, TypeOK, Parsed, ReadyTextWasParsed
<1> QED BY <1>1, UploadInvHolds, PTL
=============================================================================
