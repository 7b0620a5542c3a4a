------------------------------- MODULE Accounts -------------------------------
(***************************************************************************)
(* Who is signed in, and the administration of users and workspace:        *)
(* frontend/src/components/auth, routes/protected-route, pages/login-page, *)
(* pages/admin-page and the security tab of the settings, against          *)
(* backend/internal/auth and backend/internal/admin.                       *)
(*                                                                         *)
(* The session is a cookie that names a user and the version of the user's *)
(* sessions; it changes when an answer arrives.  Raising the version       *)
(* revokes it, and the tab learns so from the answer to some later         *)
(* request.  Handlers read a row, check it, and write some of its columns  *)
(* later: role, status and version, or the version only.                   *)
(* A second administrator works in another browser.  Limits, the audit log *)
(* and the statistics are left out; a policy is two values.                *)
(***************************************************************************)
EXTENDS Requests

CONSTANTS
  NoUser,             \* null: no row, user, cookie or list
  MaxUsers            \* bound: users ever created

UserIds == 1 .. MaxUsers
Roles == {"admin", "member"}
Statuses == {"active", "disabled"}
Policies == [defaults : 0 .. 1, days : 0 .. 1]

UserRow == [role : Roles, status : Statuses, version : Nat]
UserCopy == [role : Roles, status : Statuses]
Cookie == [user : UserIds, version : Nat]
SignedIn == [id : UserIds, role : Roles]

ASSUME UsersAssumption ==
  /\ MaxUsers \in Nat \ {0, 1} /\ NoUser \notin Int
  /\ NoUser \notin UserRow /\ NoUser \notin UserCopy /\ NoUser \notin Cookie /\ NoUser \notin SignedIn
  /\ NoUser \notin [UserIds -> UserCopy \cup {NoUser}]

VARIABLES
  userRows, policyRow,       \* server
  cookie,                    \* browser: user and version of the session
  user,                      \* AuthProvider: id and role
  isLoadingUser, unreachable,
  location,                  \* "login", "chat" or "admin"
  bootstrapRequired,
  adminUsers, userDrafts,    \* admin page: rows and drafts by id
  adminPolicy, policyDraft,
  isSavingUserId,
  stale,                     \* history: the admin page cannot be up to date
  crossed                    \* history: a password change was answered to another user

accountRows == <<userRows, policyRow>>
authVars == <<user, isLoadingUser, unreachable>>
adminVars == <<adminUsers, userDrafts, adminPolicy, policyDraft, isSavingUserId>>
accountState == <<accountRows, cookie, authVars, location, bootstrapRequired, adminVars, stale,
                  crossed>>
accountVars == <<accountState, requestVars>>

-----------------------------------------------------------------------------
(* Pages.                                                                  *)

AdminWrites == {"saveUser", "createUser", "resetPassword", "savePolicy"}
PageWrites == AdminWrites \ {"resetPassword"}  \* of what the admin page shows
NeedAdmin == AdminWrites \cup {"adminLoad"}
Public == {"login", "bootstrap", "bootstrapStatus"}

(* The handlers of these read a row, and write to it later.                *)
RowWrites == {"saveUser", "resetPassword", "changePassword", "logoutAll"}
RowOf(c) == IF c.kind \in {"saveUser", "resetPassword"} THEN c.target ELSE c.cookie.user

(* Slip to catch: the route forgets which roles it is for.                 *)
RouteAnyRole(loc, u) ==
  CASE u = NoUser -> "login"
    [] u # NoUser /\ loc = "login" -> "chat"
    [] OTHER -> loc

(* ProtectedRoute and PublicOnlyRoute.                                     *)
Route(loc, u) ==
  CASE u = NoUser -> "login"
    [] u # NoUser /\ (loc = "login" \/ (loc = "admin" /\ u.role # "admin")) -> "chat"
    [] OTHER -> loc
Page == IF isLoadingUser \/ unreachable THEN "notice" ELSE location

(* A request carries the cookie there is when it leaves.                   *)
Sent(cs, jar, body) ==
  AsNext(cs, Beside(body, [cookie |-> jar, mine |-> TRUE, by |-> NoUser]))
Forgotten(cs) == {[c EXCEPT !.mine = FALSE] : c \in {d \in cs : d.kind # "bootstrapStatus"}}

(* The tab is at loc with u signed in, or waits, or shows the notice that  *)
(* the backend is not there: a page that comes asks for its data, and one  *)
(* that goes is not told what its requests end with.                       *)
Land(loc, u, waits, notice, jar, cs) ==
  LET where == IF waits \/ notice THEN loc ELSE Route(loc, u)
      page == IF waits \/ notice THEN "notice" ELSE where
      rest == IF page = Page THEN cs ELSE Forgotten(cs)
      load == CASE page # Page /\ page = "login" -> {Sent(rest, jar, [kind |-> "bootstrapStatus"])}
                [] page # Page /\ page = "admin" -> {Sent(rest, jar, [kind |-> "adminLoad"])}
                [] OTHER -> {}
  IN  /\ location' = where /\ user' = u /\ isLoadingUser' = waits /\ unreachable' = notice
      /\ cookie' = jar /\ calls' = rest \cup load
      /\ bootstrapRequired' = (bootstrapRequired /\ page = Page)
      /\ IF page = Page THEN UNCHANGED <<adminVars, stale>>
         ELSE /\ adminUsers' = NoUser /\ userDrafts' = NoUser
              /\ adminPolicy' = NoUser /\ policyDraft' = NoUser
              /\ isSavingUserId' = NoUser
              /\ stale' = (page = "admin" /\ \E c \in rest : c.kind \in PageWrites /\ c.by = NoUser)
Stay(u, jar, cs) == Land(location, u, FALSE, FALSE, jar, cs)

-----------------------------------------------------------------------------
(* The server.                                                             *)

Answers(c, body) == Become(c, Reply(c, body))
Rejects(c) == IF c.by # NoUser THEN Done(c) ELSE Become(c, Broken(c))
ActiveAdmins(rows) ==
  {u \in UserIds : rows[u] # NoUser /\ rows[u].role = "admin" /\ rows[u].status = "active"}

(* RequireAuth: the error code, if any.                                    *)
SessionError(c) ==
  IF c.cookie = NoUser THEN "unauthorized"
  ELSE IF userRows[c.cookie.user].status # "active" THEN "account_disabled"
  ELSE IF userRows[c.cookie.user].version # c.cookie.version THEN "session_revoked" ELSE "none"

(* UpdateUser: not oneself, and not the last administrator.                *)
Updatable(c) ==
  LET row == userRows[c.target]
      out == c.role # "admin" \/ c.status # "active"
  IN  out => /\ c.cookie.user # c.target
             /\ row.role = "admin" => ActiveAdmins(userRows) \ {c.target} # {}
Admitted(c) ==
  /\ c.kind \in NeedAdmin => userRows[c.cookie.user].role = "admin"
  /\ c.kind = "saveUser" => Updatable(c)

CheckRequest ==
  \E c \in calls :
    /\ c.phase = "sent" /\ c.kind \notin Public
    /\ \/ /\ SessionError(c) # "none"
          /\ IF c.by # NoUser THEN Done(c)
             ELSE Become(c, Beside([phase |-> "refused", code |-> SessionError(c)], c))
       \/ SessionError(c) = "none" /\ ~Admitted(c) /\ Rejects(c)
       \/ /\ SessionError(c) = "none" /\ Admitted(c) /\ c.kind \in RowWrites
          /\ Become(c, Beside([phase |-> "checked", row |-> userRows[RowOf(c)]], c))
    /\ UNCHANGED <<accountRows, cookie, authVars, location, bootstrapRequired, adminVars, stale,
                   acts>>

(* The row a handler leaves.  UpdateUser writes role, status and version;  *)
(* ResetPassword, ChangePassword and LogoutAll the version.  The version   *)
(* goes by the row that was read.                                          *)
Written(c) ==
  LET version == IF c.kind = "saveUser" /\ c.status = "active" THEN c.row.version
                 ELSE c.row.version + 1
  IN  IF c.kind = "saveUser" THEN [role |-> c.role, status |-> c.status, version |-> version]
      ELSE [userRows[RowOf(c)] EXCEPT !.version = version]

HandleRequest ==
  \E c \in calls :
    /\ \/ c.phase = "checked"
       \/ /\ c.phase = "sent" /\ c.kind \notin Public \cup RowWrites
          /\ SessionError(c) = "none" /\ Admitted(c)
    /\ \/ /\ c.kind \in {"me", "api", "logout"}
          /\ Answers(c, IF c.kind = "me" THEN [id |-> c.cookie.user,
                                                role |-> userRows[c.cookie.user].role] ELSE NoUser)
          /\ UNCHANGED <<accountRows, stale>>
       \/ /\ c.kind \in {"changePassword", "logoutAll"}
          /\ userRows' = [userRows EXCEPT ![RowOf(c)] = Written(c)]
          /\ Answers(c, IF c.kind = "logoutAll" THEN NoUser
                        ELSE [user |-> c.cookie.user, version |-> Written(c).version])
          /\ UNCHANGED <<policyRow, stale>>
       \/ /\ c.kind \in {"saveUser", "resetPassword"}
          /\ userRows' = [userRows EXCEPT ![RowOf(c)] = Written(c)]
          /\ IF c.by # NoUser THEN Done(c) ELSE Answers(c, Written(c))
          /\ stale' = (stale \/ (c.kind = "saveUser" /\ c.by # NoUser))
          /\ UNCHANGED policyRow
       \/ /\ c.kind = "createUser"
          /\ \E id \in UserIds :
               /\ userRows[id] = NoUser /\ \A d \in UserIds : d < id => userRows[d] # NoUser
               /\ LET row == [role |-> c.role, status |-> "active", version |-> 1]
                  IN  userRows' = [userRows EXCEPT ![id] = row] /\ Answers(c, [row |-> row, id |-> id])
          /\ UNCHANGED <<policyRow, stale>>
       \/ /\ c.kind = "savePolicy"
          /\ policyRow' = c.policy /\ Answers(c, c.policy)
          /\ UNCHANGED <<userRows, stale>>
       \/ /\ c.kind = "adminLoad"
          /\ Answers(c, [users |-> userRows, policy |-> policyRow])
          /\ UNCHANGED <<accountRows, stale>>
    /\ UNCHANGED <<cookie, authVars, location, bootstrapRequired, adminVars, acts>>

(* Login, Bootstrap and BootstrapStatus.                                   *)
ServePublic ==
  \E c \in calls :
    /\ c.phase = "sent"
    /\ \/ /\ c.kind = "login" /\ userRows[c.target] # NoUser /\ userRows[c.target].status = "active"
          /\ Answers(c, [user |-> c.target, version |-> userRows[c.target].version,
                         role |-> userRows[c.target].role])
          /\ UNCHANGED userRows
       \/ /\ c.kind = "bootstrap" /\ \A u \in UserIds : userRows[u] = NoUser
          /\ userRows' = [userRows EXCEPT ![1] = [role |-> "admin", status |-> "active",
                                                  version |-> 1]]
          /\ Answers(c, [user |-> 1, version |-> 1])
       \/ /\ c.kind = "bootstrapStatus"
          /\ Answers(c, \A u \in UserIds : userRows[u] = NoUser)
          /\ UNCHANGED userRows
    /\ UNCHANGED <<policyRow, cookie, authVars, location, bootstrapRequired, adminVars, stale, acts>>

(* The server was not reached or refused, or the answer to a write is lost.*)
TabWrites == RowWrites \cup {"createUser", "savePolicy", "bootstrap"}
AccountsFail ==
  \E c \in calls :
    /\ c.by = NoUser /\ (c.phase = "sent" \/ (c.phase = "answered" /\ c.kind \in TabWrites))
    /\ Become(c, Broken(c))
    /\ UNCHANGED <<accountRows, cookie, authVars, location, bootstrapRequired, adminVars, stale,
                   acts>>

-----------------------------------------------------------------------------
(* What is done at the tab.                                                *)

Ask(body) == calls' = calls \cup {Sent(calls, cookie, body)}
Mine(kinds) == \E c \in calls : c.mine /\ c.kind \in kinds
Quiet == UNCHANGED <<accountRows, cookie, authVars, location, bootstrapRequired, adminVars>>

SubmitLogin ==
  /\ Page = "login" /\ ~Mine({"login", "bootstrap", "me", "bootstrapStatus"}) /\ Act
  /\ IF bootstrapRequired THEN Ask([kind |-> "bootstrap"])
     ELSE \E u \in UserIds : userRows[u] # NoUser /\ Ask([kind |-> "login", target |-> u])
  /\ Quiet /\ UNCHANGED stale

(* Anything the pages ask for beside what is modelled here.                *)
UseApi ==
  /\ Page = "chat" /\ Kind("api") = {} /\ Act
  /\ Ask([kind |-> "api"])
  /\ Quiet /\ UNCHANGED stale

Logout ==
  /\ Page \in {"chat", "admin"} /\ Act
  /\ Ask([kind |-> "logout"])
  /\ Quiet /\ UNCHANGED stale

(* SecuritySettingsTab.                                                    *)
Secure ==
  \E k \in {"changePassword", "logoutAll"} :
    /\ Page = "chat" /\ ~Mine({k}) /\ Act
    /\ Ask([kind |-> k])
    /\ Quiet /\ UNCHANGED stale

GoTo ==
  \E loc \in {"chat", "admin"} :
    /\ Page \in {"chat", "admin"} /\ loc # Page /\ Route(loc, user) = loc /\ Act
    /\ Land(loc, user, FALSE, FALSE, cookie, calls)
    /\ UNCHANGED accountRows

OnAdmin == Page = "admin" /\ adminUsers # NoUser /\ Act

EditDraft ==
  /\ OnAdmin
  /\ \/ /\ \E u \in UserIds : /\ userDrafts[u] # NoUser
                              /\ \/ \E r \in Roles : r # userDrafts[u].role /\
                                      userDrafts' = [userDrafts EXCEPT ![u].role = r]
                                 \/ \E s \in Statuses : s # userDrafts[u].status /\
                                      userDrafts' = [userDrafts EXCEPT ![u].status = s]
        /\ UNCHANGED policyDraft
     \/ /\ \E p \in Policies : p # policyDraft /\ policyDraft' = p
        /\ UNCHANGED userDrafts
  /\ UNCHANGED <<accountRows, cookie, authVars, location, bootstrapRequired, adminUsers,
                 adminPolicy, isSavingUserId, stale, calls>>

(* handleSaveUser and handleResetUserPassword.  Only the last user saved   *)
(* is blocked meanwhile.                                                   *)
SaveUser ==
  \E u \in UserIds, k \in {"saveUser", "resetPassword"} :
    /\ OnAdmin /\ adminUsers[u] # NoUser /\ isSavingUserId # u
    /\ isSavingUserId' = u
    /\ Ask([kind |-> k, target |-> u, role |-> userDrafts[u].role, status |-> userDrafts[u].status])
    /\ stale' = (stale \/ (k = "saveUser" /\ \E c \in Kind(k) : c.by = NoUser /\ c.target = u))
    /\ UNCHANGED <<accountRows, cookie, authVars, location, bootstrapRequired, adminUsers,
                   userDrafts, adminPolicy, policyDraft>>

CreateUser ==
  \E r \in Roles :
    /\ OnAdmin /\ ~Mine({"createUser"})
    /\ Ask([kind |-> "createUser", role |-> r])
    /\ Quiet /\ UNCHANGED stale

(* handleSavePolicy and handleSaveAttachmentPolicy: each sends its half of *)
(* the draft with the other half as the page knows it.                     *)
SavePolicy ==
  /\ OnAdmin /\ ~Mine({"savePolicy"})
  /\ \E p \in {[adminPolicy EXCEPT !.defaults = policyDraft.defaults],
               [adminPolicy EXCEPT !.days = policyDraft.days]} :
       Ask([kind |-> "savePolicy", policy |-> p])
  /\ stale' = (stale \/ Kind("savePolicy") # {})
  /\ Quiet

(* The other administrator changes the first.                              *)
Elsewhere ==
  /\ 2 \in ActiveAdmins(userRows) /\ Act
  /\ \E new \in [kind : {"saveUser"}, role : Roles, status : Statuses] \cup [kind : {"resetPassword"}] :
       LET jar == [user |-> 2, version |-> userRows[2].version]
       IN  calls' = calls \cup {Sent(calls, jar, Beside(new, [target |-> 1, by |-> 2, mine |-> FALSE]))}
  /\ Quiet /\ UNCHANGED stale

-----------------------------------------------------------------------------
(* Answers.                                                                *)

(* Slip to catch: a code is missing from the list.                         *)
NotifyAllButRevoked(code) == code \in {"unauthorized", "session_expired", "account_disabled"}

(* shouldNotifyUnauthorized.                                               *)
ShouldNotify(code) ==
  code \in {"unauthorized", "session_expired", "session_revoked", "account_disabled"}

(* RequireAuth clears a session that is no longer valid, http tells the    *)
(* AuthProvider, and so do the ends of me and logout.                      *)
Refused ==
  \E c \in calls :
    /\ c.phase = "refused"
    /\ LET out == ShouldNotify(c.code) \/ c.kind \in {"me", "logout"}
       IN  Land(location, IF out THEN NoUser ELSE user, isLoadingUser /\ ~out,
                unreachable /\ ~out, IF c.cookie = NoUser THEN cookie ELSE NoUser, calls \ {c})
    /\ UNCHANGED <<accountRows, acts>>

(* refreshUser, for a tab that starts or at the end of a bootstrap.        *)
UserLoaded ==
  \E c \in Answered("me") :
    /\ Land(IF location = "login" THEN "chat" ELSE location, c.reply, FALSE, FALSE, cookie,
            calls \ {c})
    /\ UNCHANGED <<accountRows, acts>>
UserNotLoaded ==
  \E c \in Failed("me"), network \in BOOLEAN :
    /\ Land(location, IF network THEN user ELSE NoUser, FALSE, network, cookie, calls \ {c})
    /\ UNCHANGED <<accountRows, acts>>

(* Then the tab goes where the user came from.                             *)
LoggedIn ==
  \E c \in Answered("login"), from \in {"chat", "admin"} :
    /\ LET jar == [user |-> c.reply.user, version |-> c.reply.version]
       IN  Land(from, [id |-> c.reply.user, role |-> c.reply.role], FALSE, FALSE, jar, calls \ {c})
    /\ UNCHANGED <<accountRows, acts>>

Bootstrapped ==
  \E c \in Answered("bootstrap") :
    /\ cookie' = c.reply
    /\ LET rest == calls \ {c}
       IN  calls' = rest \cup {Sent(rest, c.reply, [kind |-> "me", mine |-> c.mine])}
    /\ UNCHANGED <<accountRows, authVars, location, bootstrapRequired, adminVars, stale, acts>>

StatusKnown ==
  \E c \in Answered("bootstrapStatus") :
    /\ bootstrapRequired' = c.reply /\ Done(c)
    /\ UNCHANGED <<accountRows, cookie, authVars, location, adminVars, stale, acts>>

(* logout forgets the user however its request ends.                       *)
LoggedOut ==
  \E c \in Answered("logout") \cup Failed("logout") :
    /\ Stay(NoUser, IF c.phase = "answered" THEN NoUser ELSE cookie, calls \ {c})
    /\ UNCHANGED <<accountRows, acts>>

LoggedOutAll ==
  \E c \in Answered("logoutAll") :
    /\ cookie' = NoUser
    /\ LET rest == calls \ {c}
       IN  calls' = rest \cup {Sent(rest, NoUser, [kind |-> "logout"])}
    /\ UNCHANGED <<accountRows, authVars, location, bootstrapRequired, adminVars, stale, acts>>

PasswordChanged ==
  \E c \in Answered("changePassword") :
    /\ cookie' = c.reply /\ Done(c)
    /\ crossed' = (user # NoUser /\ user.id # c.reply.user)
    /\ UNCHANGED <<accountRows, authVars, location, bootstrapRequired, adminVars, stale, acts>>

Copy(row) == IF row = NoUser THEN NoUser ELSE [role |-> row.role, status |-> row.status]
Copies(rows) == [u \in UserIds |-> Copy(rows[u])]

AdminLoaded ==
  \E c \in Answered("adminLoad") :
    /\ IF c.mine THEN /\ adminUsers' = Copies(c.reply.users) /\ userDrafts' = adminUsers'
                      /\ adminPolicy' = c.reply.policy /\ policyDraft' = c.reply.policy
                      /\ UNCHANGED isSavingUserId
                 ELSE UNCHANGED adminVars
    /\ Done(c)
    /\ UNCHANGED <<accountRows, cookie, authVars, location, bootstrapRequired, stale, acts>>

(* The copies and drafts an answer to the admin page replaces.             *)
AdminSaved ==
  \E c \in UNION {Answered(k) : k \in AdminWrites} :
    /\ CASE c.kind = "saveUser" /\ c.mine ->
              /\ adminUsers' = [adminUsers EXCEPT ![c.target] = Copy(c.reply)]
              /\ userDrafts' = [userDrafts EXCEPT ![c.target] = Copy(c.reply)]
              /\ isSavingUserId' = NoUser /\ UNCHANGED <<adminPolicy, policyDraft>>
         [] c.kind = "createUser" /\ c.mine ->
              /\ adminUsers' = [adminUsers EXCEPT ![c.reply.id] = Copy(c.reply.row)]
              /\ userDrafts' = [userDrafts EXCEPT ![c.reply.id] = Copy(c.reply.row)]
              /\ UNCHANGED <<adminPolicy, policyDraft, isSavingUserId>>
         [] c.kind = "savePolicy" /\ c.mine ->
              /\ adminPolicy' = c.reply /\ policyDraft' = c.reply
              /\ UNCHANGED <<adminUsers, userDrafts, isSavingUserId>>
         [] c.kind = "resetPassword" /\ c.mine ->
              /\ isSavingUserId' = NoUser
              /\ UNCHANGED <<adminUsers, userDrafts, adminPolicy, policyDraft>>
         [] OTHER -> UNCHANGED adminVars
    /\ Done(c)
    /\ UNCHANGED <<accountRows, cookie, authVars, location, bootstrapRequired, stale, acts>>

(* Whatever else ends, ends with a message at most.                        *)
AccountMessage ==
  \E c \in calls :
    /\ \/ c.phase = "failed" /\ c.kind \notin {"me", "logout"}
       \/ c.phase = "answered" /\ c.kind = "api"
    /\ isSavingUserId' = IF c.mine /\ c.kind \in {"saveUser", "resetPassword"} THEN NoUser
                         ELSE isSavingUserId
    /\ stale' = (stale \/ (c.phase = "failed" /\ c.lost /\ c.kind \in PageWrites))
    /\ Done(c)
    /\ UNCHANGED <<accountRows, cookie, authVars, location, bootstrapRequired, adminUsers,
                   userDrafts, adminPolicy, policyDraft, acts>>

-----------------------------------------------------------------------------
Admin == [role |-> "admin", status |-> "active", version |-> 1]
AccountsStart ==
  /\ userRows \in {[u \in UserIds |-> IF u <= n THEN Admin ELSE NoUser] : n \in {0, 2}}
  /\ policyRow = [defaults |-> 0, days |-> 0]
  /\ cookie = IF userRows[1] = NoUser THEN NoUser ELSE [user |-> 1, version |-> 1]
  /\ user = NoUser /\ isLoadingUser = TRUE /\ unreachable = FALSE
  /\ location = "admin" /\ bootstrapRequired = FALSE
  /\ adminUsers = NoUser /\ userDrafts = NoUser /\ adminPolicy = NoUser /\ policyDraft = NoUser
  /\ isSavingUserId = NoUser /\ stale = FALSE /\ crossed = FALSE
AccountsFirst == {Sent({}, cookie, [kind |-> "me"])}

AccountsActs ==
  \/ SubmitLogin \/ UseApi \/ Logout \/ Secure \/ GoTo \/ EditDraft \/ SaveUser \/ CreateUser
  \/ SavePolicy \/ Elsewhere

AccountsNext ==
  \/ PasswordChanged
  \/ /\ \/ AccountsActs \/ CheckRequest \/ HandleRequest \/ ServePublic \/ AccountsFail
        \/ Refused \/ UserLoaded \/ UserNotLoaded \/ LoggedIn \/ Bootstrapped \/ StatusKnown
        \/ LoggedOut \/ LoggedOutAll \/ AdminLoaded \/ AdminSaved \/ AccountMessage
     /\ UNCHANGED crossed

AccountsInit == AccountsStart /\ calls = AccountsFirst /\ acts = 0
AccountsSpec == AccountsInit /\ [][AccountsNext]_accountVars

-----------------------------------------------------------------------------
(* Properties.                                                             *)

(* The types; a page that needs a user has one.                            *)
AccountsOK ==
  /\ \A u \in UserIds : userRows[u] # NoUser =>
       userRows[u].role \in Roles /\ userRows[u].status \in Statuses
  /\ policyRow \in Policies
  /\ Page \in {"chat", "admin"} => user # NoUser
  /\ Page = "admin" => user.role = "admin"
  /\ Page # "admin" => adminUsers = NoUser

(* AccountsAgree: when no request is under way the user the tab shows is   *)
(* the one of the browser's session, whatever was revoked, refused or      *)
(* lost, and the admin page shows every user's role and status, and the    *)
(* policy, as they are.  Left out of the former (crossed): a password      *)
(* change answered after its user signed out and another signed in, whose  *)
(* cookie signs the browser in as the first again.  Left out of the latter *)
(* (stale), until the page is opened again: the other administrator saved  *)
(* a user, the answer to a write of the page was lost, or two saves of one *)
(* user or of the policy crossed, or were still under way when it opened.  *)
AccountsAgree ==
  calls = {} =>
    /\ (user # NoUser /\ ~crossed) => cookie # NoUser /\ cookie.user = user.id
    /\ (adminUsers # NoUser /\ ~stale) =>
         adminUsers = Copies(userRows) /\ adminPolicy = policyRow

=============================================================================
