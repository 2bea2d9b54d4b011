----------------------------- MODULE Backoffice -----------------------------
(***************************************************************************)
(* The backoffice (kavalai/backoffice/): users create projects and manage  *)
(* their members.  A request is a handler of server.py; `at` names the     *)
(* statement it awaits: authorisation, the checks of ProjectService and    *)
(* the write are statements of their own.  Who is an administrator is      *)
(* left out: the session cookie says so or not, a copy made at login that  *)
(* no later change of the row reaches.  A request may be cut short at any  *)
(* await: the process stops or the database fails.                         *)
(***************************************************************************)
EXTENDS Integers, FiniteSets

CONSTANTS Users, Projects, Handlers, Nobody

VARIABLES
  users,       \* rows of users
  active,      \* users.active_project_id, or Nobody
  projects,    \* rows of projects
  role,        \* project_memberships: "owner", "viewer" or Nobody
  req,         \* per handler: its await and its request
  orphaned     \* history: projects that were deleted (an id is used once), or whose last
               \* owner may be gone for a reason OwnerRemains names

backVars == <<users, active, projects, role, req, orphaned>>

Roles == {"owner", "viewer"}

ASSUME BackAssumption == Nobody \notin Roles

OwnerOnly == {"update", "delete"}
MemberOnly == {"read", "activate"}
Membership == {"add", "setRole", "remove"}
AdminOnly == {"create", "createUser", "updateUser", "deleteUser"}

Owners(p) == {u \in Users : role[<<u, p>>] = "owner"}

\* `outdated` is history: the members changed since the handler selected them.
Idle == [at |-> "idle", kind |-> "none", by |-> Nobody, project |-> Nobody, whom |-> Nobody, grant |-> Nobody, outdated |-> FALSE]
Goto(h, label) == req' = [req EXCEPT ![h].at = label]
Respond(h) == req' = [req EXCEPT ![h] = Idle]

\* One user is registered; there is no project yet.
BackInit ==
  /\ \E u \in Users : users = {u}
  /\ active = [u \in Users |-> Nobody]
  /\ projects = {}
  /\ role = [x \in Users \X Projects |-> Nobody]
  /\ req = [h \in Handlers |-> Idle]
  /\ orphaned = {}

\* assert_logged_in, assert_is_admin and what is checked without an await, for a
\* user whose cookie says admin or not.  A cookie outlives its user.
FirstAwait(k, admin) ==
  CASE k \in AdminOnly -> IF admin THEN "write" ELSE "refused"
    [] k \in OwnerOnly -> "authorize"
    [] k \in MemberOnly -> "member"
    [] k \in Membership -> IF admin THEN "select" ELSE "authorize"

\* A request names no user unless it is about one, and a role only to grant it.
Request(h) ==
  /\ req[h].at = "idle"
  /\ \E k \in OwnerOnly \cup MemberOnly \cup Membership \cup AdminOnly, u \in Users, v \in Users, p \in Projects,
        g \in Roles, admin \in BOOLEAN :
       /\ FirstAwait(k, admin) # "refused"
       /\ k \notin Membership \cup {"updateUser", "createUser", "deleteUser"} => v = u
       /\ k = "deleteUser" => v # u
       /\ k \notin {"add", "setRole"} => g = "viewer"
       /\ req' = [req EXCEPT ![h] = [at |-> FirstAwait(k, admin), kind |-> k, by |-> u, project |-> p,
                                     whom |-> v, grant |-> g, outdated |-> FALSE]]
  /\ UNCHANGED <<users, active, projects, role, orphaned>>

\* assert_is_owner: the request goes on to its service in a session of its own.
AssertIsOwner(h) ==
  /\ req[h].at = "authorize"
  /\ IF role[<<req[h].by, req[h].project>>] = "owner"
     THEN Goto(h, IF req[h].kind \in OwnerOnly THEN "write" ELSE "select")
     ELSE Respond(h)
  /\ UNCHANGED <<users, active, projects, role, orphaned>>

\* assert_is_member, get_project_and_assert_access; what only reads the project's
\* database ends here.
AssertIsMember(h) ==
  /\ req[h].at = "member"
  /\ IF role[<<req[h].by, req[h].project>>] # Nobody /\ req[h].kind # "read" THEN Goto(h, "write") ELSE Respond(h)
  /\ UNCHANGED <<users, active, projects, role, orphaned>>

(***************************************************************************)
(* ProjectService                                                          *)
(***************************************************************************)
LosesOwner(h) == req[h].kind = "remove" \/ req[h].grant # "owner"

SelectMembership(h) ==
  /\ req[h].at = "select"
  /\ LET r == role[<<req[h].whom, req[h].project>>]
     IN  IF (req[h].kind = "add") # (r = Nobody) THEN Respond(h)
         ELSE req' = [req EXCEPT ![h].at = IF r = "owner" /\ LosesOwner(h) THEN "count" ELSE "write"]
  /\ UNCHANGED <<users, active, projects, role, orphaned>>

\* Mutant: the comparison is strict.
NoOwner(p) == Cardinality(Owners(p)) < 1

LastOwner(p) == Cardinality(Owners(p)) <= 1

CountOwners(h) ==
  /\ req[h].at = "count"
  /\ IF LastOwner(req[h].project) THEN Respond(h) ELSE Goto(h, "write")
  /\ UNCHANGED <<users, active, projects, role, orphaned>>

\* The request is answered; whoever selected the members of a project knows old ones.
RespondChanging(h, changed) ==
  req' = [x \in Handlers |->
            IF x = h THEN Idle
            ELSE [req[x] EXCEPT !.outdated = @ \/ (req[x].project \in changed /\ req[x].kind \in Membership
                                                     /\ req[x].at \in {"count", "write"})]]

\* The row is there (UPDATE and DELETE match none otherwise), or it can be inserted.
WriteMembership(h) ==
  /\ req[h].at = "write" /\ req[h].kind \in Membership
  /\ LET u == req[h].whom
         p == req[h].project
         r == IF req[h].kind = "remove" THEN Nobody ELSE req[h].grant
         ok == IF req[h].kind = "add" THEN u \in users /\ p \in projects /\ role[<<u, p>>] = Nobody
                                      ELSE role[<<u, p>>] # Nobody
     IN  /\ role' = IF ok THEN [role EXCEPT ![<<u, p>>] = r] ELSE role
         /\ orphaned' = IF req[h].outdated /\ ok THEN orphaned \cup {p} ELSE orphaned
         /\ RespondChanging(h, {p})
  /\ UNCHANGED <<users, active, projects>>

\* create_project: each insert commits.
InsertProject(h) ==
  /\ req[h].at = "write" /\ req[h].kind = "create"
  /\ req[h].project \notin projects \cup orphaned
  /\ projects' = projects \cup {req[h].project}
  /\ Goto(h, "own")
  /\ UNCHANGED <<users, active, role, orphaned>>

InsertOwner(h) ==
  /\ req[h].at = "own"
  /\ req[h].by \in users /\ req[h].project \in projects /\ role[<<req[h].by, req[h].project>>] = Nobody
  /\ role' = [role EXCEPT ![<<req[h].by, req[h].project>>] = "owner"]
  /\ RespondChanging(h, {req[h].project})
  /\ UNCHANGED <<users, active, projects, orphaned>>

\* Mutant: the memberships of a deleted project stay.
KeepMembers(x, gone) == role[x]

\* ON DELETE CASCADE of the memberships.
Cascade(x, gone) == IF gone THEN Nobody ELSE role[x]

\* users.active_project_id has no ON DELETE: an active project cannot be deleted.
DeleteProject(h) ==
  /\ req[h].at = "write" /\ req[h].kind = "delete"
  /\ \A u \in users : active[u] # req[h].project
  /\ projects' = projects \ {req[h].project}
  /\ role' = [x \in Users \X Projects |-> Cascade(x, x[2] = req[h].project)]
  /\ orphaned' = orphaned \cup {req[h].project}
  /\ RespondChanging(h, {req[h].project})
  /\ UNCHANGED <<users, active>>

\* update_project and users_update write columns that nothing here depends on.
UpdateColumns(h) ==
  /\ req[h].at = "write" /\ req[h].kind \in {"update", "updateUser"}
  /\ Respond(h)
  /\ UNCHANGED <<users, active, projects, role, orphaned>>

SetActiveProject(h) ==
  /\ req[h].at = "write" /\ req[h].kind = "activate"
  /\ req[h].project \in projects
  /\ active' = IF req[h].by \in users THEN [active EXCEPT ![req[h].by] = req[h].project] ELSE active
  /\ Respond(h)
  /\ UNCHANGED <<users, projects, role, orphaned>>

CreateUser(h) ==
  /\ req[h].at = "write" /\ req[h].kind = "createUser"
  /\ req[h].whom \notin users
  /\ users' = users \cup {req[h].whom}
  /\ Respond(h)
  /\ UNCHANGED <<active, projects, role, orphaned>>

\* The memberships go with the user, the last owner's too.
DeleteUser(h) ==
  /\ req[h].at = "write" /\ req[h].kind = "deleteUser"
  /\ users' = users \ {req[h].whom}
  /\ active' = [active EXCEPT ![req[h].whom] = Nobody]
  /\ role' = [x \in Users \X Projects |-> Cascade(x, x[1] = req[h].whom)]
  /\ orphaned' = orphaned \cup {p \in Projects : role[<<req[h].whom, p>>] = "owner"}
  /\ RespondChanging(h, Projects)
  /\ UNCHANGED projects

\* Any await may be the last: an error, a refused write or a stopped process.  A
\* project may be left without the owner of its second insert.
CutShort(h) ==
  /\ req[h].at # "idle"
  /\ Respond(h)
  /\ orphaned' = IF req[h].at = "own" THEN orphaned \cup {req[h].project} ELSE orphaned
  /\ UNCHANGED <<users, active, projects, role>>

BackNext ==
  \E h \in Handlers :
    \/ Request(h) \/ AssertIsOwner(h) \/ AssertIsMember(h) \/ SelectMembership(h) \/ CountOwners(h)
    \/ WriteMembership(h) \/ InsertProject(h) \/ InsertOwner(h) \/ DeleteProject(h) \/ UpdateColumns(h)
    \/ SetActiveProject(h) \/ CreateUser(h) \/ DeleteUser(h) \/ CutShort(h)

BackSpec == BackInit /\ [][BackNext]_backVars

(***************************************************************************)
(* Properties                                                              *)
(***************************************************************************)
\* Rows refer to rows: a member and an active project exist, whatever is deleted
\* while a request that names it waits (ForeignKey declarations, add_member,
\* set_active_project, delete_project).
RowsReferToRows ==
  /\ \A u \in Users, p \in Projects : role[<<u, p>>] # Nobody => u \in users /\ p \in projects
  /\ \A u \in Users : active[u] # Nobody => u \in users /\ active[u] \in projects

\* A project keeps an owner, unless its creation was cut short between its two
\* inserts, the user who owned it was deleted, or a change of its members relied
\* on members that another request had changed since (update_member_role,
\* remove_member).
OwnerRemains ==
  \A p \in projects \ orphaned :
    Owners(p) # {} \/ \E h \in Handlers : req[h].at = "own" /\ req[h].project = p

\* "Cannot remove the last owner of the project." (project_service.py:162): requests
\* that change the members leave an owner.  Two that overlap may not.
MembersKeepAnOwner ==
  [][\A h \in Handlers, p \in Projects :
       WriteMembership(h) /\ req[h].project = p /\ Owners(p) # {} => Owners(p)' # {}]_backVars
=============================================================================
