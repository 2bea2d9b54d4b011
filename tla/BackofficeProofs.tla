-------------------------- MODULE BackofficeProofs --------------------------
(***************************************************************************)
(* The backoffice: rows refer to rows and a project keeps an owner, for    *)
(* any users, projects and number of overlapping requests; what a flush    *)
(* of the browser's database file stored stays, for any tasks of the page; *)
(* the views agree with the tables, for any sessions, runs and viewers.    *)
(***************************************************************************)
EXTENDS Backoffice, BrowserStore, Console, SequenceTheorems, FiniteSetTheorems, TLAPS

Kinds == OwnerOnly \cup MemberOnly \cup Membership \cup AdminOnly
Awaits == {"idle", "authorize", "member", "select", "count", "write", "own"}
Requests ==
  [at : Awaits, kind : Kinds \cup {"none"}, by : Users \cup {Nobody}, project : Projects \cup {Nobody},
   whom : Users \cup {Nobody}, grant : Roles \cup {Nobody}, outdated : BOOLEAN]

\* Which requests await what before their write.
StartsWith(r) ==
  /\ r.at = "authorize" => r.kind \in OwnerOnly \cup Membership
  /\ r.at = "member" => r.kind \in MemberOnly
  /\ r.at \in {"select", "count"} => r.kind \in Membership

\* Rows are of the users and projects there may be; a request that is under way
\* names a user and a project.
TypeInv ==
  /\ users \subseteq Users /\ projects \subseteq Projects /\ orphaned \subseteq Projects
  /\ active \in [Users -> Projects \cup {Nobody}]
  /\ role \in [Users \X Projects -> Roles \cup {Nobody}]
  /\ req \in [Handlers -> Requests]
  /\ \A h \in Handlers : req[h].at # "idle" =>
       /\ req[h].by \in Users /\ req[h].whom \in Users /\ req[h].project \in Projects
       /\ req[h].kind \in Kinds /\ req[h].grant \in Roles
  /\ \A h \in Handlers : StartsWith(req[h])
  /\ \A h \in Handlers : req[h].at = "own" => req[h].kind = "create"

\* A request that is about to take an owner away knows of another one, as long as it
\* has seen every change of the members.
OtherOwner(h) ==
  req[h].at = "write" /\ req[h].kind \in {"setRole", "remove"} /\ LosesOwner(h) /\ ~ req[h].outdated
    /\ role[<<req[h].whom, req[h].project>>] = "owner"
    => \E v \in Users \ {req[h].whom} : role[<<v, req[h].project>>] = "owner"

BackInv == TypeInv /\ RowsReferToRows /\ OwnerRemains /\ \A h \in Handlers : OtherOwner(h)

\* The invariant holds at first.
LEMMA BackInvInit == BackInit => BackInv
<1> SUFFICES ASSUME BackInit PROVE BackInv
  OBVIOUS
<1>1. Idle \in Requests
  BY DEF Idle, Requests, Awaits
<1>2. \A h \in Handlers : req[h] = Idle /\ req[h].at = "idle"
  BY DEF BackInit, Idle
<1>3. TypeInv
  BY <1>1, <1>2 DEF BackInit, TypeInv, StartsWith, Idle
<1>4. QED
  BY <1>2, <1>3 DEF BackInit, BackInv, RowsReferToRows, OwnerRemains, OtherOwner

\* A request that moves on, or is answered, and changes no row; what it has selected
\* is not outdated, or stays so.
LEMMA MoveKeeps ==
  ASSUME BackInv, NEW h \in Handlers, NEW r \in Requests, req' = [req EXCEPT ![h] = r],
         UNCHANGED <<users, active, projects, role, orphaned>>,
         req[h].at # "own" /\ r.at # "own",
         r.at # "idle" => /\ r.by \in Users /\ r.whom \in Users /\ r.project \in Projects
                          /\ r.kind \in Kinds /\ r.grant \in Roles,
         StartsWith(r),
         OtherOwner(h)'
  PROVE  BackInv'
<1> USE DEF BackInv
<1>1. TypeInv'
  BY DEF TypeInv
<1>2. RowsReferToRows'
  BY DEF RowsReferToRows
<1>3. OwnerRemains'
  BY DEF OwnerRemains, Owners, TypeInv
<1>4. \A x \in Handlers : OtherOwner(x)'
  <2> SUFFICES ASSUME NEW x \in Handlers, x # h PROVE OtherOwner(x)'
    OBVIOUS
  <2>1. req'[x] = req[x]
    BY DEF TypeInv
  <2>2. QED
    BY <2>1 DEF OtherOwner, LosesOwner
<1>5. QED
  BY <1>1, <1>2, <1>3, <1>4

\* The steps of a request that only read or write what nothing here depends on.
LEMMA ReadsKeep ==
  ASSUME BackInv, NEW h \in Handlers,
         Request(h) \/ AssertIsOwner(h) \/ AssertIsMember(h) \/ SelectMembership(h) \/ CountOwners(h) \/ UpdateColumns(h)
  PROVE  BackInv'
<1> USE DEF BackInv
<1>1. UNCHANGED <<users, active, projects, role, orphaned>>
  BY DEF Request, AssertIsOwner, AssertIsMember, SelectMembership, CountOwners, UpdateColumns
<1>2. Idle \in Requests /\ Idle.at = "idle"
  BY DEF Idle, Requests, Awaits
<1>3. req[h] \in Requests /\ req[h].at \in Awaits
  BY DEF TypeInv, Requests
<1>4. ASSUME Respond(h), req[h].at # "own" PROVE BackInv'
  <2>1. req' = [req EXCEPT ![h] = Idle] /\ req'[h] = Idle
    BY <1>4 DEF Respond, TypeInv
  <2>2. OtherOwner(h)'
    BY <2>1, <1>2 DEF OtherOwner
  <2>3. QED
    BY <1>1, <1>2, <1>4, <2>1, <2>2, MoveKeeps DEF StartsWith
<1>5. ASSUME NEW label \in {"write", "select", "count"}, Goto(h, label),
             req[h].at \notin {"own", "idle"},
             StartsWith([req[h] EXCEPT !.at = label]),
             OtherOwner(h)'
      PROVE BackInv'
  <2> DEFINE r == [req[h] EXCEPT !.at = label]
  <2>1. req' = [req EXCEPT ![h] = r]
    BY <1>5 DEF Goto
  <2>2. r \in Requests /\ r.at = label /\ r.by = req[h].by /\ r.whom = req[h].whom /\ r.project = req[h].project
        /\ r.kind = req[h].kind /\ r.grant = req[h].grant
    BY <1>3 DEF Requests, Awaits
  <2>3. /\ req[h].by \in Users /\ req[h].whom \in Users /\ req[h].project \in Projects
        /\ req[h].kind \in Kinds /\ req[h].grant \in Roles
    BY <1>5 DEF TypeInv
  <2>5. StartsWith(r)
    BY <1>5
  <2> HIDE DEF r
  <2>4. QED
    BY <1>1, <1>5, <2>1, <2>2, <2>3, <2>5, MoveKeeps
<1>6. CASE Request(h)
  <2>1. PICK k \in OwnerOnly \cup MemberOnly \cup Membership \cup AdminOnly, u \in Users, v \in Users, p \in Projects, g \in Roles, admin \in BOOLEAN :
          /\ FirstAwait(k, admin) # "refused"
          /\ k \notin Membership \cup {"updateUser", "createUser", "deleteUser"} => v = u
          /\ k = "deleteUser" => v # u
          /\ k \notin {"add", "setRole"} => g = "viewer"
          /\ req' = [req EXCEPT ![h] = [at |-> FirstAwait(k, admin), kind |-> k, by |-> u, project |-> p,
                                        whom |-> v, grant |-> g, outdated |-> FALSE]]
    BY <1>6 DEF Request
  <2>2. /\ FirstAwait(k, admin) \in {"write", "authorize", "member", "select"}
        /\ FirstAwait(k, admin) = "write" => k \in AdminOnly
        /\ StartsWith([at |-> FirstAwait(k, admin), kind |-> k, by |-> u, project |-> p,
                       whom |-> v, grant |-> g, outdated |-> FALSE])
    BY <2>1 DEF FirstAwait, StartsWith, Kinds, AdminOnly, OwnerOnly, MemberOnly, Membership
  <2> DEFINE r == [at |-> FirstAwait(k, admin), kind |-> k, by |-> u, project |-> p,
                   whom |-> v, grant |-> g, outdated |-> FALSE]
  <2>3. r \in Requests /\ k \in Kinds
    BY <2>2 DEF Requests, Awaits, Kinds
  <2>4. req'[h] = r
    BY <2>1 DEF TypeInv, StartsWith
  <2>5. OtherOwner(h)'
    BY <2>2, <2>4 DEF OtherOwner, AdminOnly
  <2>6. req[h].at = "idle"
    BY <1>6 DEF Request
  <2>7. QED
    BY <1>1, <2>1, <2>2, <2>3, <2>5, <2>6, MoveKeeps
<1>7. CASE AssertIsOwner(h)
  <2>1. req[h].at = "authorize"
    BY <1>7 DEF AssertIsOwner
  <2>2. CASE Respond(h)
    BY <1>4, <2>1, <2>2
  <2>3. CASE Goto(h, "write") /\ req[h].kind \in OwnerOnly
    <3>1. req'[h].kind = req[h].kind
      BY <2>3, <1>3 DEF Goto, TypeInv, Requests
    <3>2. OtherOwner(h)'
      BY <2>3, <3>1 DEF OtherOwner, OwnerOnly
    <3>3. QED
      BY <1>5, <2>1, <2>3, <3>2, <1>3 DEF StartsWith, Requests
  <2>4. CASE Goto(h, "select") /\ req[h].kind \in Membership
    <3>1. req'[h].at = "select"
      BY <2>4, <1>3 DEF Goto, TypeInv, Requests
    <3>2. OtherOwner(h)'
      BY <3>1 DEF OtherOwner
    <3>3. QED
      BY <1>5, <2>1, <2>4, <3>2, <1>3 DEF StartsWith, Requests
  <2>5. req[h].kind \in OwnerOnly \cup Membership
    BY <2>1 DEF TypeInv, StartsWith
  <2>6. QED
    BY <1>7, <2>2, <2>3, <2>4, <2>5 DEF AssertIsOwner
<1>8. CASE AssertIsMember(h)
  <2>1. req[h].at = "member" /\ req[h].kind \in MemberOnly
    BY <1>8 DEF AssertIsMember, TypeInv, StartsWith
  <2>2. CASE Respond(h)
    BY <1>4, <2>1, <2>2
  <2>3. CASE Goto(h, "write")
    <3>1. req'[h].kind = req[h].kind
      BY <2>3, <1>3 DEF Goto, TypeInv, Requests
    <3>2. OtherOwner(h)'
      BY <2>1, <3>1 DEF OtherOwner, MemberOnly
    <3>3. QED
      BY <1>5, <2>1, <2>3, <3>2, <1>3 DEF StartsWith, Requests
  <2>4. QED
    BY <1>8, <2>2, <2>3 DEF AssertIsMember
<1>9. CASE SelectMembership(h)
  <2>1. req[h].at = "select" /\ req[h].kind \in Membership
    BY <1>9 DEF SelectMembership, TypeInv, StartsWith
  <2>2. CASE Respond(h)
    BY <1>4, <2>1, <2>2
  <2>3. ASSUME Goto(h, "count") PROVE BackInv'
    <3>1. req'[h].at = "count"
      BY <2>3, <1>3 DEF Goto, TypeInv, Requests
    <3>2. OtherOwner(h)'
      BY <3>1 DEF OtherOwner
    <3>3. QED
      BY <1>5, <2>1, <2>3, <3>2, <1>3 DEF StartsWith, Requests
  <2>4. ASSUME Goto(h, "write"), ~ (role[<<req[h].whom, req[h].project>>] = "owner" /\ LosesOwner(h)) PROVE BackInv'
    <3>1. req'[h] = [req[h] EXCEPT !.at = "write"]
      BY <2>4 DEF Goto, TypeInv
    <3>2. /\ req'[h].kind = req[h].kind /\ req'[h].grant = req[h].grant
          /\ req'[h].whom = req[h].whom /\ req'[h].project = req[h].project
      BY <3>1, <1>3 DEF Requests
    <3>3. OtherOwner(h)'
      BY <2>4, <3>2, <1>1 DEF OtherOwner, LosesOwner
    <3>4. QED
      BY <1>5, <2>1, <2>4, <3>3, <1>3 DEF StartsWith, Requests
  <2>5. QED
    BY <1>9, <2>2, <2>3, <2>4 DEF SelectMembership, Goto
<1>10. CASE CountOwners(h)
  <2>1. req[h].at = "count" /\ req[h].kind \in Membership
    BY <1>10 DEF CountOwners, TypeInv, StartsWith
  <2>2. CASE Respond(h)
    BY <1>4, <2>1, <2>2
  <2>3. CASE Goto(h, "write") /\ ~ LastOwner(req[h].project)
    <3> DEFINE S == Owners(req[h].project)
    <3>1. S # {} /\ S # {req[h].whom}
      <4>1. Cardinality({}) = 0 /\ Cardinality({req[h].whom}) = 1
        BY FS_EmptySet, FS_Singleton
      <4>2. QED
        BY <2>3, <4>1 DEF LastOwner
    <3>2. \E v \in Users \ {req[h].whom} : role[<<v, req[h].project>>] = "owner"
      BY <3>1 DEF Owners
    <3>3. req'[h].whom = req[h].whom /\ req'[h].project = req[h].project
      BY <2>3, <1>3 DEF Goto, TypeInv, Requests
    <3>4. OtherOwner(h)'
      BY <3>2, <3>3, <1>1 DEF OtherOwner
    <3>5. QED
      BY <1>5, <2>1, <2>3, <3>4, <1>3 DEF StartsWith, Requests
  <2>4. QED
    BY <1>10, <2>2, <2>3 DEF CountOwners
<1>11. CASE UpdateColumns(h)
  BY <1>11, <1>4 DEF UpdateColumns
<1>12. QED
  BY <1>6, <1>7, <1>8, <1>9, <1>10, <1>11

\* The end of a request that changed the members of some projects.
LEMMA ChangeSeen ==
  ASSUME BackInv, NEW h \in Handlers, NEW changed \in SUBSET Projects, RespondChanging(h, changed),
         \A u \in Users, p \in Projects \ changed : role'[<<u, p>>] = role[<<u, p>>]
  PROVE  /\ req' \in [Handlers -> Requests]
         /\ req'[h] = Idle
         /\ \A x \in Handlers \ {h} : req'[x].at = req[x].at /\ req'[x].project = req[x].project
         /\ \A x \in Handlers : req'[x].at # "idle" =>
              /\ req'[x].by \in Users /\ req'[x].whom \in Users /\ req'[x].project \in Projects
              /\ req'[x].kind \in Kinds /\ req'[x].grant \in Roles
         /\ \A x \in Handlers : StartsWith(req'[x]) /\ (req'[x].at = "own" => req'[x].kind = "create")
         /\ \A x \in Handlers : OtherOwner(x)'
<1> USE DEF BackInv
<1>1. Idle \in Requests /\ Idle.at = "idle"
  BY DEF Idle, Requests, Awaits
<1>2. req'[h] = Idle
  BY DEF RespondChanging
<1>3. \A x \in Handlers \ {h} :
        /\ req'[x] \in Requests
        /\ req'[x].at = req[x].at /\ req'[x].kind = req[x].kind /\ req'[x].by = req[x].by
        /\ req'[x].project = req[x].project /\ req'[x].whom = req[x].whom /\ req'[x].grant = req[x].grant
        /\ req'[x].outdated = (req[x].outdated \/ (req[x].project \in changed /\ req[x].kind \in Membership
                                                     /\ req[x].at \in {"count", "write"}))
  <2> SUFFICES ASSUME NEW x \in Handlers \ {h}
               PROVE  /\ req'[x] \in Requests
                      /\ req'[x].at = req[x].at /\ req'[x].kind = req[x].kind /\ req'[x].by = req[x].by
                      /\ req'[x].project = req[x].project /\ req'[x].whom = req[x].whom /\ req'[x].grant = req[x].grant
                      /\ req'[x].outdated = (req[x].outdated \/ (req[x].project \in changed /\ req[x].kind \in Membership
                                                                   /\ req[x].at \in {"count", "write"}))
    OBVIOUS
  <2> DEFINE b == req[x].outdated \/ (req[x].project \in changed /\ req[x].kind \in Membership
                                        /\ req[x].at \in {"count", "write"})
  <2>1. req'[x] = [req[x] EXCEPT !.outdated = b]
    BY DEF RespondChanging
  <2>2. b \in BOOLEAN /\ req[x] \in Requests
    BY DEF TypeInv
  <2> HIDE DEF b
  <2>3. /\ req'[x] \in Requests
        /\ req'[x].at = req[x].at /\ req'[x].kind = req[x].kind /\ req'[x].by = req[x].by
        /\ req'[x].project = req[x].project /\ req'[x].whom = req[x].whom /\ req'[x].grant = req[x].grant
        /\ req'[x].outdated = b
    BY <2>1, <2>2 DEF Requests
  <2>4. QED
    BY <2>3 DEF b
<1>4. req' \in [Handlers -> Requests]
  <2>1. \A x \in Handlers : req'[x] \in Requests
    BY <1>1, <1>2, <1>3
  <2>2. req' = [x \in Handlers |-> req'[x]]
    BY DEF RespondChanging
  <2>3. QED
    BY <2>1, <2>2
<1>5. \A x \in Handlers : OtherOwner(x)'
  <2> SUFFICES ASSUME NEW x \in Handlers PROVE OtherOwner(x)'
    OBVIOUS
  <2>1. CASE x = h
    BY <2>1, <1>1, <1>2 DEF OtherOwner
  <2>2. CASE x # h /\ req[x].at = "write" /\ req[x].kind \in {"setRole", "remove"} /\ req[x].project \in changed
    BY <2>2, <1>3 DEF OtherOwner, Membership
  <2>3. CASE x # h /\ req[x].at = "write" /\ req[x].kind \in {"setRole", "remove"} /\ req[x].project \notin changed
    <3>1. req[x].project \in Projects \ changed /\ req[x].whom \in Users
      BY <2>3 DEF TypeInv
    <3>2. \A v \in Users : role'[<<v, req'[x].project>>] = role[<<v, req[x].project>>]
      BY <2>3, <3>1, <1>3
    <3>3. role'[<<req'[x].whom, req'[x].project>>] = role[<<req[x].whom, req[x].project>>]
      BY <2>3, <3>1, <3>2, <1>3
    <3>4. OtherOwner(x) /\ LosesOwner(x)' = LosesOwner(x) /\ (~ req'[x].outdated => ~ req[x].outdated)
      BY <2>3, <1>3 DEF LosesOwner
    <3>5. QED
      BY <2>3, <3>2, <3>3, <3>4, <1>3 DEF OtherOwner
  <2>4. CASE x # h /\ ~ (req[x].at = "write" /\ req[x].kind \in {"setRole", "remove"})
    BY <2>4, <1>3 DEF OtherOwner
  <2>5. QED
    BY <2>1, <2>2, <2>3, <2>4
<1>6. \A x \in Handlers :
        /\ req'[x].at # "idle" =>
              /\ req'[x].by \in Users /\ req'[x].whom \in Users /\ req'[x].project \in Projects
              /\ req'[x].kind \in Kinds /\ req'[x].grant \in Roles
        /\ StartsWith(req'[x]) /\ (req'[x].at = "own" => req'[x].kind = "create")
  BY <1>1, <1>2, <1>3 DEF TypeInv, StartsWith
<1>7. QED
  BY <1>2, <1>3, <1>4, <1>5, <1>6

\* Only a project's creation awaits "own", so whoever changes something else leaves
\* every such request at its await.
LEMMA StillOwning ==
  ASSUME BackInv, NEW h \in Handlers, req[h].at # "own", NEW p \in projects \ orphaned,
         \A x \in Handlers \ {h} : req'[x].at = req[x].at /\ req'[x].project = req[x].project,
         Owners(p) # {} => Owners(p)' # {}
  PROVE  Owners(p)' # {} \/ \E x \in Handlers : req'[x].at = "own" /\ req'[x].project = p
BY DEF BackInv, OwnerRemains

\* A membership is added, changed or removed.
LEMMA MembersKeep == ASSUME BackInv, NEW h \in Handlers, WriteMembership(h) PROVE BackInv'
<1> USE DEF BackInv
<1> DEFINE u == req[h].whom
           p == req[h].project
           r == IF req[h].kind = "remove" THEN Nobody ELSE req[h].grant
           ok == IF req[h].kind = "add" THEN u \in users /\ p \in projects /\ role[<<u, p>>] = Nobody
                                        ELSE role[<<u, p>>] # Nobody
<1>1. /\ req[h].at = "write" /\ req[h].kind \in Membership
      /\ u \in Users /\ p \in Projects /\ r \in Roles \cup {Nobody}
      /\ role' = IF ok THEN [role EXCEPT ![<<u, p>>] = r] ELSE role
      /\ orphaned' = IF req[h].outdated /\ ok THEN orphaned \cup {p} ELSE orphaned
      /\ RespondChanging(h, {p})
      /\ UNCHANGED <<users, active, projects>>
  BY DEF WriteMembership, TypeInv
<1>2. \A v \in Users, q \in Projects : <<v, q>> # <<u, p>> => role'[<<v, q>>] = role[<<v, q>>]
  BY <1>1 DEF TypeInv
<1>3. {p} \in SUBSET Projects /\ \A v \in Users, q \in Projects \ {p} : role'[<<v, q>>] = role[<<v, q>>]
  BY <1>1, <1>2
<1>4. /\ req' \in [Handlers -> Requests]
      /\ \A x \in Handlers \ {h} : req'[x].at = req[x].at /\ req'[x].project = req[x].project
      /\ \A x \in Handlers : req'[x].at # "idle" =>
           /\ req'[x].by \in Users /\ req'[x].whom \in Users /\ req'[x].project \in Projects
           /\ req'[x].kind \in Kinds /\ req'[x].grant \in Roles
      /\ \A x \in Handlers : StartsWith(req'[x]) /\ (req'[x].at = "own" => req'[x].kind = "create")
      /\ \A x \in Handlers : OtherOwner(x)'
  BY <1>1, <1>3, ChangeSeen
<1>5. TypeInv'
  <2>1. role' \in [Users \X Projects -> Roles \cup {Nobody}]
    BY <1>1 DEF TypeInv
  <2>2. QED
    BY <1>1, <1>4, <2>1 DEF TypeInv
<1>6. RowsReferToRows'
  <2>1. ok => u \in users /\ p \in projects
    BY <1>1 DEF RowsReferToRows
  <2>2. ASSUME NEW v \in Users, NEW q \in Projects, role'[<<v, q>>] # Nobody PROVE v \in users /\ q \in projects
    BY <1>1, <1>2, <2>1, <2>2 DEF RowsReferToRows
  <2>3. QED
    BY <1>1, <2>2 DEF RowsReferToRows
<1>7. OwnerRemains'
  <2> SUFFICES ASSUME NEW q \in projects' \ orphaned'
               PROVE  Owners(q)' # {} \/ \E x \in Handlers : req'[x].at = "own" /\ req'[x].project = q
    BY DEF OwnerRemains
  <2>1. q \in projects \ orphaned /\ q \in Projects
    BY <1>1 DEF TypeInv
  <2>2. ASSUME Owners(q) # {} PROVE Owners(q)' # {}
    <3>1. PICK v \in Users : role[<<v, q>>] = "owner"
      BY <2>2 DEF Owners
    <3>2. CASE role'[<<v, q>>] = "owner"
      BY <3>2 DEF Owners
    <3>3. CASE role'[<<v, q>>] # "owner"
      <4>1. v = u /\ q = p /\ ok /\ r # "owner" /\ ~ req[h].outdated
        BY <3>1, <3>3, <1>1, <1>2, <2>1 DEF TypeInv
      <4>2. req[h].kind \in {"setRole", "remove"} \/ req[h].kind = "add"
        BY <1>1 DEF Membership
      <4>3. CASE req[h].kind \in {"setRole", "remove"}
        <5>1. LosesOwner(h)
          BY <4>1, <4>3 DEF LosesOwner
        <5>2. PICK w \in Users \ {u} : role[<<w, p>>] = "owner"
          BY <5>1, <4>1, <4>3, <3>1, <1>1 DEF OtherOwner
        <5>3. role'[<<w, q>>] = "owner"
          BY <5>2, <4>1, <1>1, <1>2
        <5>4. QED
          BY <5>3, <5>2 DEF Owners
      <4>4. CASE req[h].kind = "add"
        <5>1. Nobody = "owner"
          BY <4>1, <4>4, <3>1
        <5>2. QED
          BY <5>1, BackAssumption DEF Roles
      <4>5. QED
        BY <4>2, <4>3, <4>4
    <3>4. QED
      BY <3>2, <3>3
  <2>3. QED
    BY <1>1, <1>4, <2>1, <2>2, StillOwning
<1>8. QED
  BY <1>4, <1>5, <1>6, <1>7

\* A request ends and changes no member.
LEMMA AnswerKeeps ==
  ASSUME BackInv, NEW h \in Handlers, Respond(h), UNCHANGED role,
         users' \subseteq Users, users \subseteq users', UNCHANGED projects,
         orphaned' \subseteq Projects, orphaned \subseteq orphaned',
         active' \in [Users -> Projects \cup {Nobody}],
         \A u \in Users : active'[u] # Nobody => u \in users' /\ active'[u] \in projects,
         req[h].at = "own" => req[h].project \in orphaned'
  PROVE  BackInv'
<1> USE DEF BackInv
<1>1. Idle \in Requests /\ Idle.at = "idle"
  BY DEF Idle, Requests, Awaits
<1>2. /\ req' = [req EXCEPT ![h] = Idle] /\ req'[h] = Idle /\ req' \in [Handlers -> Requests]
      /\ \A x \in Handlers \ {h} : req'[x] = req[x]
  BY <1>1 DEF Respond, TypeInv
<1>3. TypeInv'
  BY <1>1, <1>2 DEF TypeInv, StartsWith
<1>4. RowsReferToRows'
  BY DEF RowsReferToRows, TypeInv
<1>5. OwnerRemains'
  <2> SUFFICES ASSUME NEW p \in projects' \ orphaned'
               PROVE  Owners(p)' # {} \/ \E x \in Handlers : req'[x].at = "own" /\ req'[x].project = p
    BY DEF OwnerRemains
  <2>1. Owners(p)' = Owners(p) /\ p \in projects \ orphaned
    BY DEF Owners
  <2>2. CASE Owners(p) # {}
    BY <2>1, <2>2
  <2>3. ASSUME NEW x \in Handlers, req[x].at = "own", req[x].project = p
        PROVE  \E y \in Handlers : req'[y].at = "own" /\ req'[y].project = p
    BY <2>3, <1>2
  <2>4. QED
    BY <2>1, <2>2, <2>3 DEF OwnerRemains
<1>6. \A x \in Handlers : OtherOwner(x)'
  <2> SUFFICES ASSUME NEW x \in Handlers PROVE OtherOwner(x)'
    OBVIOUS
  <2>1. CASE x = h
    BY <2>1, <1>1, <1>2 DEF OtherOwner
  <2>2. CASE x # h
    BY <2>2, <1>2 DEF OtherOwner, LosesOwner
  <2>3. QED
    BY <2>1, <2>2
<1>7. QED
  BY <1>3, <1>4, <1>5, <1>6

\* The calls that write one row, and the failed one, which writes none.
LEMMA AnswersKeep ==
  ASSUME BackInv, NEW h \in Handlers, SetActiveProject(h) \/ CreateUser(h) \/ CutShort(h)
  PROVE  BackInv'
<1> USE DEF BackInv
<1>1. req[h].at # "idle" /\ req[h].by \in Users /\ req[h].whom \in Users /\ req[h].project \in Projects
  BY DEF SetActiveProject, CreateUser, CutShort, TypeInv
<1>2. CASE SetActiveProject(h)
  <2>1. active' \in [Users -> Projects \cup {Nobody}]
    BY <1>1, <1>2 DEF SetActiveProject, TypeInv
  <2>2. \A u \in Users : active'[u] # Nobody => u \in users /\ active'[u] \in projects
    BY <1>1, <1>2 DEF SetActiveProject, TypeInv, RowsReferToRows
  <2>3. Respond(h) /\ UNCHANGED <<users, projects, role, orphaned>> /\ req[h].at # "own"
    BY <1>2 DEF SetActiveProject
  <2>4. QED
    BY <2>1, <2>2, <2>3, AnswerKeeps DEF TypeInv
<1>3. CASE CreateUser(h)
  <2>1. Respond(h) /\ UNCHANGED <<active, projects, role, orphaned>> /\ req[h].at # "own"
    BY <1>3 DEF CreateUser
  <2>2. users' \subseteq Users /\ users \subseteq users'
    BY <1>1, <1>3 DEF CreateUser, TypeInv
  <2>3. QED
    BY <2>1, <2>2, AnswerKeeps DEF TypeInv, RowsReferToRows
<1>4. CASE CutShort(h)
  <2>1. Respond(h) /\ UNCHANGED <<users, active, projects, role>>
    BY <1>4 DEF CutShort
  <2>2. orphaned' \subseteq Projects /\ orphaned \subseteq orphaned' /\ (req[h].at = "own" => req[h].project \in orphaned')
    BY <1>1, <1>4 DEF CutShort, TypeInv
  <2>3. QED
    BY <2>1, <2>2, AnswerKeeps DEF TypeInv, RowsReferToRows
<1>5. QED
  BY <1>2, <1>3, <1>4

\* A project is inserted, and has no owner yet.
LEMMA InsertProjectKeeps == ASSUME BackInv, NEW h \in Handlers, InsertProject(h) PROVE BackInv'
<1> USE DEF BackInv
<1> DEFINE p == req[h].project
           r == [req[h] EXCEPT !.at = "own"]
<1>1. /\ req[h].at = "write" /\ req[h].kind = "create" /\ p \in Projects /\ req[h] \in Requests
      /\ projects' = projects \cup {p} /\ req' = [req EXCEPT ![h] = r]
      /\ UNCHANGED <<users, active, role, orphaned>>
  BY DEF InsertProject, Goto, TypeInv
<1>2. /\ r \in Requests /\ r.at = "own" /\ r.kind = "create" /\ r.project = p
      /\ r.by = req[h].by /\ r.whom = req[h].whom /\ r.grant = req[h].grant
  BY <1>1 DEF Requests, Awaits
<1>3. /\ req' \in [Handlers -> Requests] /\ req'[h] = r
      /\ \A x \in Handlers \ {h} : req'[x] = req[x]
  BY <1>1, <1>2 DEF TypeInv
<1> HIDE DEF r
<1>4. TypeInv'
  BY <1>1, <1>2, <1>3 DEF TypeInv, StartsWith
<1>5. RowsReferToRows'
  BY <1>1 DEF RowsReferToRows
<1>6. OwnerRemains'
  <2> SUFFICES ASSUME NEW q \in projects' \ orphaned'
               PROVE  Owners(q)' # {} \/ \E x \in Handlers : req'[x].at = "own" /\ req'[x].project = q
    BY DEF OwnerRemains
  <2>1. CASE q = p
    BY <2>1, <1>2, <1>3
  <2>2. CASE q # p
    <3>1. q \in projects \ orphaned /\ Owners(q)' = Owners(q)
      BY <2>2, <1>1 DEF Owners
    <3>2. QED
      BY <3>1, <1>1, <1>3, StillOwning
  <2>3. QED
    BY <2>1, <2>2
<1>7. \A x \in Handlers : OtherOwner(x)'
  <2> SUFFICES ASSUME NEW x \in Handlers PROVE OtherOwner(x)'
    OBVIOUS
  <2>1. CASE x = h
    BY <2>1, <1>2, <1>3 DEF OtherOwner
  <2>2. CASE x # h
    BY <2>2, <1>1, <1>3 DEF OtherOwner, LosesOwner
  <2>3. QED
    BY <2>1, <2>2
<1>8. QED
  BY <1>4, <1>5, <1>6, <1>7

\* Who created it becomes its owner, if both rows are still there.
LEMMA InsertOwnerKeeps == ASSUME BackInv, NEW h \in Handlers, InsertOwner(h) PROVE BackInv'
<1> USE DEF BackInv
<1> DEFINE u == req[h].by
           p == req[h].project
<1>1. /\ u \in users /\ p \in projects /\ u \in Users /\ p \in Projects
      /\ role' = [role EXCEPT ![<<u, p>>] = "owner"]
      /\ RespondChanging(h, {p}) /\ UNCHANGED <<users, active, projects, orphaned>>
  BY DEF InsertOwner, TypeInv
<1>2. /\ role' \in [Users \X Projects -> Roles \cup {Nobody}] /\ role'[<<u, p>>] = "owner"
      /\ \A v \in Users, q \in Projects : <<v, q>> # <<u, p>> => role'[<<v, q>>] = role[<<v, q>>]
  BY <1>1 DEF TypeInv, Roles
<1>3. {p} \in SUBSET Projects /\ \A v \in Users, q \in Projects \ {p} : role'[<<v, q>>] = role[<<v, q>>]
  BY <1>1, <1>2
<1>4. /\ req' \in [Handlers -> Requests]
      /\ \A x \in Handlers \ {h} : req'[x].at = req[x].at /\ req'[x].project = req[x].project
      /\ \A x \in Handlers : req'[x].at # "idle" =>
           /\ req'[x].by \in Users /\ req'[x].whom \in Users /\ req'[x].project \in Projects
           /\ req'[x].kind \in Kinds /\ req'[x].grant \in Roles
      /\ \A x \in Handlers : StartsWith(req'[x]) /\ (req'[x].at = "own" => req'[x].kind = "create")
      /\ \A x \in Handlers : OtherOwner(x)'
  BY <1>1, <1>3, ChangeSeen
<1>5. TypeInv'
  BY <1>1, <1>2, <1>4 DEF TypeInv
<1>6. RowsReferToRows'
  <2>1. ASSUME NEW v \in Users, NEW q \in Projects, role'[<<v, q>>] # Nobody PROVE v \in users /\ q \in projects
    BY <1>1, <1>2, <2>1 DEF RowsReferToRows
  <2>2. QED
    BY <1>1, <2>1 DEF RowsReferToRows
<1>7. OwnerRemains'
  <2> SUFFICES ASSUME NEW q \in projects' \ orphaned'
               PROVE  Owners(q)' # {} \/ \E x \in Handlers : req'[x].at = "own" /\ req'[x].project = q
    BY DEF OwnerRemains
  <2>1. CASE q = p
    BY <2>1, <1>1, <1>2 DEF Owners
  <2>2. CASE q # p
    <3>1. q \in projects \ orphaned /\ q \in Projects /\ Owners(q)' = Owners(q)
      BY <2>2, <1>1, <1>3 DEF Owners, TypeInv
    <3>2. CASE Owners(q) # {}
      BY <3>1, <3>2
    <3>3. ASSUME NEW x \in Handlers, req[x].at = "own", req[x].project = q
          PROVE  \E y \in Handlers : req'[y].at = "own" /\ req'[y].project = q
      BY <3>3, <2>2, <1>4
    <3>4. QED
      BY <3>1, <3>2, <3>3 DEF OwnerRemains
  <2>3. QED
    BY <2>1, <2>2
<1>8. QED
  BY <1>4, <1>5, <1>6, <1>7

\* The memberships go with a project or a user.
LEMMA DeletesKeep ==
  ASSUME BackInv, NEW h \in Handlers, DeleteProject(h) \/ DeleteUser(h)
  PROVE  BackInv'
<1> USE DEF BackInv
<1> DEFINE p == req[h].project
           u == req[h].whom
           changed == IF DeleteProject(h) THEN {p} ELSE Projects
<1>1. p \in Projects /\ u \in Users /\ req[h].at = "write"
  BY DEF DeleteProject, DeleteUser, TypeInv
<1>2. /\ role' \in [Users \X Projects -> Roles \cup {Nobody}]
      /\ \A v \in Users, q \in Projects : role'[<<v, q>>] \in {role[<<v, q>>], Nobody}
      /\ \A v \in Users, q \in Projects :
           role'[<<v, q>>] # role[<<v, q>>] => (IF DeleteProject(h) THEN q = p ELSE v = u)
      /\ \A v \in Users, q \in Projects :
           (IF DeleteProject(h) THEN q = p ELSE v = u) => role'[<<v, q>>] = Nobody
  BY DEF DeleteProject, DeleteUser, Cascade, TypeInv
<1>3. changed \in SUBSET Projects /\ RespondChanging(h, changed)
      /\ \A v \in Users, q \in Projects \ changed : role'[<<v, q>>] = role[<<v, q>>]
  BY <1>1, <1>2 DEF DeleteProject, DeleteUser
<1> HIDE DEF changed
<1>4. /\ req' \in [Handlers -> Requests]
      /\ \A x \in Handlers \ {h} : req'[x].at = req[x].at /\ req'[x].project = req[x].project
      /\ \A x \in Handlers : req'[x].at # "idle" =>
           /\ req'[x].by \in Users /\ req'[x].whom \in Users /\ req'[x].project \in Projects
           /\ req'[x].kind \in Kinds /\ req'[x].grant \in Roles
      /\ \A x \in Handlers : StartsWith(req'[x]) /\ (req'[x].at = "own" => req'[x].kind = "create")
      /\ \A x \in Handlers : OtherOwner(x)'
  BY <1>3, ChangeSeen
<1>5. /\ users' \subseteq users /\ projects' \subseteq projects /\ orphaned' \subseteq Projects /\ orphaned \subseteq orphaned'
      /\ active' \in [Users -> Projects \cup {Nobody}]
  BY <1>1 DEF DeleteProject, DeleteUser, TypeInv
<1>6. TypeInv'
  BY <1>2, <1>4, <1>5 DEF TypeInv
<1>7. RowsReferToRows'
  <2>1. CASE DeleteProject(h)
    <3>1. /\ users' = users /\ active' = active /\ projects' = projects \ {p}
      BY <2>1 DEF DeleteProject
    <3>4. \A v \in users : active[v] # p
      BY <2>1 DEF DeleteProject
    <3>2. ASSUME NEW v \in Users, NEW q \in Projects, role'[<<v, q>>] # Nobody
          PROVE  v \in users' /\ q \in projects'
      BY <2>1, <3>1, <3>2, <1>2 DEF RowsReferToRows
    <3>3. QED
      BY <3>1, <3>2, <3>4 DEF RowsReferToRows
  <2>2. CASE DeleteUser(h) /\ ~ DeleteProject(h)
    <3>1. users' = users \ {u} /\ projects' = projects /\ active' = [active EXCEPT ![u] = Nobody]
      BY <2>2 DEF DeleteUser
    <3>2. ASSUME NEW v \in Users, NEW q \in Projects, role'[<<v, q>>] # Nobody
          PROVE  v \in users' /\ q \in projects'
      BY <2>2, <3>1, <3>2, <1>2 DEF RowsReferToRows
    <3>3. \A v \in Users : active'[v] # Nobody => v \in users' /\ active'[v] \in projects'
      BY <3>1, <1>1 DEF RowsReferToRows, TypeInv
    <3>4. QED
      BY <3>2, <3>3 DEF RowsReferToRows
  <2>3. QED
    BY <2>1, <2>2
<1>8. OwnerRemains'
  <2> SUFFICES ASSUME NEW q \in projects' \ orphaned'
               PROVE  Owners(q)' # {} \/ \E x \in Handlers : req'[x].at = "own" /\ req'[x].project = q
    BY DEF OwnerRemains
  <2>1. q \in projects \ orphaned /\ q \in Projects
    BY <1>5 DEF TypeInv
  <2>2. Owners(q)' = Owners(q)
    <3>1. CASE DeleteProject(h)
      <4>1. q # p
        BY <3>1 DEF DeleteProject
      <4>2. QED
        BY <3>1, <4>1, <2>1, <1>2 DEF Owners
    <3>2. CASE DeleteUser(h) /\ ~ DeleteProject(h)
      <4>1. role[<<u, q>>] # "owner"
        BY <3>2, <2>1 DEF DeleteUser
      <4>2. \A v \in Users : role'[<<v, q>>] = "owner" <=> role[<<v, q>>] = "owner"
        BY <3>2, <4>1, <2>1, <1>2, BackAssumption DEF Roles
      <4>3. QED
        BY <4>2 DEF Owners
    <3>3. QED
      BY <3>1, <3>2
  <2>3. QED
    BY <1>1, <1>4, <2>1, <2>2, StillOwning
<1>9. QED
  BY <1>4, <1>6, <1>7, <1>8

\* Every step keeps the invariant.
LEMMA BackInvStep == BackInv /\ [BackNext]_backVars => BackInv'
<1> SUFFICES ASSUME BackInv, [BackNext]_backVars PROVE BackInv'
  OBVIOUS
<1>1. CASE UNCHANGED backVars
  BY <1>1 DEF backVars, BackInv, TypeInv, RowsReferToRows, OwnerRemains, Owners, OtherOwner, LosesOwner
<1>2. ASSUME NEW h \in Handlers,
             Request(h) \/ AssertIsOwner(h) \/ AssertIsMember(h) \/ SelectMembership(h) \/ CountOwners(h) \/ UpdateColumns(h)
      PROVE  BackInv'
  BY <1>2, ReadsKeep
<1>3. ASSUME NEW h \in Handlers, WriteMembership(h) PROVE BackInv'
  BY <1>3, MembersKeep
<1>4. ASSUME NEW h \in Handlers, InsertProject(h) PROVE BackInv'
  BY <1>4, InsertProjectKeeps
<1>5. ASSUME NEW h \in Handlers, InsertOwner(h) PROVE BackInv'
  BY <1>5, InsertOwnerKeeps
<1>6. ASSUME NEW h \in Handlers, DeleteProject(h) \/ DeleteUser(h) PROVE BackInv'
  BY <1>6, DeletesKeep
<1>7. ASSUME NEW h \in Handlers, SetActiveProject(h) \/ CreateUser(h) \/ CutShort(h) PROVE BackInv'
  BY <1>7, AnswersKeep
<1>8. QED
  BY <1>1, <1>2, <1>3, <1>4, <1>5, <1>6, <1>7 DEF BackNext

\* A membership and an active project are of a user and a project that exist, for
\* any number of overlapping and interrupted requests (server.py, project_service.py).
THEOREM RowsCorrect == BackSpec => []RowsReferToRows
<1>1. BackInv => RowsReferToRows
  BY DEF BackInv
<1>2. QED
  BY <1>1, BackInvInit, BackInvStep, PTL DEF BackSpec

\* A project keeps an owner, except for the three reasons OwnerRemains names: what
\* remove_member and update_member_role check is enough for requests that do not
\* overlap with another change of the members.
THEOREM OwnersRemain == BackSpec => []OwnerRemains
<1>1. BackInv => OwnerRemains
  BY DEF BackInv
<1>2. QED
  BY <1>1, BackInvInit, BackInvStep, PTL DEF BackSpec

(***************************************************************************)
(* The browser's store                                                     *)
(***************************************************************************)
\* Which task is where: one loads, and only before the directory counts as mounted;
\* a flush is under way only after that, over a file of this page's version that
\* still holds what the flush is to store.
PageInv ==
  /\ prepared => mounted
  /\ mounted => mountPoint /\ file.version = version
  /\ \A p \in PageTasks : doing[p] = "load" =>
       mountPoint /\ ~ mounted /\ \A q \in PageTasks : doing[q] = "load" => q = p
  /\ \A p \in PageTasks : doing[p] \in {"flush", "store"} => mounted /\ atFlush[p] \subseteq file.rows

\* The copies under way are of different tasks, each holds what its flush and the
\* completed ones are to store, and a later one all of an earlier one.
Holds(n) ==
  /\ doing[transactions[n].task] = "store"
  /\ atFlush[transactions[n].task] \subseteq transactions[n].database.rows
  /\ kept \subseteq transactions[n].database.rows
  /\ transactions[n].database.rows \subseteq file.rows

CopyInv ==
  /\ \A n \in 1 .. Len(transactions) : Holds(n)
  /\ \A m, n \in 1 .. Len(transactions) : m < n =>
       /\ transactions[m].task # transactions[n].task
       /\ transactions[m].database.rows \subseteq transactions[n].database.rows

StoreInv == BrowserTypeOK /\ PageInv /\ CopyInv /\ FlushedRowsSurvive

\* The transactions are copies of databases, and so is each of them.
LEMMA CopyIsDatabase ==
  ASSUME BrowserTypeOK, NEW n \in 1 .. Len(transactions)
  PROVE  transactions[n] \in [task : PageTasks, database : Database]
<1> DEFINE R == [task : PageTasks, database : Database]
<1>1. transactions \in Seq(R)
  BY DEF BrowserTypeOK
<1> HIDE DEF R
<1>2. transactions[n] \in R
  BY <1>1, ElementOfSeq
<1>3. QED
  BY <1>2 DEF R

\* The invariant of the store holds at first.
LEMMA StoreInvInit == BrowserInit => StoreInv
<1> SUFFICES ASSUME BrowserInit PROVE StoreInv
  OBVIOUS
<1>1. NoDatabase \in Database /\ NoDatabase.rows = {}
  BY DEF NoDatabase, Database
<1>2. transactions = <<>> /\ Len(transactions) = 0
  BY DEF BrowserInit
<1>3. BrowserTypeOK
  <2>1. transactions \in Seq([task : PageTasks, database : Database])
    BY <1>2, EmptySeq
  <2>2. QED
    BY <1>1, <2>1 DEF BrowserInit, BrowserTypeOK
<1>4. PageInv
  BY DEF BrowserInit, PageInv
<1>5. CopyInv
  BY <1>2 DEF CopyInv
<1>6. FlushedRowsSurvive
  BY DEF BrowserInit, FlushedRowsSurvive
<1>7. QED
  BY <1>3, <1>4, <1>5, <1>6 DEF StoreInv

\* What follows mount, over the file in memory or what was just loaded.
LEMMA PrepareKeeps ==
  ASSUME StoreInv, NEW p \in PageTasks, NEW database, Prepare(p, database),
         \/ doing[p] = "idle" /\ mounted /\ database = file
         \/ doing[p] = "load" /\ database = stored
  PROVE  StoreInv'
<1> USE BrowserAssumption DEF StoreInv, Database
<1>1. database \in Database /\ version \in Nat \ {0}
  BY DEF BrowserTypeOK
<1>2. file' \in Database /\ file'.version = version /\ file'.rows \subseteq database.rows
  BY <1>1 DEF Prepare, EnsureSchema
<1>3. BrowserTypeOK'
  BY <1>2 DEF BrowserTypeOK, Prepare
<1>4. mounted => file' = file /\ kept' = kept
  <2> SUFFICES ASSUME mounted PROVE file' = file /\ kept' = kept
    OBVIOUS
  <2>1. database = file /\ ~ Stale(database)
    BY DEF PageInv, Stale
  <2>2. file' = [version |-> version, rows |-> file.rows] /\ file.version = version /\ file \in Database
    BY <2>1, <1>1 DEF Prepare, EnsureSchema, PageInv
  <2>3. kept' = kept
    BY <2>1 DEF Prepare
  <2>4. file' = file
    BY <2>2
  <2>5. QED
    BY <2>3, <2>4
<1>5. ~ mounted => transactions = <<>> /\ \A q \in PageTasks : doing[q] \in {"idle", "load"}
  <2> SUFFICES ASSUME ~ mounted PROVE transactions = <<>> /\ \A q \in PageTasks : doing[q] \in {"idle", "load"}
    OBVIOUS
  <2>1. \A q \in PageTasks : doing[q] \in {"idle", "load"}
    BY DEF PageInv, BrowserTypeOK
  <2>2. Len(transactions) = 0
    <3> SUFFICES ASSUME Len(transactions) # 0 PROVE FALSE
      OBVIOUS
    <3>1. 1 \in 1 .. Len(transactions)
      BY LenProperties DEF BrowserTypeOK
    <3>2. transactions[1].task \in PageTasks
      BY <3>1, CopyIsDatabase
    <3>3. QED
      BY <3>1, <3>2, <2>1 DEF CopyInv, Holds
  <2>3. QED
    BY <2>1, <2>2 DEF BrowserTypeOK
<1>6. PageInv'
  <2>1. mountPoint
    BY DEF PageInv
  <2>2. \A q \in PageTasks : doing'[q] # "load"
    BY DEF Prepare, PageInv, BrowserTypeOK
  <2>3. \A q \in PageTasks : doing'[q] \in {"flush", "store"} => atFlush'[q] \subseteq file'.rows
    BY <1>4, <1>5 DEF Prepare, PageInv, BrowserTypeOK
  <2>4. QED
    BY <2>1, <2>2, <2>3, <1>2 DEF PageInv, Prepare
<1>7. CopyInv'
  <2>1. CASE ~ mounted
    BY <2>1, <1>5 DEF CopyInv, Holds, Prepare
  <2>2. CASE mounted
    <3>1. \A n \in 1 .. Len(transactions) : transactions[n].task \in PageTasks /\ transactions[n].task # p
      <4> SUFFICES ASSUME NEW n \in 1 .. Len(transactions)
                   PROVE  transactions[n].task \in PageTasks /\ transactions[n].task # p
        OBVIOUS
      <4>1. transactions[n].task \in PageTasks
        BY CopyIsDatabase
      <4>2. doing[transactions[n].task] = "store" /\ doing[p] \in {"idle", "load"}
        BY DEF CopyInv, Holds
      <4>3. QED
        BY <4>1, <4>2
    <3>2. QED
      BY <3>1, <2>2, <1>4 DEF CopyInv, Holds, Prepare, BrowserTypeOK
  <2>3. QED
    BY <2>1, <2>2
<1>8. FlushedRowsSurvive'
  <2>1. CASE mounted
    BY <2>1, <1>4 DEF FlushedRowsSurvive, Prepare
  <2>2. CASE ~ mounted
    BY <2>2, <1>1 DEF FlushedRowsSurvive, Prepare, EnsureSchema
  <2>3. QED
    BY <2>1, <2>2
<1>9. QED
  BY <1>3, <1>6, <1>7, <1>8

\* The first copy is applied or aborted.
LEMMA StoreKeeps == StoreInv /\ Store => StoreInv'
<1> SUFFICES ASSUME StoreInv, Store PROVE StoreInv'
  OBVIOUS
<1> USE DEF StoreInv
<1> DEFINE t == Head(transactions)
           R == [task : PageTasks, database : Database]
<1>1. transactions \in Seq(R) /\ transactions # <<>>
  BY DEF Store, BrowserTypeOK
<1>2. /\ 1 \in 1 .. Len(transactions) /\ t = transactions[1] /\ t \in R
      /\ Len(transactions') = Len(transactions) - 1
      /\ \A n \in 1 .. Len(transactions') : n + 1 \in 1 .. Len(transactions) /\ transactions'[n] = transactions[n + 1]
      /\ transactions' \in Seq(R)
  <2>1. Len(transactions) \in Nat \ {0} /\ transactions' = Tail(transactions)
    BY <1>1, EmptySeq DEF Store
  <2>2. /\ Head(transactions) \in R /\ Head(transactions) = transactions[1]
        /\ Tail(transactions) \in Seq(R)
        /\ Len(Tail(transactions)) = Len(transactions) - 1
        /\ \A i \in 1 .. Len(transactions) - 1 : Tail(transactions)[i] = transactions[i + 1]
    <3>1. transactions[1] \in R
      <4>1. 1 \in 1 .. Len(transactions)
        BY <2>1
      <4>2. QED
        BY <4>1, CopyIsDatabase
    <3>2. Head(transactions) = transactions[1]
      BY <1>1, <2>1
    <3> HIDE DEF R
    <3>3. QED
      BY <1>1, <2>1, <3>1, <3>2, HeadTailProperties
  <2>3. QED
    BY <2>1, <2>2
<1>3. Holds(1)
  BY <1>2 DEF CopyInv
<1>4. BrowserTypeOK'
  BY <1>2 DEF BrowserTypeOK, Store
<1>5. PageInv'
  BY <1>2, <1>3 DEF PageInv, Store, BrowserTypeOK, Holds
<1>6. kept' \subseteq kept \cup atFlush[t.task]
  BY DEF Store
<1>7. \A n \in 1 .. Len(transactions') : Holds(n)'
  <2> SUFFICES ASSUME NEW n \in 1 .. Len(transactions') PROVE Holds(n)'
    OBVIOUS
  <2>0. n + 1 \in 1 .. Len(transactions) /\ transactions'[n] = transactions[n + 1]
    BY <1>2
  <2>6. transactions[n + 1] \in R
    BY <1>1, <2>0, ElementOfSeq
  <2>1. Holds(n + 1) /\ transactions'[n] = transactions[n + 1] /\ transactions[n + 1].task \in PageTasks
    BY <2>0, <2>6 DEF CopyInv
  <2>2. t.task # transactions[n + 1].task /\ t.database.rows \subseteq transactions[n + 1].database.rows
    BY <1>2 DEF CopyInv
  <2>3. doing'[transactions[n + 1].task] = "store"
    BY <2>1, <2>2, <1>2 DEF Store, Holds, BrowserTypeOK
  <2>4. kept' \subseteq transactions[n + 1].database.rows
    BY <2>1, <2>2, <1>2, <1>3, <1>6 DEF Holds
  <2>5. QED
    BY <2>1, <2>3, <2>4 DEF Holds, Store
<1>8. CopyInv'
  <2>1. ASSUME NEW m \in 1 .. Len(transactions'), NEW n \in 1 .. Len(transactions'), m < n
        PROVE  /\ transactions'[m].task # transactions'[n].task
               /\ transactions'[m].database.rows \subseteq transactions'[n].database.rows
    <3>1. m + 1 \in 1 .. Len(transactions) /\ n + 1 \in 1 .. Len(transactions) /\ m + 1 < n + 1
      BY <2>1, <1>2
    <3>2. transactions'[m] = transactions[m + 1] /\ transactions'[n] = transactions[n + 1]
      BY <1>2
    <3>3. /\ transactions[m + 1].task # transactions[n + 1].task
          /\ transactions[m + 1].database.rows \subseteq transactions[n + 1].database.rows
      BY <3>1 DEF CopyInv
    <3>4. QED
      BY <3>2, <3>3
  <2>2. QED
    BY <2>1, <1>7 DEF CopyInv
<1>9. FlushedRowsSurvive'
  <2>1. kept' \subseteq stored'.rows
    BY <1>2, <1>3 DEF Store, Holds, FlushedRowsSurvive
  <2>2. mounted' => kept' \subseteq file'.rows
    BY <1>2, <1>3, <1>6 DEF Store, Holds, FlushedRowsSurvive
  <2>3. QED
    BY <2>1, <2>2 DEF FlushedRowsSurvive
<1>10. QED
  BY <1>4, <1>5, <1>8, <1>9

\* A flush hands its copy to IndexedDB.
LEMMA CopyKeeps ==
  ASSUME StoreInv, NEW p \in PageTasks, Copy(p)
  PROVE  StoreInv'
<1> USE DEF StoreInv
<1> DEFINE R == [task : PageTasks, database : Database]
           t == [task |-> p, database |-> file]
<1>1. t \in R /\ transactions \in Seq(R) /\ doing[p] = "flush" /\ transactions' = Append(transactions, t)
  BY DEF Copy, BrowserTypeOK
<1>2. /\ Len(transactions) \in Nat /\ Len(transactions') = Len(transactions) + 1 /\ transactions' \in Seq(R)
      /\ \A n \in 1 .. Len(transactions) : transactions'[n] = transactions[n] /\ transactions[n] \in R
      /\ transactions'[Len(transactions) + 1] = t
  <2>1. \A n \in 1 .. Len(transactions) : transactions[n] \in R
    BY CopyIsDatabase
  <2> HIDE DEF R, t
  <2>2. QED
    BY <1>1, <2>1, AppendProperties, LenProperties
<1>3. BrowserTypeOK'
  BY <1>2 DEF BrowserTypeOK, Copy
<1>4. PageInv'
  BY DEF PageInv, Copy, BrowserTypeOK
<1>5. \A n \in 1 .. Len(transactions) : transactions[n].task # p /\ Holds(n)
  BY <1>1 DEF CopyInv, Holds
<1>6. mounted /\ atFlush[p] \subseteq file.rows /\ kept \subseteq file.rows
  BY <1>1 DEF PageInv, FlushedRowsSurvive
<1>7. \A n \in 1 .. Len(transactions') : Holds(n)'
  <2> SUFFICES ASSUME NEW n \in 1 .. Len(transactions') PROVE Holds(n)'
    OBVIOUS
  <2>1. CASE n \in 1 .. Len(transactions)
    BY <2>1, <1>2, <1>5 DEF Holds, Copy, BrowserTypeOK
  <2>2. CASE n = Len(transactions) + 1
    BY <2>2, <1>2, <1>6 DEF Holds, Copy, BrowserTypeOK
  <2>3. QED
    BY <2>1, <2>2, <1>2
<1>8. ASSUME NEW m \in 1 .. Len(transactions'), NEW n \in 1 .. Len(transactions'), m < n
      PROVE  /\ transactions'[m].task # transactions'[n].task
             /\ transactions'[m].database.rows \subseteq transactions'[n].database.rows
  <2>1. m \in 1 .. Len(transactions)
    BY <1>2, <1>8
  <2>2. CASE n \in 1 .. Len(transactions)
    BY <2>1, <2>2, <1>2, <1>8 DEF CopyInv
  <2>3. CASE n = Len(transactions) + 1
    BY <2>1, <2>3, <1>2, <1>5 DEF Holds
  <2>4. QED
    BY <2>2, <2>3, <1>2
<1>9. CopyInv'
  BY <1>7, <1>8 DEF CopyInv
<1>10. FlushedRowsSurvive'
  BY DEF FlushedRowsSurvive, Copy
<1>11. QED
  BY <1>3, <1>4, <1>9, <1>10

\* The steps that leave the copies under way alone.
LEMMA OthersKeep ==
  ASSUME StoreInv,
         \/ \E p \in PageTasks : doing[p] = "idle" /\ Mount(p) /\ ~ mounted
         \/ \E p \in PageTasks : LoadFails(p) \/ FlushFile(p)
         \/ \E r \in Rows : Commit(r)
  PROVE  StoreInv'
<1> USE DEF StoreInv
<1>1. transactions' = transactions /\ kept' = kept /\ stored' = stored /\ mounted' = mounted
  BY DEF Mount, LoadFails, FlushFile, Commit
<1>2. /\ file' \in Database /\ file'.version = file.version /\ file.rows \subseteq file'.rows
  BY DEF Mount, LoadFails, FlushFile, Commit, BrowserTypeOK, Database
<1>3. BrowserTypeOK'
  BY <1>2 DEF BrowserTypeOK, Mount, LoadFails, FlushFile, Commit, Database
<1>4. PageInv'
  <2>1. ASSUME NEW p \in PageTasks, doing[p] = "idle", Mount(p), ~ mounted PROVE PageInv'
    BY <2>1 DEF PageInv, Mount, BrowserTypeOK
  <2>2. ASSUME NEW p \in PageTasks, LoadFails(p) PROVE PageInv'
    BY <2>2 DEF PageInv, LoadFails, BrowserTypeOK
  <2>3. ASSUME NEW p \in PageTasks, FlushFile(p) PROVE PageInv'
    BY <2>3 DEF PageInv, FlushFile, BrowserTypeOK
  <2>4. ASSUME NEW r \in Rows, Commit(r) PROVE PageInv'
    BY <2>4, <1>2 DEF PageInv, Commit, BrowserTypeOK
  <2>5. QED
    BY <2>1, <2>2, <2>3, <2>4
<1>5. \A n \in 1 .. Len(transactions) : Holds(n)'
  <2> SUFFICES ASSUME NEW n \in 1 .. Len(transactions) PROVE Holds(n)'
    OBVIOUS
  <2>1. Holds(n)
    BY DEF CopyInv
  <2>2. transactions[n] \in [task : PageTasks, database : Database]
    BY CopyIsDatabase
  <2>3. doing'[transactions[n].task] = "store" /\ atFlush'[transactions[n].task] = atFlush[transactions[n].task]
    BY <2>1, <2>2 DEF Holds, Mount, LoadFails, FlushFile, Commit, BrowserTypeOK
  <2>4. QED
    BY <2>1, <2>3, <1>1, <1>2 DEF Holds
<1>6. CopyInv'
  BY <1>1, <1>5 DEF CopyInv
<1>7. FlushedRowsSurvive'
  BY <1>1, <1>2 DEF FlushedRowsSurvive
<1>8. QED
  BY <1>3, <1>4, <1>6, <1>7

\* A reload forgets the file and the tasks, not what is stored.
LEMMA ReloadKeeps == StoreInv /\ Reload => StoreInv'
<1> SUFFICES ASSUME StoreInv, Reload PROVE StoreInv'
  OBVIOUS
<1> USE DEF StoreInv
<1>1. PICK n \in 0 .. Len(transactions) : stored' = IF n = 0 THEN stored ELSE transactions[n].database
  BY DEF Reload
<1>2. stored' \in Database /\ kept \subseteq stored'.rows
  <2>1. CASE n = 0
    BY <2>1, <1>1 DEF BrowserTypeOK, FlushedRowsSurvive
  <2>2. CASE n # 0
    <3>1. n \in 1 .. Len(transactions)
      BY <2>2, LenProperties DEF BrowserTypeOK
    <3>2. transactions[n] \in [task : PageTasks, database : Database] /\ Holds(n)
      BY <3>1, CopyIsDatabase DEF CopyInv
    <3>3. QED
      BY <2>2, <3>2, <1>1 DEF Holds
  <2>3. QED
    BY <2>1, <2>2
<1>3. NoDatabase \in Database /\ Len(transactions') = 0 /\ transactions' = <<>>
  BY DEF NoDatabase, Database, Reload
<1>4. BrowserTypeOK'
  <2>1. transactions' \in Seq([task : PageTasks, database : Database])
    BY <1>3, EmptySeq
  <2>2. QED
    BY <1>2, <1>3, <2>1 DEF BrowserTypeOK, Reload
<1>5. PageInv'
  BY DEF PageInv, Reload
<1>6. CopyInv'
  BY <1>3 DEF CopyInv
<1>7. FlushedRowsSurvive'
  BY <1>2 DEF FlushedRowsSurvive, Reload
<1>8. QED
  BY <1>4, <1>5, <1>6, <1>7

\* Every step of the page keeps the invariant.
LEMMA StoreInvStep == StoreInv /\ [BrowserNext]_browserVars => StoreInv'
<1> SUFFICES ASSUME StoreInv, [BrowserNext]_browserVars PROVE StoreInv'
  OBVIOUS
<1>1. CASE UNCHANGED browserVars
  BY <1>1 DEF browserVars, StoreInv, BrowserTypeOK, PageInv, CopyInv, Holds, FlushedRowsSurvive, Database
<1>2. ASSUME NEW p \in PageTasks, InitSqlite(p) PROVE StoreInv'
  <2>1. CASE mounted
    BY <1>2, <2>1, PrepareKeeps DEF InitSqlite
  <2>2. CASE ~ mounted
    BY <1>2, <2>2, OthersKeep DEF InitSqlite
  <2>3. QED
    BY <2>1, <2>2
<1>3. ASSUME NEW p \in PageTasks, Load(p) PROVE StoreInv'
  BY <1>3, PrepareKeeps DEF Load
<1>4. ASSUME NEW p \in PageTasks, LoadFails(p) \/ FlushFile(p) PROVE StoreInv'
  BY <1>4, OthersKeep
<1>5. ASSUME NEW p \in PageTasks, Copy(p) PROVE StoreInv'
  BY <1>5, CopyKeeps
<1>6. CASE Store
  BY <1>6, StoreKeeps
<1>7. ASSUME NEW r \in Rows, Commit(r) PROVE StoreInv'
  BY <1>7, OthersKeep
<1>8. CASE Reload
  BY <1>8, ReloadKeeps
<1>9. QED
  BY <1>1, <1>2, <1>3, <1>4, <1>5, <1>6, <1>7, <1>8 DEF BrowserNext

\* The page and the store are well typed (init_sqlite_sync, flush, a reload).
THEOREM BrowserTypeCorrect == BrowserSpec => []BrowserTypeOK
<1>1. StoreInv => BrowserTypeOK
  BY DEF StoreInv
<1>2. QED
  BY <1>1, StoreInvInit, StoreInvStep, PTL DEF BrowserSpec

\* What a completed flush has stored is never lost, except to a page of another
\* schema version: for any tasks of a page, rows, versions and reloads.
THEOREM FlushedSurvive == BrowserSpec => []FlushedRowsSurvive
<1>1. StoreInv => FlushedRowsSurvive
  BY DEF StoreInv
<1>2. QED
  BY <1>1, StoreInvInit, StoreInvStep, PTL DEF BrowserSpec

(***************************************************************************)
(* The views of the backoffice                                             *)
(***************************************************************************)
ViewNames == {"none", "detail", "list", "summary"}
Statements == [read : ReadNames, talk : Talks \cup {NoTalk}]

ConsoleTypeOK ==
  /\ talkOf \in [Works -> Talks \cup {NoTalk}]
  /\ tasksOf \in [Works -> Nat] /\ messagesOf \in [Works -> Nat]
  /\ shown \in [Viewers -> [view : ViewNames, talk : Talks \cup {NoTalk}, among : SUBSET Talks, offset : Nat]]
  /\ left \in [Viewers -> Seq(Statements)]
  /\ DOMAIN got = Viewers /\ \A v \in Viewers : got[v] = [n \in ReadNames |-> got[v][n]]
  /\ got = [v \in Viewers |-> got[v]]
  /\ cleared \in [Viewers -> SUBSET Talks]

\* Every session has a run, so there are at most as many of them, whatever is asked for.
CountsOK ==
  /\ IsFiniteSet(Recorded) /\ IsFiniteSet(OpenTalks)
  /\ \A K \in SUBSET Talks : Cardinality(SessionsAmong(K)) <= Cardinality(RunsAmong(K))

\* What is left of the statements of a view, after one of them.
AfterMessages == <<"runs", "tasks">>
AfterRuns == <<"tasks">>
AfterTotal == <<"rows">>
AfterSessions == <<"runCount">>

\* What has been read of the detail of a session is covered by what is there now.
DetailInv(v) ==
  LET k == shown[v].talk
      d == got[v]
  IN  \/ left[v] = About(k, DetailStatements)
      \/ left[v] = About(k, AfterMessages) /\ d["messages"] \subseteq RunsOf(k)
      \/ /\ left[v] = About(k, AfterRuns)
         /\ d["messages"] \subseteq DOMAIN d["runs"] /\ DOMAIN d["runs"] \subseteq RunsOf(k)
         /\ k \in cleared[v] \/ \A w \in DOMAIN d["runs"] : d["runs"][w] \in Nat /\ d["runs"][w] <= tasksOf[w]
      \/ /\ left[v] = <<>>
         /\ d["messages"] \subseteq DOMAIN d["runs"] /\ DOMAIN d["runs"] \subseteq DOMAIN d["tasks"]
         /\ k \in cleared[v] \/ \A w \in DOMAIN d["runs"] : d["runs"][w] <= d["tasks"][w]

Awaited(v, n, k) == \E i \in DOMAIN left[v] : left[v][i] = [read |-> n, talk |-> k]

\* A session that counted messages still has some, and both its previews are read or
\* are still to be read.
PreviewsCome(v) ==
  \A k \in DOMAIN got[v]["rows"] \ cleared[v] : got[v]["rows"][k] =>
    /\ left[v] # <<>> => Speaking(k) # {}
    /\ k \in got[v]["first"] \/ Awaited(v, "first", k)
    /\ k \in got[v]["last"] \/ Awaited(v, "last", k)

\* A page that is not full leaves out no session that was counted.
PageWhole(v) ==
  LET rows == Cardinality(DOMAIN got[v]["rows"])
  IN  rows = PageSize \/ got[v]["total"] <= shown[v].offset + rows

ListInv(v) ==
  \/ left[v] = About(NoTalk, ListStatements)
  \/ /\ left[v] = About(NoTalk, AfterTotal)
     /\ got[v]["total"] \in Nat /\ got[v]["total"] <= Cardinality(SessionsAmong(shown[v].among))
  \/ /\ PageWhole(v)
     /\ \A i \in DOMAIN left[v] : left[v][i].read \in {"first", "last"}
     /\ PreviewsCome(v)

SummaryInv(v) ==
  \/ left[v] = About(NoTalk, SummaryStatements)
  \/ /\ left[v] = About(NoTalk, AfterSessions)
     /\ got[v]["sessions"] \in Nat /\ got[v]["sessions"] <= Cardinality(RunsAmong(shown[v].among))
  \/ left[v] = <<>> /\ got[v]["sessions"] <= got[v]["runCount"]

ShownInv(v) ==
  /\ shown[v].view = "none" => left[v] = <<>>
  /\ shown[v].view = "detail" => DetailInv(v)
  /\ shown[v].view = "list" => ListInv(v)
  /\ shown[v].view = "summary" => SummaryInv(v)

ConsoleInv == ConsoleTypeOK /\ CountsOK /\ \A v \in Viewers : ShownInv(v)

\* What the steps of the agents do to a view in progress: rows are added, and history
\* that goes is noted.
TablesMove ==
  /\ UNCHANGED views
  /\ Recorded \subseteq Recorded' /\ \A w \in Recorded : talkOf'[w] = talkOf[w]
  /\ \A v \in Viewers :
       IF left[v] = <<>> THEN cleared'[v] = cleared[v]
       ELSE /\ cleared[v] \subseteq cleared'[v]
            /\ \A w \in Recorded : \/ talkOf[w] \in cleared'[v]
                                   \/ tasksOf[w] <= tasksOf'[w] /\ messagesOf[w] <= messagesOf'[w]

-----------------------------------------------------------------------------
\* Reading the first statement leaves those after it.
LEMMA AboutTail ==
  ASSUME NEW k, NEW reads \in Seq(ReadNames), reads # <<>>
  PROVE  /\ About(k, reads) # <<>>
         /\ Head(About(k, reads)) = [read |-> Head(reads), talk |-> k]
         /\ Tail(About(k, reads)) = About(k, Tail(reads))
<1>1. Len(About(k, reads)) = Len(reads) /\ Len(reads) \in Nat \ {0}
  BY DEF About
<1>2. /\ About(k, reads) # <<>> /\ Head(About(k, reads)) = [read |-> Head(reads), talk |-> k]
  BY <1>1 DEF About
<1>3. Tail(About(k, reads)) = About(k, Tail(reads))
  BY <1>1 DEF About
<1> QED BY <1>2, <1>3

\* The statements of a view are statements.
LEMMA AboutType ==
  ASSUME NEW k \in Talks \cup {NoTalk}, NEW reads \in Seq(ReadNames)
  PROVE  About(k, reads) \in Seq(Statements)
<1>1. \A n \in DOMAIN reads : [read |-> reads[n], talk |-> k] \in Statements
  BY DEF Statements
<1>2. DOMAIN reads = 1 .. Len(reads) /\ Len(reads) \in Nat
  OBVIOUS
<1> QED BY <1>1, <1>2, SeqDef DEF About

\* One statement of a view.
LEMMA ReadEffect ==
  ASSUME ConsoleTypeOK, NEW v \in Viewers, NEW k, NEW reads \in Seq(ReadNames), reads # <<>>,
         left[v] = About(k, reads), ReadNext(v)
  PROVE  /\ left'[v] = About(k, Tail(reads))
         /\ got'[v] = [got[v] EXCEPT ![Head(reads)] = Result(v, Head(reads), k)]
         /\ UNCHANGED <<tables, shown, cleared>>
<1>1. Head(left[v]) = [read |-> Head(reads), talk |-> k] /\ Tail(left[v]) = About(k, Tail(reads))
  BY AboutTail
<1>3. left' = [left EXCEPT ![v] = Tail(left[v])]
  BY DEF ReadNext
<1>4. got' = [got EXCEPT ![v] = [got[v] EXCEPT ![Head(reads)] = Result(v, Head(reads), k)]]
  <2> DEFINE s == Head(left[v])
  <2>1. s.read = Head(reads) /\ s.talk = k
    BY <1>1
  <2>2. got' = [got EXCEPT ![v] = [got[v] EXCEPT ![s.read] = Result(v, s.read, s.talk)]]
    BY DEF ReadNext
  <2> QED BY <2>1, <2>2
<1> QED BY <1>1, <1>3, <1>4 DEF ReadNext, ConsoleTypeOK

\* What each statement returns.
LEMMA Results ==
  ASSUME NEW v \in Viewers, NEW k
  PROVE  /\ Result(v, "messages", k) = Speaking(k)
         /\ Result(v, "runs", k) = TasksOf(k) /\ Result(v, "tasks", k) = TasksOf(k)
         /\ Result(v, "total", k) = Cardinality(SessionsAmong(shown[v].among))
         /\ Result(v, "sessions", k) = Cardinality(SessionsAmong(shown[v].among))
         /\ Result(v, "runCount", k) = Cardinality(RunsAmong(shown[v].among))
         /\ \A n \in {"first", "last"} : Result(v, n, k) = got[v][n] \cup {t \in {k} : Speaking(t) # {}}
BY DEF Result

-----------------------------------------------------------------------------
\* What is asked for is finite.
LEMMA AmongFinite ==
  ASSUME CountsOK, NEW K
  PROVE  /\ IsFiniteSet(SessionsAmong(K)) /\ IsFiniteSet(RunsAmong(K))
         /\ Cardinality(SessionsAmong(K)) \in Nat /\ Cardinality(RunsAmong(K)) \in Nat
<1>1. SessionsAmong(K) \subseteq OpenTalks /\ RunsAmong(K) \subseteq Recorded
  BY DEF SessionsAmong, RunsAmong
<1>2. IsFiniteSet(SessionsAmong(K)) /\ IsFiniteSet(RunsAmong(K))
  BY <1>1, FS_Subset DEF CountsOK
<1> QED BY <1>2, FS_CardinalityType

\* Every writer only adds rows, or clears whole sessions.
LEMMA WritersMove ==
  ASSUME ConsoleInv,
         \/ \E w \in Works : RecordTask(w) \/ RecordMessage(w) \/ \E k \in Talks : RecordRun(w, k)
         \/ ClearHistory(Talks) \/ \E k \in Talks : ClearHistory({k})
  PROVE  TablesMove /\ ConsoleTypeOK' /\ CountsOK'
<1>1. ASSUME NEW w \in Works, RecordTask(w) \/ RecordMessage(w)
      PROVE  TablesMove /\ ConsoleTypeOK' /\ CountsOK'
  <2>1. talkOf' = talkOf /\ Recorded' = Recorded /\ OpenTalks' = OpenTalks
    BY <1>1 DEF RecordTask, RecordMessage, Recorded, OpenTalks
  <2>2. ConsoleTypeOK'
    <3>1. tasksOf' \in [Works -> Nat] /\ messagesOf' \in [Works -> Nat]
      <4>1. CASE RecordTask(w)
        BY <4>1 DEF RecordTask, ConsoleInv, ConsoleTypeOK
      <4>2. CASE RecordMessage(w)
        BY <4>2 DEF RecordMessage, ConsoleInv, ConsoleTypeOK
      <4> QED BY <1>1, <4>1, <4>2
    <3>2. UNCHANGED views /\ cleared' = cleared
      BY <1>1 DEF RecordTask, RecordMessage
    <3> QED BY <2>1, <3>1, <3>2 DEF ConsoleInv, ConsoleTypeOK, views
  <2>3. \A u \in Works : tasksOf[u] <= tasksOf'[u] /\ messagesOf[u] <= messagesOf'[u]
    <3>1. tasksOf \in [Works -> Nat] /\ messagesOf \in [Works -> Nat]
      BY DEF ConsoleInv, ConsoleTypeOK
    <3>2. CASE RecordTask(w)
      BY <3>1, <3>2 DEF RecordTask
    <3>3. CASE RecordMessage(w)
      BY <3>1, <3>3 DEF RecordMessage
    <3> QED BY <1>1, <3>2, <3>3
  <2>4. CountsOK'
    BY <2>1 DEF ConsoleInv, CountsOK, SessionsAmong, RunsAmong
  <2>5. Recorded \subseteq Works
    BY DEF Recorded
  <2>6. UNCHANGED views /\ cleared' = cleared
    BY <1>1 DEF RecordTask, RecordMessage
  <2> QED BY <2>1, <2>2, <2>3, <2>4, <2>5, <2>6 DEF TablesMove
<1>2. ASSUME NEW w \in Works, NEW k \in Talks, RecordRun(w, k)
      PROVE  TablesMove /\ ConsoleTypeOK' /\ CountsOK'
  <2>1. ConsoleTypeOK'
    BY <1>2 DEF RecordRun, ConsoleInv, ConsoleTypeOK, views
  <2>2. w \notin Recorded /\ talkOf' = [talkOf EXCEPT ![w] = k] /\ k # NoTalk
    BY <1>2, ConsoleAssumption DEF RecordRun
  <2>3. Recorded' = Recorded \cup {w} /\ OpenTalks' = OpenTalks \cup {k}
    BY <2>2 DEF Recorded, OpenTalks, ConsoleInv, ConsoleTypeOK
  <2>4. IsFiniteSet(Recorded') /\ IsFiniteSet(OpenTalks')
    BY <2>3, FS_AddElement DEF ConsoleInv, CountsOK
  <2>5. ASSUME NEW K \in SUBSET Talks
        PROVE  Cardinality(SessionsAmong(K)') <= Cardinality(RunsAmong(K)')
    <3>1. /\ IsFiniteSet(SessionsAmong(K)) /\ IsFiniteSet(RunsAmong(K))
          /\ Cardinality(SessionsAmong(K)) <= Cardinality(RunsAmong(K))
      BY AmongFinite DEF ConsoleInv, CountsOK
    <3>2. Cardinality(SessionsAmong(K)) \in Nat /\ Cardinality(RunsAmong(K)) \in Nat
      BY <3>1, FS_CardinalityType
    <3>3. CASE k \in K
      <4>1. /\ SessionsAmong(K)' = SessionsAmong(K) \cup {k}
            /\ RunsAmong(K)' = RunsAmong(K) \cup {w} /\ w \notin RunsAmong(K)
        BY <2>2, <2>3, <3>3 DEF SessionsAmong, RunsAmong, Recorded, ConsoleInv, ConsoleTypeOK
      <4>2. Cardinality(RunsAmong(K)') = Cardinality(RunsAmong(K)) + 1
        BY <3>1, <4>1, FS_AddElement
      <4>3. \/ Cardinality(SessionsAmong(K)') = Cardinality(SessionsAmong(K))
            \/ Cardinality(SessionsAmong(K)') = Cardinality(SessionsAmong(K)) + 1
        BY <3>1, <4>1, FS_AddElement
      <4> QED BY <3>1, <3>2, <4>2, <4>3
    <3>4. CASE k \notin K
      <4>1. SessionsAmong(K)' = SessionsAmong(K)
        BY <2>3, <3>4 DEF SessionsAmong
      <4>2. RunsAmong(K)' = RunsAmong(K)
        BY <2>2, <2>3, <3>4 DEF RunsAmong, Recorded, ConsoleInv, ConsoleTypeOK
      <4> QED BY <3>1, <4>1, <4>2
    <3> QED BY <3>3, <3>4
  <2>7. CountsOK'
    BY <2>4, <2>5 DEF CountsOK
  <2>8. \A u \in Recorded : /\ talkOf'[u] = talkOf[u]
                            /\ tasksOf[u] <= tasksOf'[u] /\ messagesOf[u] <= messagesOf'[u]
    BY <1>2, <2>2 DEF Recorded, RecordRun, ConsoleInv, ConsoleTypeOK
  <2>9. UNCHANGED views /\ cleared' = cleared
    BY <1>2 DEF RecordRun
  <2> QED BY <2>1, <2>3, <2>7, <2>8, <2>9 DEF TablesMove
<1>3. ASSUME NEW K \in SUBSET Talks, ClearHistory(K)
      PROVE  TablesMove /\ ConsoleTypeOK' /\ CountsOK'
  <2>1. talkOf' = talkOf /\ Recorded' = Recorded /\ OpenTalks' = OpenTalks
    BY <1>3 DEF ClearHistory, Recorded, OpenTalks
  <2>2. ConsoleTypeOK'
    <3>1. tasksOf' \in [Works -> Nat] /\ messagesOf' \in [Works -> Nat]
      BY <1>3 DEF ClearHistory, ConsoleInv, ConsoleTypeOK
    <3>2. cleared' \in [Viewers -> SUBSET Talks]
      BY <1>3 DEF ClearHistory, ConsoleInv, ConsoleTypeOK
    <3> QED BY <1>3, <2>1, <3>1, <3>2 DEF ClearHistory, ConsoleInv, ConsoleTypeOK, views
  <2>3. CountsOK'
    BY <2>1, <1>3 DEF ClearHistory, ConsoleInv, CountsOK, SessionsAmong, RunsAmong
  <2>4. \A u \in Works : talkOf[u] \in K \/ (tasksOf[u] <= tasksOf'[u] /\ messagesOf[u] <= messagesOf'[u])
    BY <1>3 DEF ClearHistory, ConsoleInv, ConsoleTypeOK
  <2>5. \A v \in Viewers : cleared'[v] = IF left[v] = <<>> THEN cleared[v] ELSE cleared[v] \cup K
    BY <1>3 DEF ClearHistory
  <2>6. UNCHANGED views
    BY <1>3 DEF ClearHistory
  <2>7. Recorded \subseteq Works
    BY DEF Recorded
  <2>8. ASSUME NEW v \in Viewers, left[v] # <<>>
        PROVE  /\ cleared[v] \subseteq cleared'[v]
               /\ \A w \in Recorded : \/ talkOf[w] \in cleared'[v]
                                      \/ tasksOf[w] <= tasksOf'[w] /\ messagesOf[w] <= messagesOf'[w]
    <3>1. cleared'[v] = cleared[v] \cup K
      BY <2>5, <2>8
    <3> QED BY <2>4, <2>7, <3>1
  <2>9. \A v \in Viewers : left[v] = <<>> => cleared'[v] = cleared[v]
    BY <2>5
  <2>10. Recorded \subseteq Recorded' /\ \A w \in Recorded : talkOf'[w] = talkOf[w]
    BY <2>1
  <2> QED BY <2>2, <2>3, <2>6, <2>8, <2>9, <2>10 DEF TablesMove
<1> QED BY <1>1, <1>2, <1>3

\* While the history of a session is kept, it has every row that it had.
LEMMA RowsStay ==
  ASSUME TablesMove, NEW v \in Viewers, left[v] # <<>>, NEW k, ConsoleTypeOK, ConsoleTypeOK'
  PROVE  /\ RunsOf(k) \subseteq RunsOf(k)'
         /\ k \notin cleared'[v] => /\ \A w \in RunsOf(k) : tasksOf[w] <= tasksOf'[w]
                                  /\ Speaking(k) \subseteq Speaking(k)'
<1>1. RunsOf(k) \subseteq RunsOf(k)'
  BY DEF RunsOf, TablesMove
<1>2. k \notin cleared'[v] => \A w \in RunsOf(k) : tasksOf[w] <= tasksOf'[w] /\ messagesOf[w] <= messagesOf'[w]
  BY DEF RunsOf, TablesMove
<1>3. RunsOf(k) \subseteq Works
  BY DEF RunsOf, Recorded
<1> QED BY <1>1, <1>2, <1>3 DEF Speaking, ConsoleTypeOK

\* Neither sessions nor runs are deleted.
LEMMA CountsGrow ==
  ASSUME TablesMove, CountsOK', NEW K
  PROVE  /\ Cardinality(SessionsAmong(K)) <= Cardinality(SessionsAmong(K)')
         /\ Cardinality(RunsAmong(K)) <= Cardinality(RunsAmong(K)')
         /\ Cardinality(SessionsAmong(K)') \in Nat /\ Cardinality(RunsAmong(K)') \in Nat
<1>1. RunsAmong(K) \subseteq RunsAmong(K)'
  BY DEF TablesMove, RunsAmong
<1>2. SessionsAmong(K) \subseteq SessionsAmong(K)'
  BY DEF TablesMove, SessionsAmong, OpenTalks
<1>3. IsFiniteSet(Recorded') /\ IsFiniteSet(OpenTalks')
  BY DEF CountsOK
<1>4. SessionsAmong(K)' \subseteq OpenTalks' /\ RunsAmong(K)' \subseteq Recorded'
  BY DEF SessionsAmong, RunsAmong
<1>5. IsFiniteSet(SessionsAmong(K)') /\ IsFiniteSet(RunsAmong(K)')
  BY <1>3, <1>4, FS_Subset
<1>6. /\ Cardinality(SessionsAmong(K)) <= Cardinality(SessionsAmong(K)')
      /\ Cardinality(RunsAmong(K)) <= Cardinality(RunsAmong(K)')
  BY <1>1, <1>2, <1>5, FS_Subset
<1> QED BY <1>5, <1>6, FS_CardinalityType

\* The statement n comes first, then the others.
Starts(reads, n, rest) ==
  reads \in Seq(ReadNames) /\ reads # <<>> /\ Head(reads) = n /\ Tail(reads) = rest

\* The order in which each view reads.
LEMMA Order ==
  /\ Starts(DetailStatements, "messages", AfterMessages)
  /\ Starts(AfterMessages, "runs", AfterRuns) /\ Starts(AfterRuns, "tasks", <<>>)
  /\ Starts(ListStatements, "total", AfterTotal) /\ Starts(AfterTotal, "rows", <<>>)
  /\ Starts(SummaryStatements, "sessions", AfterSessions)
  /\ Starts(AfterSessions, "runCount", <<>>)
BY DEF Starts, ReadNames, DetailStatements, ListStatements, SummaryStatements,
   AfterMessages, AfterRuns, AfterTotal, AfterSessions

\* A view that still has to read is not over.
LEMMA ToRead ==
  ASSUME NEW k
  PROVE  /\ About(k, DetailStatements) # <<>> /\ About(k, AfterMessages) # <<>>
         /\ About(k, AfterRuns) # <<>>
         /\ About(k, ListStatements) # <<>> /\ About(k, AfterTotal) # <<>>
         /\ About(k, SummaryStatements) # <<>>
         /\ About(k, AfterSessions) # <<>>
         /\ About(k, <<>>) = <<>>
BY DEF About, DetailStatements, ListStatements, SummaryStatements,
   AfterMessages, AfterRuns, AfterTotal, AfterSessions

\* What a view has read stays consistent with what the writers do.
LEMMA ViewsStay ==
  ASSUME ConsoleInv, TablesMove, ConsoleTypeOK', CountsOK', NEW v \in Viewers
  PROVE  ShownInv(v)'
<1>1. shown'[v] = shown[v] /\ left'[v] = left[v] /\ got'[v] = got[v]
  BY DEF TablesMove, views
<1> PICK K : K = shown[v].among
  OBVIOUS
<1>0. K = shown'[v].among
  BY <1>1
<1>2. /\ Cardinality(SessionsAmong(K)) \in Nat /\ Cardinality(SessionsAmong(K)') \in Nat
      /\ Cardinality(RunsAmong(K)) \in Nat /\ Cardinality(RunsAmong(K)') \in Nat
      /\ Cardinality(SessionsAmong(K)) <= Cardinality(SessionsAmong(K)')
      /\ Cardinality(RunsAmong(K)) <= Cardinality(RunsAmong(K)')
  <2>1. Cardinality(SessionsAmong(K)) \in Nat /\ Cardinality(RunsAmong(K)) \in Nat
    BY AmongFinite DEF ConsoleInv
  <2> QED BY <2>1, CountsGrow
<1>3. CASE left[v] = <<>>
  <2>1. cleared'[v] = cleared[v]
    BY <1>3 DEF TablesMove
  <2> DEFINE d == got[v]
  <2>2. shown[v].view = "detail" => DetailInv(v)'
    <3>1. ASSUME DetailInv(v)
          PROVE  /\ d["messages"] \subseteq DOMAIN d["runs"] /\ DOMAIN d["runs"] \subseteq DOMAIN d["tasks"]
                 /\ shown[v].talk \in cleared[v] \/ \A w \in DOMAIN d["runs"] : d["runs"][w] <= d["tasks"][w]
      BY <1>3, <3>1, ToRead DEF DetailInv
    <3> QED BY <1>1, <1>3, <2>1, <3>1 DEF DetailInv, ConsoleInv, ShownInv
  <2>3. shown[v].view = "list" => ListInv(v)'
    <3>1. ASSUME ListInv(v)
          PROVE  PageWhole(v) /\ PreviewsCome(v)
      BY <1>3, <3>1, ToRead DEF ListInv
    <3>2. ASSUME ListInv(v) PROVE PreviewsCome(v)'
      <4> SUFFICES ASSUME NEW k \in DOMAIN d["rows"] \ cleared[v], d["rows"][k]
                   PROVE  k \in d["first"] /\ k \in d["last"]
        BY <1>1, <1>3, <2>1 DEF PreviewsCome
      <4> QED BY <1>3, <3>1, <3>2 DEF PreviewsCome, Awaited
    <3>3. ASSUME ListInv(v) PROVE ListInv(v)'
      <4>1. PageWhole(v)'
        BY <1>1, <3>1, <3>3 DEF PageWhole
      <4> QED BY <1>1, <1>3, <3>2, <3>3, <4>1 DEF ListInv
    <3> QED BY <3>3 DEF ConsoleInv, ShownInv
  <2>4. shown[v].view = "summary" => SummaryInv(v)'
    BY <1>1, <1>3, ToRead DEF SummaryInv, ConsoleInv, ShownInv
  <2> QED BY <1>1, <1>3, <2>2, <2>3, <2>4 DEF ShownInv, ConsoleInv
<1>4. CASE left[v] # <<>>
  <2>1. ASSUME shown[v].view = "detail" PROVE DetailInv(v)'
    <3> DEFINE d == got[v]
    <3> PICK k : k = shown[v].talk
      OBVIOUS
    <3>0. k = shown'[v].talk
      BY <1>1
    <3>1. DetailInv(v)
      BY <2>1 DEF ConsoleInv, ShownInv
    <3>5. RunsOf(k) \subseteq RunsOf(k)'
      BY <1>4, RowsStay DEF ConsoleInv
    <3>2. CASE left[v] = About(k, DetailStatements)
      BY <1>1, <3>2 DEF DetailInv
    <3>3. CASE left[v] = About(k, AfterMessages) /\ d["messages"] \subseteq RunsOf(k)
      <4>1. d["messages"] \subseteq RunsOf(k)'
        BY <3>3, <3>5
      <4> QED BY <1>1, <3>0, <3>3, <4>1 DEF DetailInv, RunsOf, Recorded
    <3>4. CASE /\ left[v] = About(k, AfterRuns)
               /\ d["messages"] \subseteq DOMAIN d["runs"] /\ DOMAIN d["runs"] \subseteq RunsOf(k)
               /\ k \in cleared[v] \/ \A w \in DOMAIN d["runs"] : d["runs"][w] \in Nat /\ d["runs"][w] <= tasksOf[w]
      <4>1. DOMAIN d["runs"] \subseteq RunsOf(k)'
        BY <3>4, <3>5
      <4>2. ASSUME k \notin cleared'[v], NEW w \in DOMAIN d["runs"]
            PROVE  d["runs"][w] \in Nat /\ d["runs"][w] <= tasksOf'[w]
        <5>1. d["runs"][w] \in Nat /\ d["runs"][w] <= tasksOf[w] /\ w \in RunsOf(k)
          BY <1>4, <3>4, <4>2 DEF TablesMove
        <5>2. tasksOf[w] <= tasksOf'[w]
          BY <1>4, <4>2, <5>1, RowsStay DEF ConsoleInv
        <5>3. tasksOf[w] \in Nat /\ tasksOf'[w] \in Nat
          BY <5>1 DEF RunsOf, Recorded, ConsoleInv, ConsoleTypeOK
        <5> QED BY <5>1, <5>2, <5>3
      <4> QED BY <1>1, <3>0, <3>4, <4>1, <4>2 DEF DetailInv, RunsOf, Recorded
    <3> QED BY <1>4, <3>1, <3>2, <3>3, <3>4 DEF DetailInv
  <2>2. ASSUME shown[v].view = "list" PROVE ListInv(v)'
    <3> DEFINE d == got[v]
    <3>1. ListInv(v)
      BY <2>2 DEF ConsoleInv, ShownInv
    <3>2. CASE left[v] = About(NoTalk, ListStatements)
      BY <1>1, <3>2 DEF ListInv
    <3>3. CASE /\ left[v] = About(NoTalk, AfterTotal)
               /\ d["total"] \in Nat /\ d["total"] <= Cardinality(SessionsAmong(K))
      <4>1. d["total"] <= Cardinality(SessionsAmong(K)')
        BY <1>2, <3>3
      <4> QED BY <1>0, <1>1, <3>3, <4>1 DEF ListInv, SessionsAmong
    <3>4. CASE /\ PageWhole(v)
               /\ \A i \in DOMAIN left[v] : left[v][i].read \in {"first", "last"}
               /\ PreviewsCome(v)
      <4>1. cleared[v] \subseteq cleared'[v]
        BY <1>4 DEF TablesMove
      <4>2. \A k \in DOMAIN d["rows"] \ cleared'[v] : d["rows"][k] => Speaking(k)' # {}
        <5> SUFFICES ASSUME NEW k \in DOMAIN d["rows"] \ cleared'[v], d["rows"][k] PROVE Speaking(k)' # {}
          OBVIOUS
        <5>1. Speaking(k) # {}
          BY <1>4, <3>4, <4>1 DEF PreviewsCome
        <5>2. Speaking(k) \subseteq Speaking(k)'
          BY <1>4, RowsStay DEF ConsoleInv
        <5> QED BY <5>1, <5>2
      <4>3. PreviewsCome(v)'
        <5> SUFFICES ASSUME NEW k \in DOMAIN d["rows"] \ cleared'[v], d["rows"][k]
                     PROVE  /\ Speaking(k)' # {}
                            /\ k \in d["first"] \/ Awaited(v, "first", k)
                            /\ k \in d["last"] \/ Awaited(v, "last", k)
          BY <1>1 DEF PreviewsCome, Awaited
        <5> QED BY <3>4, <4>1, <4>2 DEF PreviewsCome
      <4>4. PageWhole(v)'
        BY <1>1, <3>4 DEF PageWhole
      <4> QED BY <1>1, <3>4, <4>3, <4>4 DEF ListInv
    <3> QED BY <3>1, <3>2, <3>3, <3>4 DEF ListInv
  <2>3. ASSUME shown[v].view = "summary" PROVE SummaryInv(v)'
    <3>1. SummaryInv(v)
      BY <2>3 DEF ConsoleInv, ShownInv
    <3>2. /\ got[v]["sessions"] \in Nat /\ got[v]["sessions"] <= Cardinality(RunsAmong(K))
          => got[v]["sessions"] <= Cardinality(RunsAmong(K)')
      BY <1>2
    <3> QED BY <1>0, <1>1, <3>1, <3>2 DEF SummaryInv, RunsAmong
  <2> QED BY <1>1, <1>4, <2>1, <2>2, <2>3 DEF ShownInv, ConsoleInv
<1> QED BY <1>3, <1>4

-----------------------------------------------------------------------------
\* A viewer whose view a step does not touch.
LEMMA OthersStay ==
  ASSUME ConsoleInv, UNCHANGED tables, cleared' = cleared, NEW u \in Viewers,
         shown'[u] = shown[u], left'[u] = left[u], got'[u] = got[u]
  PROVE  ShownInv(u)'
<1>1. Recorded' = Recorded /\ OpenTalks' = OpenTalks /\ tasksOf' = tasksOf
  BY DEF tables, Recorded, OpenTalks
<1>2. PICK k : k = shown[u].talk
  OBVIOUS
<1>3. RunsOf(k)' = RunsOf(k)
  BY DEF RunsOf, Recorded, tables
<1>4. DetailInv(u) => DetailInv(u)'
  BY <1>1, <1>2, <1>3 DEF DetailInv, RunsOf
<1>5. ListInv(u) => ListInv(u)'
  <2>1. SessionsAmong(shown[u].among)' = SessionsAmong(shown[u].among)
    BY <1>1 DEF SessionsAmong
  <2>2. PreviewsCome(u)' <=> PreviewsCome(u)
    BY <1>1 DEF PreviewsCome, Awaited, Speaking, RunsOf, tables
  <2>3. PageWhole(u)' <=> PageWhole(u)
    BY DEF PageWhole
  <2> QED BY <2>1, <2>2, <2>3 DEF ListInv
<1>6. SummaryInv(u) => SummaryInv(u)'
  <2>1. RunsAmong(shown[u].among)' = RunsAmong(shown[u].among)
    BY <1>1 DEF RunsAmong, tables
  <2> QED BY <2>1 DEF SummaryInv
<1> QED BY <1>4, <1>5, <1>6 DEF ShownInv, ConsoleInv

\* A view starts with nothing read.
LEMMA ViewOpened ==
  ASSUME ConsoleInv, NEW v \in Viewers, Open(v)
  PROVE  ConsoleInv'
<1>1. /\ UNCHANGED tables /\ got' = got /\ cleared' = cleared
      /\ Recorded' = Recorded /\ OpenTalks' = OpenTalks
  BY DEF Open, tables, Recorded, OpenTalks
<1>2. CountsOK'
  BY <1>1 DEF ConsoleInv, CountsOK, SessionsAmong, RunsAmong, tables
<1>3. ASSUME NEW name \in ViewNames, NEW k \in Talks \cup {NoTalk}, NEW K \in SUBSET Talks, NEW o \in Nat,
             NEW reads \in Seq(ReadNames), Show(v, View(name, k, K, o), reads),
             (shown'[v].view = name /\ shown'[v].talk = k /\ left'[v] = About(k, reads)) => ShownInv(v)'
      PROVE  ConsoleInv'
  <2>1. About(k, reads) \in Seq(Statements)
    BY AboutType
  <2>0. /\ View(name, k, K, o) \in [view : ViewNames, talk : Talks \cup {NoTalk}, among : SUBSET Talks, offset : Nat]
        /\ View(name, k, K, o).view = name /\ View(name, k, K, o).talk = k
    BY DEF View
  <2>2. /\ left' \in [Viewers -> Seq(Statements)]
        /\ shown' \in [Viewers -> [view : ViewNames, talk : Talks \cup {NoTalk}, among : SUBSET Talks, offset : Nat]]
    BY <1>3, <2>0, <2>1 DEF Show, ConsoleInv, ConsoleTypeOK
  <2>3. ConsoleTypeOK'
    BY <1>1, <2>2 DEF ConsoleInv, ConsoleTypeOK, tables
  <2>4. /\ shown'[v].view = name /\ shown'[v].talk = k /\ left'[v] = About(k, reads)
        /\ \A u \in Viewers \ {v} : shown'[u] = shown[u] /\ left'[u] = left[u]
    BY <1>3, <2>0 DEF Show, ConsoleInv, ConsoleTypeOK
  <2>5. \A u \in Viewers \ {v} : ShownInv(u)'
    BY <1>1, <2>4, OthersStay
  <2>6. ShownInv(v)'
    BY <1>3, <2>4
  <2> QED BY <1>2, <2>3, <2>5, <2>6 DEF ConsoleInv
<1>4. CASE \E k \in OpenTalks : Show(v, View("detail", k, {}, 0), DetailStatements)
  <2>1. PICK k \in OpenTalks : Show(v, View("detail", k, {}, 0), DetailStatements)
    BY <1>4
  <2>2. k \in Talks \cup {NoTalk} /\ "detail" \in ViewNames /\ DetailStatements \in Seq(ReadNames)
    BY Order DEF Starts, OpenTalks, Recorded, ViewNames, ConsoleInv, ConsoleTypeOK
  <2>3. (shown'[v].view = "detail" /\ shown'[v].talk = k /\ left'[v] = About(k, DetailStatements)) => ShownInv(v)'
    BY DEF ShownInv, DetailInv
  <2> QED BY <1>3, <2>1, <2>2, <2>3
<1>5. ASSUME NEW K \in SUBSET Talks, NEW o \in Offsets, Show(v, View("list", NoTalk, K, o), ListStatements)
      PROVE  ConsoleInv'
  <2>1. "list" \in ViewNames /\ ListStatements \in Seq(ReadNames) /\ o \in Nat
    BY Order, ConsoleAssumption DEF Starts, ViewNames
  <2>2. (shown'[v].view = "list" /\ left'[v] = About(NoTalk, ListStatements)) => ShownInv(v)'
    BY DEF ShownInv, ListInv
  <2> QED BY <1>3, <1>5, <2>1, <2>2
<1>6. ASSUME NEW K \in SUBSET Talks, Show(v, View("summary", NoTalk, K, 0), SummaryStatements)
      PROVE  ConsoleInv'
  <2>1. "summary" \in ViewNames /\ SummaryStatements \in Seq(ReadNames)
    BY Order DEF Starts, ViewNames
  <2>2. (shown'[v].view = "summary" /\ left'[v] = About(NoTalk, SummaryStatements)) => ShownInv(v)'
    BY DEF ShownInv, SummaryInv
  <2> QED BY <1>3, <1>6, <2>1, <2>2
<1> QED BY <1>4, <1>5, <1>6 DEF Open

\* A read touches no table.
LEMMA ReadTypes ==
  ASSUME ConsoleInv, NEW v \in Viewers, ReadNext(v) \/ ReadRows(v)
  PROVE  /\ ConsoleTypeOK' /\ CountsOK'
         /\ UNCHANGED <<tables, shown, cleared>> /\ Recorded' = Recorded /\ OpenTalks' = OpenTalks
         /\ \A u \in Viewers \ {v} : ShownInv(u)'
<1>1. /\ UNCHANGED <<tables, shown, cleared>> /\ Recorded' = Recorded /\ OpenTalks' = OpenTalks
  BY DEF ReadNext, ReadRows, tables, Recorded, OpenTalks
<1>2. CountsOK'
  BY <1>1 DEF ConsoleInv, CountsOK, SessionsAmong, RunsAmong, tables
<1>4. \E rest \in Seq(Statements) : left' = [left EXCEPT ![v] = rest]
  <2>1. CASE ReadRows(v)
    <3>1. PICK page \in Pages(v) :
            \E p \in [1 .. 2 * Cardinality(page) -> [read : {"first", "last"}, talk : page]] :
              left' = [left EXCEPT ![v] = p]
      BY <2>1 DEF ReadRows
    <3>2. PICK p \in [1 .. 2 * Cardinality(page) -> [read : {"first", "last"}, talk : page]] :
            left' = [left EXCEPT ![v] = p]
      BY <3>1
    <3>3. page \subseteq OpenTalks /\ page \subseteq Talks \cup {NoTalk}
      BY DEF Pages, SessionsAmong, OpenTalks, Recorded, ConsoleInv, ConsoleTypeOK
    <3>4. 2 * Cardinality(page) \in Nat
      BY <3>3, FS_Subset, FS_CardinalityType DEF ConsoleInv, CountsOK
    <3>5. [read : {"first", "last"}, talk : page] \subseteq Statements
      BY <3>3 DEF Statements, ReadNames
    <3>6. p \in Seq(Statements)
      BY <3>4, <3>5, SeqDef
    <3> QED BY <3>2, <3>6
  <2>2. CASE ReadNext(v)
    <3>1. left' = [left EXCEPT ![v] = Tail(left[v])] /\ left[v] # <<>> /\ left[v] \in Seq(Statements)
      BY <2>2 DEF ReadNext, ConsoleInv, ConsoleTypeOK
    <3>2. Tail(left[v]) \in Seq(Statements)
      BY <3>1
    <3> QED BY <3>1, <3>2
  <2> QED BY <2>1, <2>2
<1>5. left' \in [Viewers -> Seq(Statements)] /\ \A u \in Viewers \ {v} : left'[u] = left[u]
  BY <1>4 DEF ConsoleInv, ConsoleTypeOK
<1>6. /\ DOMAIN got' = Viewers /\ \A u \in Viewers : got'[u] = [n \in ReadNames |-> got'[u][n]]
      /\ got' = [u \in Viewers |-> got'[u]]
      /\ \A u \in Viewers \ {v} : got'[u] = got[u]
  <2> DEFINE d == got[v]
  <2>1. PICK n, value : got' = [got EXCEPT ![v] = [d EXCEPT ![n] = value]]
    BY DEF ReadNext, ReadRows
  <2> QED BY <2>1 DEF ConsoleInv, ConsoleTypeOK
<1>7. ConsoleTypeOK'
  BY <1>1, <1>5, <1>6 DEF ConsoleInv, ConsoleTypeOK, tables
<1>8. \A u \in Viewers \ {v} : ShownInv(u)'
  BY <1>1, <1>5, <1>6, OthersStay
<1> QED BY <1>1, <1>2, <1>7, <1>8

\* The statement n about k sets what n returned, and only that; rest are still to come.
Reads(v, n, k, rest) ==
  /\ left'[v] = About(k, rest)
  /\ got'[v][n] = Result(v, n, k)
  /\ \A o \in ReadNames \ {n} : got'[v][o] = got[v][o]

\* A statement that returns one value.
LEMMA ReadOne ==
  ASSUME ConsoleTypeOK, NEW v \in Viewers, NEW k, NEW n \in ReadNames \ {"rows"},
         NEW reads, NEW rest, Starts(reads, n, rest),
         left[v] = About(k, reads), ReadNext(v)
  PROVE  Reads(v, n, k, rest)
<1>1. left'[v] = About(k, rest) /\ got'[v] = [got[v] EXCEPT ![n] = Result(v, n, k)]
  BY ReadEffect DEF Starts
<1>2. got[v] = [o \in ReadNames |-> got[v][o]]
  BY DEF ConsoleTypeOK
<1> QED BY <1>1, <1>2 DEF Reads

\* One statement more of the detail of a session.
LEMMA DetailRead ==
  ASSUME ConsoleInv, NEW v \in Viewers, shown[v].view = "detail", ReadNext(v)
  PROVE  ShownInv(v)'
<1> DEFINE d == got[v]
<1> PICK k : k = shown[v].talk
  OBVIOUS
<1>1. ConsoleTypeOK /\ left[v] # <<>> /\ DetailInv(v)
  BY DEF ConsoleInv, ShownInv, ReadNext
<1>2. k = shown'[v].talk /\ shown'[v].view = "detail"
  BY ReadTypes
<1>3. RunsOf(k)' = RunsOf(k) /\ tasksOf' = tasksOf /\ cleared' = cleared
  BY ReadTypes DEF RunsOf, tables
<1>4. Speaking(k) \subseteq RunsOf(k) /\ DOMAIN TasksOf(k) = RunsOf(k) /\ RunsOf(k) \subseteq Works
  BY DEF Speaking, TasksOf, RunsOf, Recorded
<1>5. CASE left[v] = About(k, DetailStatements)
  <2>1. Reads(v, "messages", k, AfterMessages)
    <3>1. /\ Starts(DetailStatements, "messages", AfterMessages)
          /\ "messages" \in ReadNames \ {"rows"}
      BY Order DEF ReadNames
    <3> QED BY <1>1, <1>5, <3>1, ReadOne
  <2>2. /\ left'[v] = About(k, AfterMessages)
        /\ got'[v]["messages"] = Speaking(k)
    BY <2>1, Results DEF Reads, ReadNames
  <2> QED BY <1>2, <1>3, <1>4, <2>2 DEF DetailInv, ShownInv, RunsOf
<1>6. CASE left[v] = About(k, AfterMessages) /\ d["messages"] \subseteq RunsOf(k)
  <2>1. Reads(v, "runs", k, AfterRuns)
    <3>1. /\ Starts(AfterMessages, "runs", AfterRuns)
          /\ "runs" \in ReadNames \ {"rows"}
      BY Order DEF ReadNames
    <3> QED BY <1>1, <1>6, <3>1, ReadOne
  <2>2. /\ left'[v] = About(k, AfterRuns)
        /\ got'[v]["runs"] = TasksOf(k) /\ got'[v]["messages"] = d["messages"]
    BY <2>1, Results DEF Reads, ReadNames
  <2>3. \A w \in RunsOf(k) : TasksOf(k)[w] = tasksOf[w] /\ tasksOf[w] \in Nat
    BY <1>1, <1>4 DEF TasksOf, ConsoleTypeOK
  <2> QED BY <1>2, <1>3, <1>4, <1>6, <2>2, <2>3 DEF DetailInv, ShownInv, RunsOf
<1>7. CASE /\ left[v] = About(k, AfterRuns)
           /\ d["messages"] \subseteq DOMAIN d["runs"] /\ DOMAIN d["runs"] \subseteq RunsOf(k)
           /\ k \in cleared[v] \/ \A w \in DOMAIN d["runs"] : d["runs"][w] \in Nat /\ d["runs"][w] <= tasksOf[w]
  <2>1. Reads(v, "tasks", k, <<>>)
    <3>1. /\ Starts(AfterRuns, "tasks", <<>>)
          /\ "tasks" \in ReadNames \ {"rows"}
      BY Order DEF ReadNames
    <3> QED BY <1>1, <1>7, <3>1, ReadOne
  <2>2. /\ left'[v] = About(k, <<>>)
        /\ got'[v]["tasks"] = TasksOf(k) /\ got'[v]["messages"] = d["messages"] /\ got'[v]["runs"] = d["runs"]
    BY <2>1, Results DEF Reads, ReadNames
  <2>3. \A w \in RunsOf(k) : TasksOf(k)[w] = tasksOf[w]
    BY DEF TasksOf
  <2>4. left'[v] = <<>>
    BY <2>2, ToRead
  <2> QED BY <1>2, <1>3, <1>4, <1>7, <2>2, <2>3, <2>4 DEF DetailInv, ShownInv
<1> QED BY <1>1, <1>5, <1>6, <1>7 DEF DetailInv

\* One statement more of the summary.
LEMMA SummaryRead ==
  ASSUME ConsoleInv, NEW v \in Viewers, shown[v].view = "summary", ReadNext(v)
  PROVE  ShownInv(v)'
<1> DEFINE d == got[v]
<1>1. ConsoleTypeOK /\ left[v] # <<>> /\ SummaryInv(v)
  BY DEF ConsoleInv, ShownInv, ReadNext
<1>2. shown'[v].view = "summary" /\ Recorded' = Recorded
  BY ReadTypes
<1> PICK K : K = shown[v].among
  OBVIOUS
<1>0. K = shown'[v].among /\ RunsAmong(K)' = RunsAmong(K)
  BY ReadTypes DEF RunsAmong, tables
<1>3. Cardinality(SessionsAmong(K)) \in Nat /\ Cardinality(SessionsAmong(K)) <= Cardinality(RunsAmong(K))
  <2>1. K \in SUBSET Talks
    BY <1>1 DEF ConsoleTypeOK
  <2> QED BY <2>1, AmongFinite DEF ConsoleInv, CountsOK
<1>4. CASE left[v] = About(NoTalk, SummaryStatements)
  <2>1. Reads(v, "sessions", NoTalk, AfterSessions)
    <3>1. /\ Starts(SummaryStatements, "sessions", AfterSessions)
          /\ "sessions" \in ReadNames \ {"rows"}
      BY Order DEF ReadNames
    <3> QED BY <1>1, <1>4, <3>1, ReadOne
  <2>2. /\ left'[v] = About(NoTalk, AfterSessions)
        /\ got'[v]["sessions"] = Cardinality(SessionsAmong(K))
    BY <2>1, Results DEF Reads, ReadNames
  <2>3. got'[v]["sessions"] <= Cardinality(RunsAmong(K)')
    BY <1>0, <1>3, <2>2
  <2> QED BY <1>0, <1>2, <1>3, <2>2, <2>3 DEF SummaryInv, ShownInv, RunsAmong
<1>5. CASE /\ left[v] = About(NoTalk, AfterSessions)
           /\ d["sessions"] \in Nat /\ d["sessions"] <= Cardinality(RunsAmong(K))
  <2>1. Reads(v, "runCount", NoTalk, <<>>)
    <3>1. /\ Starts(AfterSessions, "runCount", <<>>)
          /\ "runCount" \in ReadNames \ {"rows"}
      BY Order DEF ReadNames
    <3> QED BY <1>1, <1>5, <3>1, ReadOne
  <2>2. /\ left'[v] = About(NoTalk, <<>>)
        /\ got'[v]["sessions"] = d["sessions"] /\ got'[v]["runCount"] = Cardinality(RunsAmong(K))
    BY <2>1, Results DEF Reads, ReadNames
  <2>3. left'[v] = <<>>
    BY <2>2, ToRead
  <2> QED BY <1>2, <1>5, <2>2, <2>3 DEF SummaryInv, ShownInv
<1> QED BY <1>1, <1>4, <1>5, ToRead DEF SummaryInv

\* An element of a sequence is its first or one of the others.
LEMMA TailElements ==
  ASSUME NEW S, NEW s \in Seq(S), s # <<>>, NEW i \in DOMAIN s
  PROVE  s[i] = Head(s) \/ \E j \in DOMAIN Tail(s) : Tail(s)[j] = s[i]
<1>1. CASE i = 1
  BY <1>1
<1>2. CASE i # 1
  <2>1. i - 1 \in DOMAIN Tail(s) /\ Tail(s)[i - 1] = s[i]
    BY <1>2
  <2> QED BY <2>1
<1> QED BY <1>1, <1>2

\* The page of rows is read: each row's previews are to come.
LEMMA RowsRead ==
  ASSUME ConsoleInv, NEW v \in Viewers, shown[v].view = "list", ReadRows(v),
         left[v] = About(NoTalk, AfterTotal),
         got[v]["total"] \in Nat, got[v]["total"] <= Cardinality(SessionsAmong(shown[v].among))
  PROVE  ListInv(v)'
<1> DEFINE d == got[v]
           total == d["total"]
           o == shown[v].offset
           sessions == Cardinality(SessionsAmong(shown[v].among))
<1>1. ConsoleTypeOK /\ sessions \in Nat /\ o \in Nat
  <2>1. ConsoleTypeOK /\ sessions \in Nat
    BY AmongFinite DEF ConsoleInv
  <2> QED BY <2>1 DEF ConsoleTypeOK
<1>2. PICK page \in Pages(v) :
        /\ got' = [got EXCEPT ![v] = [d EXCEPT !["rows"] = [k \in page |-> Speaking(k) # {}]]]
        /\ \E p \in [1 .. 2 * Cardinality(page) -> [read : {"first", "last"}, talk : page]] :
             Previews(page, p) /\ left' = [left EXCEPT ![v] = p]
  BY DEF ReadRows
<1>3. /\ page \subseteq SessionsAmong(shown[v].among)
      /\ Cardinality(page) = RowCount(sessions, o)
  BY DEF Pages
<1>4. PICK rest \in [1 .. 2 * Cardinality(page) -> [read : {"first", "last"}, talk : page]] :
        Previews(page, rest) /\ left' = [left EXCEPT ![v] = rest]
  BY <1>2
<1>5. left'[v] = rest
  BY <1>1, <1>4 DEF ConsoleTypeOK
<1>6. got'[v]["rows"] = [k \in page |-> Speaking(k) # {}] /\ got'[v]["total"] = total
  <2>1. got'[v] = [d EXCEPT !["rows"] = [k \in page |-> Speaking(k) # {}]]
    BY <1>1, <1>2 DEF ConsoleTypeOK
  <2>2. d = [n \in ReadNames |-> d[n]]
    BY <1>1 DEF ConsoleTypeOK
  <2> HIDE DEF d
  <2> QED BY <2>1, <2>2 DEF ReadNames
<1>7. \A i \in DOMAIN rest : rest[i].read \in {"first", "last"}
  BY <1>4
<1>8. \A k \in page : /\ \E i \in DOMAIN rest : rest[i] = [read |-> "first", talk |-> k]
                     /\ \E i \in DOMAIN rest : rest[i] = [read |-> "last", talk |-> k]
  <2> SUFFICES ASSUME NEW k \in page
               PROVE  /\ \E i \in DOMAIN rest : rest[i] = [read |-> "first", talk |-> k]
                      /\ \E i \in DOMAIN rest : rest[i] = [read |-> "last", talk |-> k]
    OBVIOUS
  <2>1. PICK n \in 1 .. Cardinality(page) :
          rest[2 * n - 1] = [read |-> "first", talk |-> k] /\ rest[2 * n] = [read |-> "last", talk |-> k]
    BY <1>4 DEF Previews
  <2>2. Cardinality(page) \in Nat
    BY <1>1, <1>3, ConsoleAssumption DEF RowCount
  <2>3. 2 * n - 1 \in DOMAIN rest /\ 2 * n \in DOMAIN rest
    BY <1>4, <2>2
  <2> QED BY <2>1, <2>3
<1>9. \A k : Speaking(k)' = Speaking(k)
  BY ReadTypes DEF Speaking, RunsOf, tables
<1>10. PreviewsCome(v)'
  BY <1>5, <1>6, <1>8, <1>9 DEF PreviewsCome, Awaited
<1>11. PageWhole(v)'
  <2>1. RowCount(sessions, o) = PageSize \/ total <= o + RowCount(sessions, o)
    BY <1>1, ConsoleAssumption DEF RowCount
  <2>2. DOMAIN got'[v]["rows"] = page /\ shown'[v] = shown[v]
    BY <1>6, ReadTypes
  <2> QED BY <1>3, <1>6, <2>1, <2>2 DEF PageWhole
<1> QED BY <1>5, <1>7, <1>10, <1>11 DEF ListInv

\* One preview is read: its session still has a message if its row counted one.
LEMMA PreviewRead ==
  ASSUME ConsoleInv, NEW v \in Viewers, shown[v].view = "list", ReadNext(v),
         PageWhole(v),
         \A i \in DOMAIN left[v] : left[v][i].read \in {"first", "last"},
         PreviewsCome(v)
  PROVE  ListInv(v)'
<1> DEFINE d == got[v]
           s == Head(left[v])
<1>1. ConsoleTypeOK /\ left[v] # <<>> /\ left[v] \in Seq(Statements)
  BY DEF ConsoleInv, ConsoleTypeOK, ReadNext
<1>2. s \in Statements /\ s.read \in {"first", "last"}
  BY <1>1
<1>3. left'[v] = Tail(left[v])
  BY <1>1 DEF ReadNext, ConsoleTypeOK
<1>4. /\ got'[v][s.read] = d[s.read] \cup {t \in {s.talk} : Speaking(t) # {}}
      /\ \A o \in ReadNames \ {s.read} : got'[v][o] = d[o]
  <2>1. got' = [got EXCEPT ![v] = [d EXCEPT ![s.read] = Result(v, s.read, s.talk)]]
    BY DEF ReadNext
  <2>2. got'[v] = [d EXCEPT ![s.read] = Result(v, s.read, s.talk)]
    BY <1>1, <2>1 DEF ConsoleTypeOK
  <2>3. d = [o \in ReadNames |-> d[o]]
    BY <1>1 DEF ConsoleTypeOK
  <2>4. Result(v, s.read, s.talk) = d[s.read] \cup {t \in {s.talk} : Speaking(t) # {}}
    BY <1>2, Results
  <2> HIDE DEF d, s
  <2> QED BY <1>2, <2>2, <2>3, <2>4 DEF ReadNames
<1>5. got'[v]["rows"] = d["rows"] /\ got'[v]["total"] = d["total"] /\ cleared' = cleared
  BY <1>2, <1>4, ReadTypes DEF ReadNames
<1>6. \A k : Speaking(k)' = Speaking(k)
  BY ReadTypes DEF Speaking, RunsOf, tables
<1>7. \A i \in DOMAIN left'[v] : left'[v][i].read \in {"first", "last"}
  BY <1>1, <1>3
<1>8. ASSUME NEW k, Speaking(k) # {}, NEW n \in {"first", "last"}, k \in d[n] \/ Awaited(v, n, k)
      PROVE  k \in got'[v][n] \/ Awaited(v, n, k)'
  <2>1. d[n] \subseteq got'[v][n]
    BY <1>2, <1>4 DEF ReadNames
  <2>2. ASSUME NEW i \in DOMAIN left[v], left[v][i] = [read |-> n, talk |-> k]
        PROVE  k \in got'[v][n] \/ Awaited(v, n, k)'
    <3>1. CASE left[v][i] = s
      <4>1. s.read = n /\ s.talk = k
        BY <2>2, <3>1
      <4> QED BY <1>4, <1>8, <4>1
    <3>2. CASE \E j \in DOMAIN left'[v] : left'[v][j] = left[v][i]
      BY <2>2, <3>2 DEF Awaited
    <3> QED BY <1>1, <1>3, <3>1, <3>2, TailElements
  <2> QED BY <1>8, <2>1, <2>2 DEF Awaited
<1>9. PreviewsCome(v)'
  <2> SUFFICES ASSUME NEW k \in DOMAIN d["rows"] \ cleared[v], d["rows"][k]
               PROVE  /\ Speaking(k)' # {}
                      /\ k \in got'[v]["first"] \/ Awaited(v, "first", k)'
                      /\ k \in got'[v]["last"] \/ Awaited(v, "last", k)'
    BY <1>5 DEF PreviewsCome
  <2>1. /\ Speaking(k) # {}
        /\ k \in d["first"] \/ Awaited(v, "first", k)
        /\ k \in d["last"] \/ Awaited(v, "last", k)
    BY <1>1 DEF PreviewsCome
  <2> QED BY <1>6, <1>8, <2>1
<1>10. PageWhole(v)'
  BY <1>5, ReadTypes DEF PageWhole
<1> QED BY <1>7, <1>9, <1>10 DEF ListInv

\* One statement more of the list of sessions.
LEMMA ListRead ==
  ASSUME ConsoleInv, NEW v \in Viewers, shown[v].view = "list", ReadNext(v) \/ ReadRows(v)
  PROVE  ShownInv(v)'
<1>1. ConsoleTypeOK /\ ListInv(v) /\ shown'[v] = shown[v] /\ OpenTalks' = OpenTalks
  BY ReadTypes DEF ConsoleInv, ShownInv
<1>2. CASE left[v] = About(NoTalk, ListStatements)
  <2>1. ReadNext(v)
    <3>1. Head(left[v]).read = "total"
      BY <1>2, Order, AboutTail DEF Starts
    <3> QED BY <3>1 DEF ReadRows
  <2>2. Reads(v, "total", NoTalk, AfterTotal)
    <3>1. /\ Starts(ListStatements, "total", AfterTotal)
          /\ "total" \in ReadNames \ {"rows"}
      BY Order DEF ReadNames
    <3> QED BY <1>1, <1>2, <2>1, <3>1, ReadOne
  <2> PICK K : K = shown[v].among
    OBVIOUS
  <2>3. /\ left'[v] = About(NoTalk, AfterTotal)
        /\ got'[v]["total"] = Cardinality(SessionsAmong(K))
    BY <2>2, Results DEF Reads, ReadNames
  <2>4. Cardinality(SessionsAmong(K)) \in Nat /\ SessionsAmong(K)' = SessionsAmong(K) /\ K = shown'[v].among
    BY <1>1, AmongFinite DEF ConsoleInv, SessionsAmong
  <2>5. got'[v]["total"] \in Nat /\ got'[v]["total"] <= Cardinality(SessionsAmong(K)')
    BY <2>3, <2>4
  <2> QED BY <1>1, <2>3, <2>4, <2>5 DEF ListInv, ShownInv, SessionsAmong
<1>3. CASE /\ left[v] = About(NoTalk, AfterTotal)
           /\ got[v]["total"] \in Nat /\ got[v]["total"] <= Cardinality(SessionsAmong(shown[v].among))
  <2>1. ReadRows(v)
    <3>1. Head(left[v]).read = "rows"
      BY <1>3, Order, AboutTail DEF Starts
    <3> QED BY <3>1 DEF ReadNext
  <2> QED BY <1>1, <1>3, <2>1, RowsRead DEF ShownInv
<1>4. CASE /\ PageWhole(v)
           /\ \A i \in DOMAIN left[v] : left[v][i].read \in {"first", "last"}
           /\ PreviewsCome(v)
  <2>1. ReadNext(v)
    <3>1. left[v] # <<>> /\ left[v] \in Seq(Statements)
      BY <1>1 DEF ReadNext, ReadRows, ConsoleTypeOK
    <3>2. Head(left[v]).read \in {"first", "last"}
      BY <1>4, <3>1
    <3> QED BY <3>2 DEF ReadRows
  <2> QED BY <1>1, <1>4, <2>1, PreviewRead DEF ShownInv
<1> QED BY <1>1, <1>2, <1>3, <1>4 DEF ListInv

-----------------------------------------------------------------------------
\* Only the list reads rows.
LEMMA RowsOfLists ==
  ASSUME ConsoleInv, NEW v \in Viewers, ReadRows(v)
  PROVE  shown[v].view \notin {"detail", "summary"}
<1>1. \A n \in {"messages", "runs", "tasks", "sessions", "runCount"} : n # "rows"
  OBVIOUS
<1>2. left[v] # <<>> /\ Head(left[v]).read = "rows"
  BY DEF ReadRows
<1>3. ASSUME NEW k, NEW n \in {"messages", "runs", "tasks", "sessions", "runCount"}, NEW reads, NEW rest,
             Starts(reads, n, rest)
      PROVE  left[v] # About(k, reads)
  BY <1>1, <1>2, <1>3, AboutTail DEF Starts
<1>4. shown[v].view # "detail"
  <2> PICK k : k = shown[v].talk
    OBVIOUS
  <2>1. /\ left[v] # About(k, DetailStatements) /\ left[v] # About(k, AfterMessages)
        /\ left[v] # About(k, AfterRuns)
    BY <1>3, Order
  <2> QED BY <1>2, <2>1 DEF ConsoleInv, ShownInv, DetailInv
<1>5. shown[v].view # "summary"
  <2>1. left[v] # About(NoTalk, SummaryStatements) /\ left[v] # About(NoTalk, AfterSessions)
    BY <1>3, Order
  <2> QED BY <1>2, <2>1 DEF ConsoleInv, ShownInv, SummaryInv
<1> QED BY <1>4, <1>5

\* Every step of the writers and the viewers keeps the invariant.
LEMMA ConsoleStep ==
  ASSUME ConsoleInv, [ConsoleNext]_consoleVars
  PROVE  ConsoleInv'
<1>1. ASSUME NEW v \in Viewers, ReadNext(v) \/ ReadRows(v) PROVE ConsoleInv'
  <2>1. shown[v].view \in ViewNames /\ (shown[v].view = "none" => left[v] = <<>>) /\ left[v] # <<>>
    BY <1>1 DEF ConsoleInv, ConsoleTypeOK, ShownInv, ReadNext, ReadRows
  <2>3. shown[v].view # "list" => ReadNext(v)
    <3>1. ASSUME ReadRows(v), shown[v].view \in {"detail", "summary"} PROVE FALSE
      BY <3>1, RowsOfLists
    <3> QED BY <1>1, <2>1, <3>1 DEF ViewNames
  <2>2. ShownInv(v)'
    BY <1>1, <2>1, <2>3, DetailRead, ListRead, SummaryRead DEF ViewNames
  <2> QED BY <1>1, <2>2, ReadTypes DEF ConsoleInv
<1>2. ASSUME UNCHANGED consoleVars PROVE ConsoleInv'
  <2>1. /\ UNCHANGED tables /\ shown' = shown /\ left' = left /\ got' = got /\ cleared' = cleared
        /\ Recorded' = Recorded /\ OpenTalks' = OpenTalks
    BY <1>2 DEF consoleVars, tables, views, Recorded, OpenTalks
  <2>2. ConsoleTypeOK' /\ CountsOK'
    BY <2>1 DEF ConsoleInv, ConsoleTypeOK, CountsOK, SessionsAmong, RunsAmong, tables
  <2> QED BY <2>1, <2>2, OthersStay DEF ConsoleInv
<1>3. ASSUME \/ \E w \in Works : RecordTask(w) \/ RecordMessage(w) \/ \E k \in Talks : RecordRun(w, k)
             \/ ClearHistory(Talks) \/ \E k \in Talks : ClearHistory({k})
      PROVE  ConsoleInv'
  BY <1>3, WritersMove, ViewsStay DEF ConsoleInv
<1> QED BY <1>1, <1>2, <1>3, ViewOpened DEF ConsoleNext

\* A view of the backoffice agrees with itself, for any sessions, runs and viewers, any
\* page of the list, and any writes between its statements (get_session_details,
\* get_sessions_summary, get_summary_stats).
THEOREM ViewsConsistent == ConsoleSpec => []ViewsAgree
<1>1. ConsoleInit => ConsoleInv
  <2> SUFFICES ASSUME ConsoleInit PROVE ConsoleInv
    OBVIOUS
  <2>1. Recorded = {} /\ OpenTalks = {}
    BY DEF ConsoleInit, Recorded, OpenTalks
  <2>2. CountsOK
    <3>1. \A K : SessionsAmong(K) = {} /\ RunsAmong(K) = {}
      BY <2>1 DEF SessionsAmong, RunsAmong
    <3> QED BY <2>1, <3>1, FS_EmptySet DEF CountsOK
  <2>3. ConsoleTypeOK
    BY DEF ConsoleInit, ConsoleTypeOK, ViewNames, View
  <2>4. \A v \in Viewers : shown[v].view = "none" /\ left[v] = <<>>
    BY DEF ConsoleInit, View
  <2> QED BY <2>2, <2>3, <2>4 DEF ConsoleInv, ShownInv
<1>2. ConsoleInv => ViewsAgree
  <2> SUFFICES ASSUME ConsoleInv, NEW v \in Viewers, left[v] = <<>>
               PROVE  LET d == got[v]
                      IN  CASE shown[v].view = "none" -> TRUE
                            [] shown[v].view = "detail" ->
                                 /\ d["messages"] \subseteq DOMAIN d["runs"]
                                 /\ DOMAIN d["runs"] \subseteq DOMAIN d["tasks"]
                                 /\ shown[v].talk \notin cleared[v] =>
                                      \A w \in DOMAIN d["runs"] : d["runs"][w] <= d["tasks"][w]
                            [] shown[v].view = "list" ->
                                 /\ \/ Cardinality(DOMAIN d["rows"]) = PageSize
                                    \/ d["total"] <= shown[v].offset + Cardinality(DOMAIN d["rows"])
                                 /\ \A k \in DOMAIN d["rows"] \ cleared[v] :
                                      d["rows"][k] => k \in d["first"] \cap d["last"]
                            [] shown[v].view = "summary" -> d["sessions"] <= d["runCount"]
    BY DEF ViewsAgree
  <2>1. shown[v].view \in ViewNames
    BY DEF ConsoleInv, ConsoleTypeOK
  <2>2. CASE shown[v].view = "detail"
    BY <2>2, ToRead DEF ConsoleInv, ShownInv, DetailInv
  <2>3. CASE shown[v].view = "list"
    <3>1. PageWhole(v) /\ PreviewsCome(v)
      BY <2>3, ToRead DEF ConsoleInv, ShownInv, ListInv
    <3> QED BY <2>3, <3>1 DEF PageWhole, PreviewsCome, Awaited
  <2>4. CASE shown[v].view = "summary"
    BY <2>4, ToRead DEF ConsoleInv, ShownInv, SummaryInv
  <2> QED BY <2>1, <2>2, <2>3, <2>4 DEF ViewNames
<1> QED BY <1>1, <1>2, ConsoleStep, PTL DEF ConsoleSpec
=============================================================================
