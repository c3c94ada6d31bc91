------------------------------ MODULE Accounts ------------------------------
(* Registration and login of the user and the admin API, against the users
   and org_members tables.  Each statement is a step of its own, so two
   registrations of one address race, and a membership changes between the
   two lookups of a login.

   Not covered: the password hash, the signature and the expiry of a token
   (module Access has what the gateway does with a token). *)
EXTENDS Naturals, FiniteSets

CONSTANTS Emails,     \* addresses; a user is named by the address
          Companies,  \* organisations
          RoleNames,  \* the values of org_members.role
          Sessions    \* requests in progress

VARIABLES users,      \* email -> "none", "active" or "disabled"
          members,    \* <<user, org>> -> role, "none" when not an active member
          granted,    \* every <<user, org, role>> that was ever in members
          auth        \* session -> [at, user, org, role, answer]

accountVars == <<users, members, granted, auth>>

NoAuth == [at |-> "idle", user |-> "-", org |-> "-", role |-> "-", answer |-> 0]
AccountsInit ==
    /\ users = [e \in Emails |-> "none"]
    /\ members = [m \in Emails \X Companies |-> "none"]
    /\ granted = {}
    /\ auth = [s \in Sessions |-> NoAuth]

Reply(s, code) == auth' = [auth EXCEPT ![s].at = "done", ![s].answer = code]

(* register: the address is looked up, then inserted; the unique index of
   users.email refuses the second of two inserts, as an unexpected error.  A
   ConflictError has no handler of its own and is answered as a DiyuError. *)
CheckDuplicate(s, e) ==
    /\ auth[s].at = "idle"
    /\ auth' = [auth EXCEPT ![s] = [NoAuth EXCEPT !.user = e,
                  !.at = IF users[e] = "none" THEN "insert" ELSE "done",
                  !.answer = IF users[e] = "none" THEN 0 ELSE 500]]
    /\ UNCHANGED <<users, members, granted>>

InsertUser(s) ==
    /\ auth[s].at = "insert"
    /\ IF users[auth[s].user] = "none"
       THEN /\ users' = [users EXCEPT ![auth[s].user] = "active"]
            /\ auth' = [auth EXCEPT ![s].at = "done", ![s].answer = 201,
                                    ![s].org = auth[s].user, ![s].role = "member"]
       ELSE Reply(s, 503) /\ UNCHANGED users
    /\ UNCHANGED <<members, granted>>

(* login: the user must exist, match and be enabled; then the first
   organisation with an active membership, the user's own id without one. *)
FindUser(s, e) ==
    /\ auth[s].at = "idle"
    /\ \E matches \in BOOLEAN :
         auth' = [auth EXCEPT ![s] =
           IF users[e] = "active" /\ matches
           THEN [NoAuth EXCEPT !.at = "org", !.user = e]
           ELSE [NoAuth EXCEPT !.at = "done", !.user = e, !.answer = 401]]
    /\ UNCHANGED <<users, members, granted>>

OrgsOf(u) == {o \in Companies : members[<<u, o>>] # "none"}
FirstOrg(s) ==
    /\ auth[s].at = "org"
    /\ \E o \in IF OrgsOf(auth[s].user) = {} THEN {auth[s].user} ELSE OrgsOf(auth[s].user) :
         auth' = [auth EXCEPT ![s].at = "role", ![s].org = o]
    /\ UNCHANGED <<users, members, granted>>

(* _get_first_org_role: "member" when there is no active membership, also
   when it ended since the organisation was read. *)
RoleIn(u, o) ==
    IF o \in Companies /\ members[<<u, o>>] # "none" THEN members[<<u, o>>] ELSE "member"
OrgRole(s) ==
    /\ auth[s].at = "role"
    /\ auth' = [auth EXCEPT ![s].at = "done", ![s].answer = 200,
                            ![s].role = RoleIn(auth[s].user, auth[s].org)]
    /\ UNCHANGED <<users, members, granted>>

(* Any statement may fail: the request is answered as unavailable. *)
DatabaseFails(s) ==
    /\ auth[s].at \in {"insert", "org", "role"}
    /\ Reply(s, 503)
    /\ UNCHANGED <<users, members, granted>>

EndAuth(s) ==
    /\ auth[s].at = "done"
    /\ auth' = [auth EXCEPT ![s] = NoAuth]
    /\ UNCHANGED <<users, members, granted>>

(* The administrator of the database. *)
SetMembership(u, o, role) ==
    /\ users[u] # "none"
    /\ members' = [members EXCEPT ![<<u, o>>] = role]
    /\ granted' = IF role = "none" THEN granted ELSE granted \union {<<u, o, role>>}
    /\ UNCHANGED <<users, auth>>

SetEnabled(u) ==
    /\ users[u] # "none"
    /\ users' = [users EXCEPT ![u] = IF @ = "active" THEN "disabled" ELSE "active"]
    /\ UNCHANGED <<members, granted, auth>>

AccountsNext ==
    \/ \E s \in Sessions :
         \/ \E e \in Emails : CheckDuplicate(s, e) \/ FindUser(s, e)
         \/ InsertUser(s)
         \/ FirstOrg(s)
         \/ OrgRole(s)
         \/ DatabaseFails(s)
         \/ EndAuth(s)
    \/ \E u \in Emails : SetEnabled(u)
                         \/ \E o \in Companies, r \in RoleNames \union {"none"} : SetMembership(u, o, r)

-----------------------------------------------------------------------------
AccountsTypeOK ==
    /\ users \in [Emails -> {"none", "active", "disabled"}]
    /\ members \in [Emails \X Companies -> RoleNames \union {"none"}]
    /\ \A s \in Sessions : /\ auth[s].at \in {"idle", "insert", "org", "role", "done"}
                           /\ auth[s].answer \in {0, 200, 201, 401, 500, 503}

(* A token names a role its user was given in the token's organisation at some
   time, or the lowest one; the organisation is one the user was a member of,
   or the user's own placeholder; and only a registered user has a token. *)
TokensAreEarned ==
    \A s \in Sessions : auth[s].answer \in {200, 201} =>
        /\ users[auth[s].user] # "none"
        /\ \/ auth[s].role = "member"
           \/ <<auth[s].user, auth[s].org, auth[s].role>> \in granted
        /\ \/ auth[s].org = auth[s].user
           \/ \E r \in RoleNames : <<auth[s].user, auth[s].org, r>> \in granted
=============================================================================
