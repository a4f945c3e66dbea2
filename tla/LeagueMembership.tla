--------------------------- MODULE LeagueMembership ---------------------------
(***************************************************************************)
(* The single league, its members and its invites: the writing routes of   *)
(* backend/app/api/league.py over league_service.py.                       *)
(*                                                                         *)
(* A request is two steps: it reads what its checks need, and later writes *)
(* and commits in one transaction.  Checks that follow each other with no  *)
(* write in between are one read.  Between the two anything may be         *)
(* committed: roles, memberships and invites are read without a lock, but  *)
(* for the invite of a join, which is read FOR UPDATE.  SQLAlchemy writes  *)
(* and deletes a membership by its row id, so a member who left and joined *)
(* again is another row.  Display names are left out.                      *)
(***************************************************************************)
EXTENDS Naturals, FiniteSets

CONSTANTS
  Users,      \* those with an account
  Tokens,     \* invites that may be created
  Slots,      \* requests that overlap
  NoLeague    \* the value of league before it is created

ASSUME MembershipAssumption == NoLeague \notin Users

VARIABLES
  league,     \* owner_id of the active league
  role,       \* per user: the role of its membership row, "none" without one
  row,        \* per user: how many membership rows it has had, the row's id
  seasonRows, \* users with a season result
  invite,     \* per token: its address and state
  req,        \* per slot: the request and what it has read
  admitted    \* history: per token, how often it has admitted somebody

membershipVars == <<league, role, row, seasonRows, invite, req, admitted>>

Roles == {"owner", "member"}
Unsent == [to |-> NoLeague, state |-> "unsent"]
Invites == [to : Users \cup {NoLeague}, state : {"unsent", "open", "accepted", "expired"}]

Idle == [kind |-> "idle", by |-> NoLeague]
Reads ==
  {Idle}
    \cup [kind : {"create", "code"}, by : Users]
    \cup [kind : {"invite"}, by : Users, to : Users]
    \cup [kind : {"join"}, by : Users, token : Tokens]
    \cup [kind : {"remove"}, by : Users, target : Users, row : Nat]
    \cup [kind : {"update"}, by : Users, target : Users, row : Nat, was : Roles, to : Roles]

MembershipTypeOK ==
  /\ league \in Users \cup {NoLeague}
  /\ role \in [Users -> Roles \cup {"none"}] /\ row \in [Users -> Nat]
  /\ seasonRows \subseteq Users
  /\ invite \in [Tokens -> Invites]
  /\ req \in [Slots -> Reads]
  /\ admitted \in [Tokens -> Nat]
  \* without a league nobody is a member
  /\ league = NoLeague => \A u \in Users : role[u] = "none"
  /\ \A k \in Tokens : admitted[k] = 0 => invite[k].state # "accepted"

MembershipInit ==
  /\ league = NoLeague
  /\ role = [u \in Users |-> "none"] /\ row = [u \in Users |-> 0]
  /\ seasonRows = {}
  /\ invite = [k \in Tokens |-> Unsent]
  /\ req = [s \in Slots |-> Idle]
  /\ admitted = [k \in Tokens |-> 0]

(***************************************************************************)
(* The checks.                                                             *)
(***************************************************************************)
IsCommissioner(u) == role[u] = "owner"
IsMember(u) == role[u] # "none"

\* Broken variant: the invite is read without FOR UPDATE.
InviteFree_Unlocked(k) == TRUE

\* No open transaction holds the invite's row.
InviteFree(k) == ~\E s \in Slots : req[s].kind = "join" /\ req[s].token = k

\* Broken variant: any commissioner but the caller may be demoted.
MayUpdate_Anyone(u, target, to) == to = "owner" \/ u # target

\* The primary commissioner is not demoted.
MayUpdate(u, target, to) == target = league => to = "owner"

Open(s, read) ==
  /\ req[s] = Idle
  /\ req' = [req EXCEPT ![s] = read]
  /\ UNCHANGED <<league, role, row, seasonRows, invite, admitted>>

BeginCreate(s, u) == league = NoLeague /\ Open(s, [kind |-> "create", by |-> u])

\* Bound: invites under way find a token.
TokensLeft ==
  Cardinality({k \in Tokens : invite[k] = Unsent})
    > Cardinality({s \in Slots : req[s].kind = "invite"})

BeginInvite(s, u, to) ==
  /\ IsCommissioner(u) /\ TokensLeft
  /\ Open(s, [kind |-> "invite", by |-> u, to |-> to])

\* join_league: bound to the address, single-use, expiry-checked.
BeginJoin(s, u, k) ==
  /\ InviteFree(k)
  /\ invite[k] = [to |-> u, state |-> "open"] /\ ~IsMember(u)
  /\ Open(s, [kind |-> "join", by |-> u, token |-> k])

BeginCode(s, u) ==
  league # NoLeague /\ ~IsMember(u) /\ Open(s, [kind |-> "code", by |-> u])

BeginRemove(s, u, target) ==
  /\ IsCommissioner(u) /\ target # league /\ IsMember(target)
  /\ Open(s, [kind |-> "remove", by |-> u, target |-> target, row |-> row[target]])

BeginUpdate(s, u, target, to) ==
  /\ IsCommissioner(u) /\ IsMember(target) /\ MayUpdate(u, target, to)
  /\ Open(s, [kind |-> "update", by |-> u, target |-> target, row |-> row[target],
              was |-> role[target], to |-> to])

\* The checks of a request, which a refused request leaves with nothing changed.
Begin(s, u) ==
  \/ BeginCreate(s, u) \/ BeginCode(s, u)
  \/ \E to \in Users : BeginInvite(s, u, to)
  \/ \E k \in Tokens : BeginJoin(s, u, k)
  \/ \E target \in Users : BeginRemove(s, u, target)
  \/ \E target \in Users, to \in Roles : BeginUpdate(s, u, target, to)

(***************************************************************************)
(* The writes.                                                             *)
(***************************************************************************)
Close(s) == req' = [req EXCEPT ![s] = Idle]

\* Inserts the membership and, if it is missing, the season result.
Enter(u, as) ==
  /\ role' = [role EXCEPT ![u] = as] /\ row' = [row EXCEPT ![u] = @ + 1]
  /\ seasonRows' = seasonRows \cup {u}

\* The rows another request inserted first make a unique index refuse these:
\* the transaction is rolled back.
Conflict(s) ==
  /\ \/ req[s].kind = "create" /\ league # NoLeague
     \/ req[s].kind \in {"join", "code"} /\ IsMember(req[s].by)
  /\ Close(s)
  /\ UNCHANGED <<league, role, row, seasonRows, invite, admitted>>

\* uq_leagues_one_active lets one league in.
CommitCreate(s) ==
  /\ req[s].kind = "create" /\ league = NoLeague
  /\ league' = req[s].by
  /\ Enter(req[s].by, "owner") /\ Close(s)
  /\ UNCHANGED <<invite, admitted>>

\* The invite is committed before its e-mail is sent.
CommitInvite(s) ==
  /\ req[s].kind = "invite"
  /\ \E k \in {x \in Tokens : invite[x] = Unsent} :
       invite' = [invite EXCEPT ![k] = [to |-> req[s].to, state |-> "open"]]
  /\ Close(s)
  /\ UNCHANGED <<league, role, row, seasonRows, admitted>>

CommitJoin(s) ==
  LET k == req[s].token IN
  /\ req[s].kind = "join" /\ ~IsMember(req[s].by)
  /\ Enter(req[s].by, "member") /\ Close(s)
  /\ invite' = [invite EXCEPT ![k].state = "accepted"]
  /\ admitted' = [admitted EXCEPT ![k] = @ + 1]
  /\ UNCHANGED league

CommitCode(s) ==
  /\ req[s].kind = "code" /\ ~IsMember(req[s].by)
  /\ Enter(req[s].by, "member") /\ Close(s)
  /\ UNCHANGED <<league, invite, admitted>>

\* The row a request read is still there.
SameRow(s) == IsMember(req[s].target) /\ row[req[s].target] = req[s].row

\* A row that is gone is not missed.  The season result stays.
CommitRemove(s) ==
  /\ req[s].kind = "remove"
  /\ role' = IF SameRow(s) THEN [role EXCEPT ![req[s].target] = "none"] ELSE role
  /\ Close(s)
  /\ UNCHANGED <<league, row, seasonRows, invite, admitted>>

\* No UPDATE is sent for the role that was read; a row that is gone is an error.
CommitUpdate(s) ==
  /\ req[s].kind = "update"
  /\ role' = IF SameRow(s) /\ req[s].to # req[s].was
             THEN [role EXCEPT ![req[s].target] = req[s].to] ELSE role
  /\ Close(s)
  /\ UNCHANGED <<league, row, seasonRows, invite, admitted>>

Commit(s) ==
  CommitCreate(s) \/ CommitInvite(s) \/ CommitJoin(s) \/ CommitCode(s)
    \/ CommitRemove(s) \/ CommitUpdate(s)

\* Seven days pass.  A join that has checked the date goes through.
InviteExpires(k) ==
  /\ invite[k].state = "open" /\ InviteFree(k)
  /\ invite' = [invite EXCEPT ![k].state = "expired"]
  /\ UNCHANGED <<league, role, row, seasonRows, req, admitted>>

(***************************************************************************)
(* Properties.                                                             *)
(***************************************************************************)

\* Whatever commissioners do to each other at once, the league keeps its
\* primary commissioner, and scoring finds the season result of every member
\* (league_service.py:199-244; scoring_service.py:93-110 would insert it).
LeagueStaysInHand ==
  /\ league # NoLeague => IsCommissioner(league)
  /\ \A u \in Users : IsMember(u) => u \in seasonRows

\* docs/api-specification.md:284: an invite is single-use.  A member who is
\* removed while a second request with the same invite is under way does not
\* come back by it (league_service.py:127-173).
InviteAdmitsOnce == \A k \in Tokens : admitted[k] <= 1
===============================================================================
