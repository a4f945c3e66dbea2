------------------------- MODULE AdministrationProofs -------------------------
(***************************************************************************)
(* The administrative side, for any number of users, invites, overlapping  *)
(* requests, processes and connections.                                    *)
(*                                                                         *)
(* The league: it stays in hand and an invite admits once.  A request      *)
(* writes what it has checked before, so the invariant says what the       *)
(* checks of the requests under way still guarantee.                       *)
(*                                                                         *)
(* The job: the advisory lock keeps its runs apart, wherever the           *)
(* statements of a run go.  A run may lose track of the connection that    *)
(* holds its lock, but that connection stays one of its process.           *)
(***************************************************************************)
EXTENDS Administration, SequenceTheorems, FiniteSetTheorems, TLAPS

(***************************************************************************)
(* The league: what the requests rely on.                                  *)
(***************************************************************************)

\* What the writes rely on of the shapes of the state.
Shape ==
  /\ league \in Users \cup {NoLeague}
  /\ DOMAIN role = Users /\ DOMAIN req = Slots
  /\ DOMAIN invite = Tokens
  /\ admitted \in [Tokens -> Nat]
  /\ \A s \in Slots : req[s].kind \in {"create", "join", "code"} => req[s].by \in Users

\* Nothing is there before the league is.
NothingBefore ==
  league = NoLeague =>
    /\ \A u \in Users : role[u] = "none"
    /\ \A k \in Tokens : invite[k] = Unsent
    /\ \A s \in Slots : req[s].kind \in {"idle", "create"}

\* The checks of requests that may touch the primary commissioner stay true.
PrimarySpared ==
  \A s \in Slots :
    /\ req[s].kind = "remove" => req[s].target # league
    /\ req[s].kind = "update" /\ req[s].target = league => req[s].to = "owner"

\* A join holds the lock on an open invite.
JoinHoldsInvite ==
  \A s \in Slots : req[s].kind = "join" =>
    /\ req[s].token \in Tokens
    /\ invite[req[s].token].state = "open"
    /\ \A t \in Slots : req[t].kind = "join" /\ req[t].token = req[s].token => t = s

\* An invite has admitted nobody until it is accepted, and then one.
Admissions ==
  \A k \in Tokens : /\ admitted[k] <= 1
                    /\ invite[k].state # "accepted" => admitted[k] = 0

LeagueInv ==
  /\ Shape /\ NothingBefore /\ PrimarySpared /\ JoinHoldsInvite /\ Admissions
  /\ LeagueStaysInHand

LEMMA LeagueStart == MembershipInit => LeagueInv
BY DEF MembershipInit, LeagueInv, Shape, NothingBefore, PrimarySpared, JoinHoldsInvite,
       Admissions, LeagueStaysInHand, Idle, Unsent, IsMember, IsCommissioner

(***************************************************************************)
(* The steps of the league.                                                *)
(***************************************************************************)

LEMMA BeginPreserves ==
  ASSUME LeagueInv, NEW s \in Slots, NEW u \in Users, Begin(s, u)
  PROVE  LeagueInv'
<1> USE DEF LeagueInv, Open
<1>a. UNCHANGED <<league, role, row, seasonRows, invite, admitted>>
  BY DEF Begin, BeginCreate, BeginCode, BeginInvite, BeginJoin, BeginRemove, BeginUpdate
<1>b. LeagueStaysInHand' /\ Admissions'
  BY <1>a DEF LeagueStaysInHand, Admissions, IsMember, IsCommissioner
<1>m. ASSUME NEW v \in Users, IsMember(v) PROVE league # NoLeague
  BY <1>m DEF NothingBefore, IsMember
<1>1. CASE BeginCreate(s, u)
  BY <1>1, <1>a, <1>b DEF BeginCreate, Shape, NothingBefore, PrimarySpared, JoinHoldsInvite
<1>2. CASE BeginCode(s, u)
  BY <1>2, <1>a, <1>b DEF BeginCode, Shape, NothingBefore, PrimarySpared, JoinHoldsInvite
<1>3. CASE \E to \in Users : BeginInvite(s, u, to)
  <2>1. league # NoLeague
    BY <1>3, <1>m DEF BeginInvite, IsCommissioner, IsMember
  <2> QED BY <1>3, <2>1, <1>a, <1>b
          DEF BeginInvite, Shape, NothingBefore, PrimarySpared, JoinHoldsInvite
<1>4. CASE \E k \in Tokens : BeginJoin(s, u, k)
  <2>1. PICK k \in Tokens : BeginJoin(s, u, k)
    BY <1>4
  <2>2. league # NoLeague
    BY <2>1 DEF BeginJoin, NothingBefore, Unsent
  <2>3. req' = [req EXCEPT ![s] = [kind |-> "join", by |-> u, token |-> k]]
    BY <2>1 DEF BeginJoin
  <2>4. invite[k].state = "open"
    BY <2>1 DEF BeginJoin
  <2>5. \A t \in Slots : ~(req[t].kind = "join" /\ req[t].token = k)
    BY <2>1 DEF BeginJoin, InviteFree
  <2>6. Shape' /\ NothingBefore' /\ PrimarySpared'
    BY <2>2, <2>3, <1>a DEF Shape, NothingBefore, PrimarySpared
  <2>7. JoinHoldsInvite'
    BY <2>3, <2>4, <2>5, <1>a DEF JoinHoldsInvite, Shape
  <2> QED BY <2>6, <2>7, <1>b
<1>5. CASE \E target \in Users : BeginRemove(s, u, target)
  <2>1. league # NoLeague
    BY <1>5, <1>m DEF BeginRemove
  <2> QED BY <1>5, <2>1, <1>a, <1>b
          DEF BeginRemove, Shape, NothingBefore, PrimarySpared, JoinHoldsInvite
<1>6. CASE \E target \in Users, to \in Roles : BeginUpdate(s, u, target, to)
  <2>1. league # NoLeague
    BY <1>6, <1>m DEF BeginUpdate
  <2> QED BY <1>6, <2>1, <1>a, <1>b
          DEF BeginUpdate, MayUpdate, Shape, NothingBefore, PrimarySpared, JoinHoldsInvite
<1> QED BY <1>1, <1>2, <1>3, <1>4, <1>5, <1>6 DEF Begin

\* A request that ends takes its read with it and leaves the others theirs.
LEMMA CloseLeaves ==
  ASSUME Shape, NEW s \in Slots, Close(s)
  PROVE  /\ DOMAIN req' = Slots /\ req'[s].kind = "idle"
         /\ \A t \in Slots \ {s} : req'[t] = req[t]
BY DEF Shape, Close, Idle

\* Who enters was no member, so the primary commissioner is somebody else.
LEMMA EntryPreserves ==
  ASSUME LeagueInv, NEW s \in Slots, NEW u \in Users, NEW as,
         ~IsMember(u), Enter(u, as), league' = league, league # NoLeague
  PROVE  LeagueStaysInHand' /\ DOMAIN role' = Users
<1>1. u # league
  BY DEF LeagueInv, LeagueStaysInHand, IsMember, IsCommissioner
<1>2. DOMAIN role' = Users /\ \A v \in Users \ {u} : role'[v] = role[v]
  BY DEF Enter, LeagueInv, Shape
<1> QED BY <1>1, <1>2 DEF LeagueInv, Shape, LeagueStaysInHand, IsMember, IsCommissioner, Enter

LEMMA CommitPreserves ==
  ASSUME LeagueInv, NEW s \in Slots, Commit(s)
  PROVE  LeagueInv'
<1> USE DEF LeagueInv
<1>1. CASE CommitCreate(s)
  <2>1. Close(s) /\ league = NoLeague /\ league' = req[s].by /\ Enter(req[s].by, "owner")
        /\ UNCHANGED <<invite, admitted>>
    BY <1>1 DEF CommitCreate
  <2>2. req[s].by \in Users
    BY <1>1 DEF CommitCreate, Shape
  <2>3. league' \in Users /\ league' # NoLeague
    BY <2>1, <2>2, MembershipAssumption
  <2>4. role' = [role EXCEPT ![league'] = "owner"] /\ seasonRows' = seasonRows \cup {league'}
    BY <2>1 DEF Enter
  <2>5. \A t \in Slots : req'[t].kind \in {"idle", "create"}
    BY <2>1, CloseLeaves DEF NothingBefore
  <2>6. LeagueStaysInHand'
    BY <2>1, <2>3, <2>4 DEF Shape, LeagueStaysInHand, NothingBefore, IsMember, IsCommissioner
  <2>7. Shape'
    BY <2>1, <2>3, <2>4, CloseLeaves DEF Shape
  <2>8. NothingBefore' /\ PrimarySpared' /\ JoinHoldsInvite' /\ Admissions'
    BY <2>1, <2>3, <2>5 DEF NothingBefore, PrimarySpared, JoinHoldsInvite, Admissions
  <2> QED BY <2>6, <2>7, <2>8
<1>2. CASE CommitInvite(s)
  <2>1. Close(s) /\ UNCHANGED <<league, role, row, seasonRows, admitted>>
    BY <1>2 DEF CommitInvite
  <2>2. PICK k \in Tokens : /\ invite[k] = Unsent
                            /\ invite' = [invite EXCEPT ![k] = [to |-> req[s].to, state |-> "open"]]
    BY <1>2 DEF CommitInvite
  <2>3. league # NoLeague
    BY <1>2 DEF CommitInvite, NothingBefore
  <2>4. Shape' /\ NothingBefore' /\ PrimarySpared' /\ LeagueStaysInHand'
    BY <2>1, <2>2, <2>3, CloseLeaves
    DEF Shape, NothingBefore, PrimarySpared, LeagueStaysInHand, IsMember, IsCommissioner
  <2>5. Admissions'
    BY <2>1, <2>2 DEF Admissions, Shape, Unsent
  <2>6. JoinHoldsInvite'
    BY <2>1, <2>2, CloseLeaves DEF JoinHoldsInvite, Shape
  <2> QED BY <2>4, <2>5, <2>6
<1>3. CASE CommitJoin(s)
  <2> DEFINE k == req[s].token
  <2>1. /\ Close(s) /\ league' = league /\ ~IsMember(req[s].by) /\ Enter(req[s].by, "member")
        /\ invite' = [invite EXCEPT ![k].state = "accepted"]
        /\ admitted' = [admitted EXCEPT ![k] = @ + 1]
    BY <1>3 DEF CommitJoin
  <2>2. req[s].kind = "join" /\ k \in Tokens /\ req[s].by \in Users /\ league # NoLeague
    BY <1>3 DEF CommitJoin, JoinHoldsInvite, Shape, NothingBefore
  <2>3. LeagueStaysInHand' /\ DOMAIN role' = Users
    BY <2>1, <2>2, EntryPreserves
  <2>4. Shape' /\ NothingBefore' /\ PrimarySpared'
    BY <2>1, <2>2, <2>3, CloseLeaves DEF Shape, NothingBefore, PrimarySpared
  <2>5. admitted[k] = 0
    BY <2>2 DEF JoinHoldsInvite, Admissions
  <2>6. Admissions'
    BY <2>1, <2>2, <2>5 DEF Admissions, Shape
  <2>7. JoinHoldsInvite'
    BY <2>1, <2>2, CloseLeaves DEF JoinHoldsInvite, Shape
  <2> QED BY <2>3, <2>4, <2>6, <2>7
<1>4. CASE CommitCode(s)
  <2>1. /\ Close(s) /\ UNCHANGED <<league, invite, admitted>>
        /\ ~IsMember(req[s].by) /\ Enter(req[s].by, "member")
    BY <1>4 DEF CommitCode
  <2>2. req[s].by \in Users /\ league # NoLeague
    BY <1>4 DEF CommitCode, Shape, NothingBefore
  <2>3. LeagueStaysInHand' /\ DOMAIN role' = Users
    BY <2>1, <2>2, EntryPreserves
  <2>4. Shape' /\ NothingBefore' /\ PrimarySpared'
    BY <2>1, <2>2, <2>3, CloseLeaves DEF Shape, NothingBefore, PrimarySpared
  <2>5. Admissions' /\ JoinHoldsInvite'
    BY <2>1, CloseLeaves DEF Admissions, JoinHoldsInvite
  <2> QED BY <2>3, <2>4, <2>5
<1>5. CASE CommitRemove(s) \/ CommitUpdate(s)
  <2>1. Close(s) /\ UNCHANGED <<league, row, seasonRows, invite, admitted>>
    BY <1>5 DEF CommitRemove, CommitUpdate
  <2>2. league # NoLeague
    BY <1>5 DEF CommitRemove, CommitUpdate, NothingBefore
  <2>3. Shape' /\ NothingBefore' /\ PrimarySpared' /\ Admissions' /\ JoinHoldsInvite'
    <3>1. DOMAIN role' = Users
      BY <1>5 DEF CommitRemove, CommitUpdate, Shape
    <3> QED BY <3>1, <2>1, <2>2, CloseLeaves
            DEF Shape, NothingBefore, PrimarySpared, Admissions, JoinHoldsInvite
  <2>4. CASE CommitRemove(s)
    <3>1. req[s].target # league
      BY <2>4 DEF CommitRemove, PrimarySpared
    <3> QED BY <2>4, <3>1, <2>1, <2>2, <2>3
            DEF CommitRemove, Shape, LeagueStaysInHand, IsMember, IsCommissioner
  <2>5. CASE CommitUpdate(s)
    <3>1. req[s].target = league => req[s].to = "owner"
      BY <2>5 DEF CommitUpdate, PrimarySpared
    <3>2. \A v \in Users : IsMember(v)' => IsMember(v)
      BY <2>5 DEF CommitUpdate, SameRow, IsMember, Shape
    <3>3. IsCommissioner(league)'
      BY <2>5, <3>1, <2>1, <2>2 DEF CommitUpdate, Shape, LeagueStaysInHand, IsCommissioner
    <3> QED BY <3>2, <3>3, <2>1, <2>2, <2>3 DEF LeagueStaysInHand
  <2> QED BY <1>5, <2>4, <2>5
<1> QED BY <1>1, <1>2, <1>3, <1>4, <1>5 DEF Commit

LEMMA ConflictPreserves ==
  ASSUME LeagueInv, NEW s \in Slots, Conflict(s)
  PROVE  LeagueInv'
<1>1. Close(s) /\ UNCHANGED <<league, role, row, seasonRows, invite, admitted>>
  BY DEF Conflict
<1> QED BY <1>1, CloseLeaves
    DEF LeagueInv, Shape, NothingBefore, PrimarySpared, JoinHoldsInvite, Admissions,
        LeagueStaysInHand, IsMember, IsCommissioner

LEMMA ExpiryPreserves ==
  ASSUME LeagueInv, NEW k \in Tokens, InviteExpires(k)
  PROVE  LeagueInv'
<1>1. /\ invite' = [invite EXCEPT ![k].state = "expired"] /\ invite[k].state = "open"
      /\ InviteFree(k) /\ UNCHANGED <<league, role, row, seasonRows, req, admitted>>
  BY DEF InviteExpires
<1>2. league # NoLeague
  BY <1>1 DEF LeagueInv, NothingBefore, Unsent
<1>3. Admissions'
  BY <1>1 DEF LeagueInv, Shape, Admissions
<1>4. JoinHoldsInvite'
  BY <1>1 DEF LeagueInv, Shape, JoinHoldsInvite, InviteFree
<1> QED BY <1>1, <1>2, <1>3, <1>4
    DEF LeagueInv, Shape, NothingBefore, PrimarySpared, LeagueStaysInHand, IsMember, IsCommissioner

\* What is under way dies with its process: nothing is checked any more.
LEMMA DeathKeepsLeague ==
  ASSUME LeagueInv, NEW p \in Procs, ProcessDies(p)
  PROVE  LeagueInv'
<1>1. UNCHANGED <<league, role, row, seasonRows, invite, admitted>>
  BY DEF ProcessDies
<1>2. req' = req \/ req' = [s \in Slots |-> Idle]
  BY DEF ProcessDies
<1> QED BY <1>1, <1>2
    DEF LeagueInv, Shape, NothingBefore, PrimarySpared, JoinHoldsInvite, Admissions,
        LeagueStaysInHand, IsMember, IsCommissioner, Idle

LEMMA StutterKeepsLeague == LeagueInv /\ UNCHANGED membershipVars => LeagueInv'
BY DEF membershipVars, LeagueInv, Shape, NothingBefore, PrimarySpared, JoinHoldsInvite,
       Admissions, LeagueStaysInHand, IsMember, IsCommissioner

LEMMA StepKeepsLeague == LeagueInv /\ [AdminNext]_adminVars => LeagueInv'
<1> SUFFICES ASSUME LeagueInv, [AdminNext]_adminVars PROVE LeagueInv'
  OBVIOUS
<1>1. CASE \E s \in Slots : BeginRequest(s)
  BY <1>1, BeginPreserves DEF BeginRequest
<1>2. CASE \E s \in Slots : EndRequest(s)
  BY <1>2, CommitPreserves, ConflictPreserves DEF EndRequest
<1>3. CASE \E p \in Procs : ProcessDies(p)
  BY <1>3, DeathKeepsLeague
<1>4. CASE \E k \in Tokens : InviteExpires(k)
  BY <1>4, ExpiryPreserves
<1>5. CASE ReadRequest \/ Trigger \/ \E p \in Procs : WorkerRun(p)
  BY <1>5, StutterKeepsLeague DEF ReadRequest, Trigger, WorkerRun
<1>6. CASE UNCHANGED membershipVars
  BY <1>6, StutterKeepsLeague
<1>7. UNCHANGED adminVars => UNCHANGED membershipVars
  BY DEF adminVars
<1> QED BY <1>1, <1>2, <1>3, <1>4, <1>5, <1>6, <1>7 DEF AdminNext

LEMMA LeagueInvHolds == AdminSpec => []LeagueInv
<1>1. AdminInit => LeagueInv
  BY LeagueStart DEF AdminInit
<1> QED BY <1>1, StepKeepsLeague, PTL DEF AdminSpec

(***************************************************************************)
(* The league's theorems.                                                  *)
(***************************************************************************)

\* Whatever requests overlap, the league keeps its primary commissioner and a
\* season result for every member.
THEOREM LeagueIsNeverOrphaned == AdminSpec => []LeagueStaysInHand
<1>1. LeagueInv => LeagueStaysInHand
  BY DEF LeagueInv
<1> QED BY <1>1, LeagueInvHolds, PTL

\* However many requests carry the same invite, it admits one of them.
THEOREM InvitesAreSingleUse == AdminSpec => []InviteAdmitsOnce
<1>1. LeagueInv => InviteAdmitsOnce
  BY DEF LeagueInv, Admissions, InviteAdmitsOnce
<1> QED BY <1>1, LeagueInvHolds, PTL

(***************************************************************************)
(* The job: who holds the lock.                                            *)
(***************************************************************************)

\* The connections of a process stay its own.
OwnConns ==
  /\ DOMAIN pool = Procs /\ \A p \in Procs : pool[p] \in Seq(ConnsOf[p])
  /\ run \in [Procs -> [at : {"idle", "asking", "locked", "working", "ending"},
                        conn : Conns \cup {NoConn}]]
  /\ \A p \in Procs :
       /\ run[p].conn \in ConnsOf[p] \cup {NoConn}
       /\ run[p].at \in {"asking", "locked"} => run[p].conn \in ConnsOf[p]

\* PostgreSQL gives the lock to one connection at a time.
OneHolder ==
  /\ held \in [Conns -> Nat]
  /\ \A c, d \in Conns : held[c] > 0 /\ held[d] > 0 => c = d

\* While a process runs the job, one of its connections holds the lock.
RunHasLock ==
  recycled \/ \A p \in Procs : Locked(p) => \E c \in ConnsOf[p] : held[c] > 0

JobInv == OwnConns /\ OneHolder /\ RunHasLock

LEMMA ConnsAreConns == ASSUME NEW p \in Procs PROVE ConnsOf[p] \subseteq Conns
BY DEF Conns

LEMMA LockKeepsRunsApart == JobInv => OneRunAtATime
<1> SUFFICES ASSUME JobInv, ~recycled, NEW p \in Procs, NEW q \in Procs, Locked(p), Locked(q)
             PROVE  p = q
  BY DEF OneRunAtATime
<1>1. PICK c \in ConnsOf[p] : held[c] > 0
  BY DEF JobInv, RunHasLock
<1>2. PICK d \in ConnsOf[q] : held[d] > 0
  BY DEF JobInv, RunHasLock
<1>3. c = d
  BY <1>1, <1>2, ConnsAreConns DEF JobInv, OneHolder
<1> QED BY <1>3, JobRunnerAssumption

\* A pool takes back connections of its process.
LEMMA PoolTakesBack ==
  ASSUME JobInv, NEW p \in Procs, NEW c \in ConnsOf[p]
  PROVE  Append(pool[p], c) \in Seq(ConnsOf[p])
<1>1. pool[p] \in Seq(ConnsOf[p])
  BY DEF JobInv, OwnConns
<1> QED BY <1>1, AppendProperties

\* The pool hands out connections of its process, and keeps the others.
LEMMA AvailableIsOwn ==
  ASSUME JobInv, NEW p \in Procs, NEW c \in Available(p)
  PROVE  c \in ConnsOf[p] /\ Rest(p) \in Seq(ConnsOf[p])
<1> USE DEF JobInv, OwnConns
<1>1. CASE pool[p] # <<>>
  <2>1. c = pool[p][1] /\ Rest(p) = Tail(pool[p])
    BY <1>1 DEF Available, Rest
  <2> QED BY <1>1, <2>1
<1>2. CASE pool[p] = <<>>
  <2>1. Rest(p) = <<>>
    BY <1>2 DEF Rest
  <2>2. Unopened(p) # {} /\ c = CHOOSE d \in Unopened(p) : TRUE
    BY <1>2 DEF Available
  <2>3. c \in ConnsOf[p]
    BY <2>2 DEF Unopened
  <2> QED BY <2>1, <2>3
<1> QED BY <1>1, <1>2

(***************************************************************************)
(* The steps of the runs.                                                  *)
(***************************************************************************)

LEMMA JobStart == JobInit => JobInv
BY ConnsAreConns
DEF JobInit, JobInv, OwnConns, OneHolder, RunHasLock, NoRun, Locked

\* Steps that move connections between a pool and requests.
LEMMA PoolMovePreserves ==
  ASSUME JobInv, NEW p \in Procs, NEW idle \in Seq(ConnsOf[p]),
         pool' = [pool EXCEPT ![p] = idle], UNCHANGED <<held, run, recycled>>
  PROVE  JobInv'
BY DEF JobInv, OwnConns, OneHolder, RunHasLock, Locked

LEMMA RequestMovePreserves ==
  ASSUME JobInv, NEW p \in Procs, NEW c, Borrow(p, c) \/ GiveBack(p, c) \/ UseOne(p)
  PROVE  JobInv'
<1>1. CASE Borrow(p, c)
  BY <1>1, AvailableIsOwn, PoolMovePreserves DEF Borrow
<1>2. CASE GiveBack(p, c)
  <2>1. Append(pool[p], c) \in Seq(ConnsOf[p])
    BY <1>2, PoolTakesBack DEF GiveBack
  <2> QED BY <1>2, <2>1, PoolMovePreserves DEF GiveBack, JobInv, OwnConns
<1>3. CASE UseOne(p)
  <2>1. PICK d \in Available(p) : pool' = [pool EXCEPT ![p] = Append(Rest(p), d)]
    BY <1>3 DEF UseOne
  <2>2. Append(Rest(p), d) \in Seq(ConnsOf[p])
    BY <2>1, AvailableIsOwn
  <2> QED BY <1>3, <2>1, <2>2, PoolMovePreserves DEF UseOne
<1> QED BY <1>1, <1>2, <1>3

\* Steps that take a run on without touching the lock, or end it.
LEMMA RunMovePreserves ==
  ASSUME JobInv, NEW p \in Procs, NEW idle \in Seq(ConnsOf[p]),
         NEW at \in {"idle", "asking", "locked", "working", "ending"},
         NEW conn \in ConnsOf[p] \cup {NoConn},
         at \in {"asking", "locked"} => conn \in ConnsOf[p],
         at \in {"locked", "working", "ending"} => Locked(p),
         pool' = [pool EXCEPT ![p] = idle],
         run' = [run EXCEPT ![p] = [at |-> at, conn |-> conn]],
         UNCHANGED <<held, recycled>>
  PROVE  JobInv'
<1>1. run' \in [Procs -> [at : {"idle", "asking", "locked", "working", "ending"},
                          conn : Conns \cup {NoConn}]]
  BY ConnsAreConns DEF JobInv, OwnConns
<1>2. OwnConns'
  BY <1>1 DEF JobInv, OwnConns
<1>3. \A q \in Procs : Locked(q)' => Locked(q)
  BY DEF Locked, JobInv, OwnConns
<1> QED BY <1>2, <1>3 DEF JobInv, OneHolder, RunHasLock

LEMMA StartPreserves ==
  ASSUME JobInv, NEW p \in Procs, StartRun(p)
  PROVE  JobInv'
<1>1. PICK c \in Available(p) : run' = [run EXCEPT ![p] = [at |-> "asking", conn |-> c]]
  BY DEF StartRun
<1> QED BY <1>1, AvailableIsOwn, RunMovePreserves DEF StartRun

LEMMA TryLockPreserves ==
  ASSUME JobInv, NEW p \in Procs, TryLock(p)
  PROVE  JobInv'
<1> DEFINE c == run[p].conn
<1>1. c \in ConnsOf[p] /\ c \in Conns
  BY ConnsAreConns DEF TryLock, JobInv, OwnConns
<1>2. CASE OtherHolds(c)
  <2>1. Append(pool[p], c) \in Seq(ConnsOf[p])
    BY <1>1, PoolTakesBack
  <2> QED BY <1>2, <2>1, RunMovePreserves DEF TryLock, NoRun
<1>3. CASE ~OtherHolds(c)
  <2>1. /\ run' = [run EXCEPT ![p].at = "locked"] /\ held' = [held EXCEPT ![c] = @ + 1]
        /\ UNCHANGED <<pool, recycled>>
    BY <1>3 DEF TryLock
  <2>2. OwnConns'
    BY <2>1, <1>1 DEF JobInv, OwnConns
  <2>3. held' \in [Conns -> Nat] /\ held'[c] > 0
    BY <2>1, <1>1 DEF JobInv, OneHolder
  <2>4. \A d \in Conns \ {c} : ~(held'[d] > 0)
    BY <2>1, <1>3 DEF OtherHolds, JobInv, OneHolder
  <2>5. OneHolder'
    BY <2>3, <2>4 DEF OneHolder
  <2>6. \A q \in Procs : Locked(q)' => q = p \/ Locked(q)
    BY <2>1 DEF Locked, JobInv, OwnConns
  <2>7. \A d \in Conns : held[d] > 0 => held'[d] > 0
    BY <2>1 DEF JobInv, OneHolder
  <2>8. RunHasLock'
    BY <2>1, <2>3, <2>6, <2>7, <1>1, ConnsAreConns DEF JobInv, RunHasLock
  <2> QED BY <2>2, <2>5, <2>8 DEF JobInv
<1> QED BY <1>2, <1>3

\* The unlock goes over some connection of the process, whose run is then over.
LEMMA UnlockPreserves ==
  ASSUME JobInv, NEW p \in Procs, Unlock(p)
  PROVE  JobInv'
<1>1. PICK c \in Available(p) :
        /\ held' = [held EXCEPT ![c] = IF @ > 0 THEN @ - 1 ELSE 0]
        /\ pool' = [pool EXCEPT ![p] = Append(Rest(p), c)]
  BY DEF Unlock
<1>2. run' = [run EXCEPT ![p] = NoRun] /\ UNCHANGED recycled
  BY DEF Unlock
<1>3. c \in ConnsOf[p] /\ c \in Conns /\ Append(Rest(p), c) \in Seq(ConnsOf[p])
  BY <1>1, AvailableIsOwn, ConnsAreConns
<1>4. OwnConns'
  BY <1>1, <1>2, <1>3 DEF JobInv, OwnConns, NoRun
<1>5. held' \in [Conns -> Nat] /\ \A d \in Conns : held'[d] > 0 => held[d] > 0
  BY <1>1, <1>3 DEF JobInv, OneHolder
<1>6. OneHolder'
  BY <1>5 DEF JobInv, OneHolder
<1>7. ASSUME NEW q \in Procs, Locked(q)', ~recycled
      PROVE  \E d \in ConnsOf[q] : held'[d] > 0
  <2>1. q # p /\ Locked(q)
    BY <1>2, <1>7 DEF Locked, NoRun, JobInv, OwnConns
  <2>2. PICK d \in ConnsOf[q] : held[d] > 0
    BY <2>1, <1>7 DEF JobInv, RunHasLock
  <2>3. d # c /\ d \in Conns
    BY <2>1, <1>3, JobRunnerAssumption, ConnsAreConns
  <2> QED BY <2>2, <2>3, <1>1 DEF JobInv, OneHolder
<1>8. RunHasLock'
  BY <1>2, <1>7 DEF RunHasLock
<1> QED BY <1>4, <1>6, <1>8 DEF JobInv

LEMMA RunStepPreserves ==
  ASSUME JobInv, NEW p \in Procs, RunStep(p)
  PROVE  JobInv'
<1> DEFINE back == Append(pool[p], run[p].conn)
<1>0. run[p].conn # NoConn => back \in Seq(ConnsOf[p])
  <2>1. run[p].conn \in ConnsOf[p] \cup {NoConn}
    BY DEF JobInv, OwnConns
  <2> QED BY <2>1, PoolTakesBack
<1>n. \A d \in ConnsOf[p] : d # NoConn
  BY JobRunnerAssumption
<1>1. CASE TryLock(p)
  BY <1>1, TryLockPreserves
<1>2. CASE InsertRow(p)
  <2>1. run[p].conn # NoConn
    BY <1>2, <1>n DEF InsertRow, JobInv, OwnConns
  <2> QED BY <1>2, <2>1, <1>0, RunMovePreserves DEF InsertRow, Locked, JobInv, OwnConns
<1>3. CASE JobReads(p)
  <2>1. PICK c \in Available(p) : run' = [run EXCEPT ![p].conn = c]
    BY <1>3 DEF JobReads
  <2>2. run' = [run EXCEPT ![p] = [at |-> "working", conn |-> c]]
    BY <1>3, <2>1 DEF JobReads, JobInv, OwnConns
  <2> QED BY <1>3, <2>2, AvailableIsOwn, RunMovePreserves DEF JobReads, Locked
<1>4. CASE JobCommits(p)
  <2>1. run' = [run EXCEPT ![p] = [at |-> "working", conn |-> NoConn]]
    <3>1. run' = [run EXCEPT ![p] = [run[p] EXCEPT !.conn = NoConn]]
      BY <1>4 DEF JobCommits
    <3>2. [run[p] EXCEPT !.conn = NoConn] = [at |-> "working", conn |-> NoConn]
      <4>1. run[p] \in [at : {"idle", "asking", "locked", "working", "ending"},
                        conn : Conns \cup {NoConn}]
        BY DEF JobInv, OwnConns
      <4> QED BY <1>4, <4>1 DEF JobCommits
    <3> QED BY <3>1, <3>2
  <2> QED BY <1>4, <2>1, <1>0, RunMovePreserves DEF JobCommits, Locked
<1>5. CASE Finish(p)
  BY <1>5, <1>0, RunMovePreserves DEF Finish, Locked
<1>6. CASE Unlock(p)
  BY <1>6, UnlockPreserves
<1> QED BY <1>1, <1>2, <1>3, <1>4, <1>5, <1>6 DEF RunStep

LEMMA JobFaultPreserves ==
  ASSUME JobInv, NEW p \in Procs, JobFault(p)
  PROVE  JobInv'
<1>1. CASE TransactionBreaks(p)
  <2>1. Append(pool[p], run[p].conn) \in Seq(ConnsOf[p])
    <3>1. run[p].conn \in ConnsOf[p]
      BY <1>1 DEF TransactionBreaks, JobInv, OwnConns
    <3> QED BY <3>1, PoolTakesBack
  <2> QED BY <1>1, <2>1, RunMovePreserves DEF TransactionBreaks, NoRun
<1>2. CASE Recycle(p)
  <2> DEFINE c == pool[p][1]
  <2>1. /\ held' = [held EXCEPT ![c] = 0] /\ recycled' = (recycled \/ held[c] > 0)
        /\ UNCHANGED <<pool, run>>
    BY <1>2 DEF Recycle
  <2>2. c \in Conns
    BY <1>2, ConnsAreConns DEF Recycle, JobInv, OwnConns
  <2>3. OwnConns'
    BY <2>1 DEF JobInv, OwnConns
  <2>4. OneHolder'
    BY <2>1, <2>2 DEF JobInv, OneHolder
  <2>5. held[c] > 0 \/ held' = held
    BY <2>1, <2>2 DEF JobInv, OneHolder
  <2>6. RunHasLock'
    BY <2>1, <2>5 DEF JobInv, RunHasLock, Locked
  <2> QED BY <2>3, <2>4, <2>6 DEF JobInv
<1> QED BY <1>1, <1>2 DEF JobFault

\* The locks of a process end with it, and so does its run.
LEMMA DeathKeepsJob ==
  ASSUME JobInv, NEW p \in Procs, Die(p)
  PROVE  JobInv'
<1>1. /\ pool' = [pool EXCEPT ![p] = <<>>] /\ run' = [run EXCEPT ![p] = NoRun]
      /\ held' = [c \in Conns |-> IF c \in ConnsOf[p] THEN 0 ELSE held[c]]
      /\ UNCHANGED recycled
  BY DEF Die
<1>2. OwnConns'
  <2>1. <<>> \in Seq(ConnsOf[p])
    OBVIOUS
  <2> QED BY <1>1, <2>1 DEF JobInv, OwnConns, NoRun
<1>3. OneHolder'
  BY <1>1 DEF JobInv, OneHolder
<1>4. ASSUME NEW q \in Procs, Locked(q)', ~recycled
      PROVE  \E d \in ConnsOf[q] : held'[d] > 0
  <2>1. q # p /\ Locked(q)
    BY <1>1, <1>4 DEF Locked, NoRun, JobInv, OwnConns
  <2>2. PICK d \in ConnsOf[q] : held[d] > 0
    BY <2>1, <1>4 DEF JobInv, RunHasLock
  <2>3. d \notin ConnsOf[p] /\ d \in Conns
    BY <2>1, JobRunnerAssumption, ConnsAreConns
  <2> QED BY <2>2, <2>3, <1>1
<1>5. RunHasLock'
  BY <1>1, <1>4 DEF RunHasLock
<1> QED BY <1>2, <1>3, <1>5 DEF JobInv

LEMMA StepKeepsJob == JobInv /\ [AdminNext]_adminVars => JobInv'
<1> SUFFICES ASSUME JobInv, [AdminNext]_adminVars PROVE JobInv'
  OBVIOUS
<1>0. Api \in Procs
  BY AdministrationAssumption
<1>1. CASE \E s \in Slots : BeginRequest(s) \/ EndRequest(s)
  BY <1>0, <1>1, RequestMovePreserves DEF BeginRequest, EndRequest
<1>2. CASE ReadRequest
  BY <1>0, <1>2, RequestMovePreserves DEF ReadRequest
<1>3. CASE Trigger \/ \E p \in Procs : WorkerRun(p)
  BY <1>0, <1>3, StartPreserves DEF Trigger, WorkerRun
<1>4. CASE \E p \in Procs : ProcessDies(p)
  BY <1>4, DeathKeepsJob DEF ProcessDies
<1>5. CASE \E p \in Procs : RunStep(p) \/ JobFault(p)
  BY <1>5, RunStepPreserves, JobFaultPreserves
<1>6. CASE UNCHANGED jobVars
  BY <1>6 DEF jobVars, JobInv, OwnConns, OneHolder, RunHasLock, Locked
<1>7. UNCHANGED adminVars => UNCHANGED jobVars
  BY DEF adminVars
<1> QED BY <1>1, <1>2, <1>3, <1>4, <1>5, <1>6, <1>7 DEF AdminNext

(***************************************************************************)
(* The runs' theorem.                                                      *)
(***************************************************************************)

\* Unless a connection is replaced while it holds the lock, no two processes run
\* the job at once.
THEOREM RunsNeverOverlap == AdminSpec => []OneRunAtATime
<1>1. AdminInit => JobInv
  BY JobStart DEF AdminInit
<1> QED BY <1>1, StepKeepsJob, LockKeepsRunsApart, PTL DEF AdminSpec

(***************************************************************************)
(* Types: what the tables and the requests may hold.                       *)
(***************************************************************************)
MembershipTypes ==
  /\ league \in Users \cup {NoLeague}
  /\ role \in [Users -> Roles \cup {"none"}] /\ row \in [Users -> Nat]
  /\ seasonRows \subseteq Users
  /\ invite \in [Tokens -> Invites]
  /\ req \in [Slots -> Reads]
  /\ admitted \in [Tokens -> Nat]
  /\ \A k \in Tokens : admitted[k] = 0 => invite[k].state # "accepted"

\* What a request has read, by its kind.
LEMMA ReadsByKind ==
  ASSUME NEW r \in Reads
  PROVE  /\ r.kind \in {"create", "code", "invite", "join", "remove", "update"} => r.by \in Users
         /\ r.kind = "invite" => r.to \in Users
         /\ r.kind = "join" => r.token \in Tokens
         /\ r.kind \in {"remove", "update"} => r.target \in Users
         /\ r.kind = "update" => r.to \in Roles
BY DEF Reads, Idle

LEMMA BeginKeepsTypes ==
  ASSUME MembershipTypes, NEW s \in Slots, NEW u \in Users, Begin(s, u)
  PROVE  MembershipTypes'
<1>1. ASSUME NEW read \in Reads, Open(s, read) PROVE MembershipTypes'
  BY <1>1 DEF Open, MembershipTypes
<1>2. CASE BeginCreate(s, u) \/ BeginCode(s, u)
  <2>1. [kind |-> "create", by |-> u] \in Reads /\ [kind |-> "code", by |-> u] \in Reads
    BY DEF Reads
  <2> QED BY <1>1, <1>2, <2>1 DEF BeginCreate, BeginCode
<1>3. ASSUME NEW to \in Users, BeginInvite(s, u, to) PROVE MembershipTypes'
  <2>1. [kind |-> "invite", by |-> u, to |-> to] \in Reads
    BY DEF Reads
  <2> QED BY <1>1, <1>3, <2>1 DEF BeginInvite
<1>4. ASSUME NEW k \in Tokens, BeginJoin(s, u, k) PROVE MembershipTypes'
  <2>1. [kind |-> "join", by |-> u, token |-> k] \in Reads
    BY DEF Reads
  <2> QED BY <1>1, <1>4, <2>1 DEF BeginJoin
<1>5. ASSUME NEW target \in Users, BeginRemove(s, u, target) PROVE MembershipTypes'
  <2>1. [kind |-> "remove", by |-> u, target |-> target, row |-> row[target]] \in Reads
    BY DEF Reads, MembershipTypes
  <2> QED BY <1>1, <1>5, <2>1 DEF BeginRemove
<1>6. ASSUME NEW target \in Users, NEW to \in Roles, BeginUpdate(s, u, target, to)
      PROVE  MembershipTypes'
  <2>1. role[target] \in Roles /\ row[target] \in Nat
    BY <1>6 DEF BeginUpdate, IsMember, MembershipTypes
  <2>2. [kind |-> "update", by |-> u, target |-> target, row |-> row[target],
         was |-> role[target], to |-> to] \in Reads
    BY <2>1 DEF Reads
  <2> QED BY <1>1, <1>6, <2>2 DEF BeginUpdate
<1> QED BY <1>2, <1>3, <1>4, <1>5, <1>6 DEF Begin

LEMMA EndKeepsTypes ==
  ASSUME MembershipTypes, NEW s \in Slots, Commit(s) \/ Conflict(s)
  PROVE  MembershipTypes'
<1> USE DEF MembershipTypes
<1>r. req[s] \in Reads
  OBVIOUS
<1>c. req' = [req EXCEPT ![s] = Idle] /\ req' \in [Slots -> Reads]
  BY DEF Commit, Conflict, CommitCreate, CommitInvite, CommitJoin, CommitCode, CommitRemove,
         CommitUpdate, Close, Reads
<1>e. ASSUME NEW u \in Users, NEW as \in Roles, Enter(u, as)
      PROVE  /\ role' \in [Users -> Roles \cup {"none"}] /\ row' \in [Users -> Nat]
             /\ seasonRows' \subseteq Users
  <2>1. role' \in [Users -> Roles \cup {"none"}]
    BY <1>e DEF Enter
  <2>2. row' \in [Users -> Nat]
    BY <1>e DEF Enter
  <2>3. seasonRows' \subseteq Users
    BY <1>e DEF Enter
  <2> QED BY <2>1, <2>2, <2>3
<1>o. {"owner", "member"} = Roles
  BY DEF Roles
<1>1. CASE Conflict(s)
  BY <1>1, <1>c DEF Conflict
<1>2. CASE CommitCreate(s)
  <2>1. req[s].by \in Users
    BY <1>2, <1>r, ReadsByKind DEF CommitCreate
  <2> QED BY <1>2, <2>1, <1>c, <1>e, <1>o DEF CommitCreate
<1>3. CASE CommitInvite(s)
  <2>1. req[s].to \in Users
    BY <1>3, <1>r, ReadsByKind DEF CommitInvite
  <2>2. [to |-> req[s].to, state |-> "open"] \in Invites
    BY <2>1 DEF Invites
  <2> QED BY <1>3, <2>2, <1>c DEF CommitInvite
<1>4. CASE CommitJoin(s)
  <2>1. req[s].by \in Users /\ req[s].token \in Tokens
    BY <1>4, <1>r, ReadsByKind DEF CommitJoin
  <2>2. [invite[req[s].token] EXCEPT !.state = "accepted"] \in Invites
    BY <2>1 DEF Invites
  <2>3. invite' \in [Tokens -> Invites] /\ admitted' \in [Tokens -> Nat]
    BY <1>4, <2>1, <2>2 DEF CommitJoin
  <2> QED BY <1>4, <2>1, <2>3, <1>c, <1>e, <1>o DEF CommitJoin
<1>5. CASE CommitCode(s)
  <2>1. req[s].by \in Users
    BY <1>5, <1>r, ReadsByKind DEF CommitCode
  <2> QED BY <1>5, <2>1, <1>c, <1>e, <1>o DEF CommitCode
<1>6. CASE CommitRemove(s)
  BY <1>6, <1>c DEF CommitRemove
<1>7. CASE CommitUpdate(s)
  <2>1. req[s].to \in Roles
    BY <1>7, <1>r, ReadsByKind DEF CommitUpdate
  <2> QED BY <1>7, <2>1, <1>c DEF CommitUpdate
<1> QED BY <1>1, <1>2, <1>3, <1>4, <1>5, <1>6, <1>7 DEF Commit

LEMMA StepKeepsMembershipTypes == MembershipTypes /\ [AdminNext]_adminVars => MembershipTypes'
<1> SUFFICES ASSUME MembershipTypes, [AdminNext]_adminVars PROVE MembershipTypes'
  OBVIOUS
<1>1. CASE \E s \in Slots : BeginRequest(s)
  BY <1>1, BeginKeepsTypes DEF BeginRequest
<1>2. CASE \E s \in Slots : EndRequest(s)
  BY <1>2, EndKeepsTypes DEF EndRequest
<1>3. CASE \E p \in Procs : ProcessDies(p)
  BY <1>3 DEF ProcessDies, MembershipTypes, Reads
<1>4. CASE \E k \in Tokens : InviteExpires(k)
  <2>1. PICK k \in Tokens : /\ invite' = [invite EXCEPT ![k].state = "expired"]
                            /\ UNCHANGED <<league, role, row, seasonRows, req, admitted>>
    BY <1>4 DEF InviteExpires
  <2>2. [invite[k] EXCEPT !.state = "expired"] \in Invites
    BY DEF MembershipTypes, Invites
  <2> QED BY <2>1, <2>2 DEF MembershipTypes
<1>5. CASE UNCHANGED membershipVars
  BY <1>5 DEF membershipVars, MembershipTypes
<1>6. ReadRequest \/ Trigger \/ (\E p \in Procs : WorkerRun(p)) \/ UNCHANGED adminVars
        => UNCHANGED membershipVars
  BY DEF ReadRequest, Trigger, WorkerRun, adminVars
<1> QED BY <1>1, <1>2, <1>3, <1>4, <1>5, <1>6 DEF AdminNext

(***************************************************************************)
(* Connections: each is in one place.                                      *)
(***************************************************************************)
Elems(q) == {q[i] : i \in DOMAIN q}
Distinct(q) == \A i, j \in DOMAIN q : q[i] = q[j] => i = j

\* No connection of p is in two places of its pool, its run and the requests.
Apart(p) ==
  /\ Distinct(pool[p])
  /\ InPool(p) \cap lent = {} /\ run[p].conn \notin InPool(p) \cup lent

\* A request has a connection on loan, and no two have the same.
Loans ==
  /\ connOf \in [Slots -> ConnsOf[Api] \cup {NoConn}]
  /\ \A s \in Slots : /\ req[s] # Idle => connOf[s] # NoConn
                      /\ connOf[s] # NoConn => connOf[s] \in lent
  /\ \A s, t \in Slots : connOf[s] = connOf[t] /\ connOf[s] # NoConn => s = t

Places == lent \subseteq Conns /\ \A p \in Procs : Apart(p)

LEMMA AppendApart ==
  ASSUME NEW S, NEW q \in Seq(S), NEW c \in S, Distinct(q), c \notin Elems(q)
  PROVE  Distinct(Append(q, c)) /\ Elems(Append(q, c)) = Elems(q) \cup {c}
<1> DEFINE r == Append(q, c)
<1>1. /\ DOMAIN q = 1..Len(q) /\ DOMAIN r = 1..(Len(q) + 1) /\ Len(q) \in Nat
      /\ r[Len(q) + 1] = c /\ \A i \in 1..Len(q) : r[i] = q[i]
  BY AppendProperties
<1> HIDE DEF r
<1>2. Distinct(r)
  BY <1>1 DEF Distinct, Elems
<1>3. Elems(r) = Elems(q) \cup {c}
  BY <1>1 DEF Elems
<1> QED BY <1>2, <1>3 DEF r

LEMMA TailApart ==
  ASSUME NEW S, NEW q \in Seq(S), q # <<>>, Distinct(q)
  PROVE  Distinct(Tail(q)) /\ Elems(Tail(q)) \subseteq Elems(q) /\ q[1] \in Elems(q)
         /\ q[1] \notin Elems(Tail(q))
<1> DEFINE r == Tail(q)
<1>1. /\ DOMAIN q = 1..Len(q) /\ DOMAIN r = 1..(Len(q) - 1) /\ Len(q) \in Nat /\ Len(q) > 0
      /\ \A i \in 1..(Len(q) - 1) : r[i] = q[i + 1]
  BY HeadTailProperties, EmptySeq, LenProperties
<1> HIDE DEF r
<1>2. Distinct(r)
  BY <1>1 DEF Distinct
<1>3. Elems(r) \subseteq Elems(q) /\ q[1] \in Elems(q)
  BY <1>1 DEF Elems
<1>4. q[1] \notin Elems(r)
  BY <1>1 DEF Elems, Distinct
<1> QED BY <1>2, <1>3, <1>4 DEF r

LEMMA EmptyIsApart == Distinct(<<>>) /\ Elems(<<>>) = {}
BY DEF Distinct, Elems

\* What the pool hands out is in no other place, nor in the pool any more.
LEMMA AvailableIsFree ==
  ASSUME JobInv, NEW p \in Procs, Apart(p), NEW c \in Available(p)
  PROVE  /\ c \notin lent /\ c # run[p].conn /\ c \notin Elems(Rest(p))
         /\ Distinct(Rest(p)) /\ Elems(Rest(p)) \subseteq InPool(p)
<1>0. pool[p] \in Seq(ConnsOf[p]) /\ InPool(p) = Elems(pool[p])
  BY DEF JobInv, OwnConns, InPool, Elems
<1>1. CASE pool[p] # <<>>
  <2>1. c = pool[p][1] /\ Rest(p) = Tail(pool[p])
    BY <1>1 DEF Available, Rest
  <2> QED BY <1>0, <1>1, <2>1, TailApart DEF Apart
<1>2. CASE pool[p] = <<>>
  <2>1. Rest(p) = <<>>
    BY <1>2 DEF Rest
  <2>2. Unopened(p) # {} /\ c = CHOOSE d \in Unopened(p) : TRUE
    BY <1>2 DEF Available
  <2>3. c \in Unopened(p)
    BY <2>2
  <2> QED BY <2>1, <2>3, EmptyIsApart DEF Unopened
<1> QED BY <1>1, <1>2

\* What is in the pool, on loan or with the run of another process is not of this one.
LEMMA MovePreservesPlaces ==
  ASSUME JobInv, Places, NEW p \in Procs, NEW idle \in Seq(ConnsOf[p]), NEW conn,
         pool' = [pool EXCEPT ![p] = idle],
         \A q \in Procs : q # p => run'[q].conn = run[q].conn,
         run'[p].conn = conn,
         lent' \subseteq lent \cup ConnsOf[p],
         Distinct(idle), Elems(idle) \cap lent' = {}, conn \notin Elems(idle) \cup lent'
  PROVE  Places'
<1>1. lent' \subseteq Conns
  BY ConnsAreConns DEF Places
<1>2. Apart(p)'
  <2>1. pool'[p] = idle
    BY DEF JobInv, OwnConns
  <2>2. InPool(p)' = Elems(idle)
    BY <2>1 DEF InPool, Elems
  <2> QED BY <2>1, <2>2 DEF Apart
<1>3. ASSUME NEW q \in Procs, q # p PROVE Apart(q)'
  <2>1. pool'[q] = pool[q] /\ InPool(q)' = InPool(q)
    BY <1>3 DEF JobInv, OwnConns, InPool
  <2>2. InPool(q) \subseteq ConnsOf[q]
    <3>1. pool[q] \in Seq(ConnsOf[q])
      BY DEF JobInv, OwnConns
    <3> QED BY <3>1, ElementOfSeq DEF InPool
  <2>3. run[q].conn \in ConnsOf[q] \cup {NoConn} /\ run'[q].conn = run[q].conn
    BY <1>3 DEF JobInv, OwnConns
  <2>4. ConnsOf[q] \cap ConnsOf[p] = {} /\ NoConn \notin ConnsOf[p]
    BY <1>3, JobRunnerAssumption
  <2>5. Apart(q)
    BY DEF Places
  <2> QED BY <2>1, <2>2, <2>3, <2>4, <2>5 DEF Apart
<1> QED BY <1>1, <1>2, <1>3 DEF Places

\* A connection goes from the pool to the run, or back.
LEMMA TakeKeepsPlaces ==
  ASSUME JobInv, Places, NEW p \in Procs, NEW c \in Available(p),
         pool' = [pool EXCEPT ![p] = Rest(p)], run'[p].conn = c, lent' = lent,
         \A q \in Procs : q # p => run'[q].conn = run[q].conn
  PROVE  Places'
<1>1. Apart(p)
  BY DEF Places
<1>2. Rest(p) \in Seq(ConnsOf[p])
  BY AvailableIsOwn
<1>3. Elems(Rest(p)) \cap lent = {} /\ c \notin Elems(Rest(p)) \cup lent /\ Distinct(Rest(p))
  BY <1>1, AvailableIsFree DEF Apart
<1> QED BY <1>2, <1>3, MovePreservesPlaces

LEMMA ReturnKeepsPlaces ==
  ASSUME JobInv, Places, NEW p \in Procs, run[p].conn # NoConn,
         pool' = [pool EXCEPT ![p] = Append(@, run[p].conn)], run'[p].conn = NoConn,
         lent' = lent, \A q \in Procs : q # p => run'[q].conn = run[q].conn
  PROVE  Places'
<1> DEFINE c == run[p].conn  back == Append(pool[p], c)
<1>1. Apart(p) /\ lent \subseteq Conns
  BY DEF Places
<1>2. c \in ConnsOf[p] /\ pool[p] \in Seq(ConnsOf[p]) /\ InPool(p) = Elems(pool[p])
  BY DEF JobInv, OwnConns, InPool, Elems
<1>3. back \in Seq(ConnsOf[p]) /\ Distinct(back) /\ Elems(back) = Elems(pool[p]) \cup {c}
  BY <1>1, <1>2, AppendApart, PoolTakesBack DEF Apart
<1>4. NoConn \notin ConnsOf[p] /\ NoConn \notin lent
  BY <1>1, JobRunnerAssumption DEF Conns
<1>5. Elems(pool[p]) \subseteq ConnsOf[p]
  BY <1>2, ElementOfSeq DEF Elems
<1>6. Elems(back) \cap lent = {} /\ NoConn \notin Elems(back) \cup lent
  BY <1>1, <1>2, <1>3, <1>4, <1>5 DEF Apart
<1>7. pool' = [pool EXCEPT ![p] = back]
  OBVIOUS
<1> HIDE DEF back, c
<1> QED BY <1>3, <1>6, <1>7, MovePreservesPlaces

\* A connection is used for a moment: by a request, or by the unlock that ends a run.
LEMMA UseKeepsPlaces ==
  ASSUME JobInv, Places, NEW p \in Procs, NEW c \in Available(p),
         pool' = [pool EXCEPT ![p] = Append(Rest(p), c)], lent' = lent,
         run'[p].conn \in {run[p].conn, NoConn},
         \A q \in Procs : q # p => run'[q].conn = run[q].conn
  PROVE  Places'
<1> DEFINE back == Append(Rest(p), c)
<1>1. Apart(p) /\ lent \subseteq Conns
  BY DEF Places
<1>2. c \in ConnsOf[p] /\ Rest(p) \in Seq(ConnsOf[p])
  BY AvailableIsOwn
<1>3. /\ c \notin lent /\ c # run[p].conn /\ c \notin Elems(Rest(p))
      /\ Distinct(Rest(p)) /\ Elems(Rest(p)) \subseteq InPool(p)
  BY <1>1, AvailableIsFree
<1>4. back \in Seq(ConnsOf[p]) /\ Distinct(back) /\ Elems(back) = Elems(Rest(p)) \cup {c}
  BY <1>2, <1>3, AppendApart
<1>5. NoConn \notin ConnsOf[p] /\ NoConn \notin lent
  BY <1>1, JobRunnerAssumption DEF Conns
<1>6. Elems(Rest(p)) \subseteq ConnsOf[p]
  BY <1>2, ElementOfSeq DEF Elems
<1>7. Elems(back) \cap lent = {} /\ run'[p].conn \notin Elems(back) \cup lent
  BY <1>1, <1>2, <1>3, <1>4, <1>5, <1>6 DEF Apart
<1> HIDE DEF back
<1>8. pool' = [pool EXCEPT ![p] = back]
  BY DEF back
<1> QED BY <1>4, <1>7, <1>8, MovePreservesPlaces

LEMMA StepsOfRunsKeepPlaces ==
  ASSUME JobInv, Places, NEW p \in Procs, StartRun(p) \/ RunStep(p) \/ JobFault(p)
  PROVE  Places'
<1>t. run \in [Procs -> [at : {"idle", "asking", "locked", "working", "ending"},
                         conn : Conns \cup {NoConn}]]
  BY DEF JobInv, OwnConns
<1>l. run[p].at \in {"asking", "locked"} => run[p].conn # NoConn
  BY JobRunnerAssumption DEF JobInv, OwnConns
<1>1. CASE StartRun(p) \/ JobReads(p)
  <2>1. PICK c \in Available(p) : run' = [run EXCEPT ![p] = [at |-> "asking", conn |-> c]]
                                  \/ run' = [run EXCEPT ![p].conn = c]
    BY <1>1 DEF StartRun, JobReads
  <2>2. run'[p].conn = c /\ \A q \in Procs : q # p => run'[q].conn = run[q].conn
    BY <2>1, <1>t
  <2> QED BY <1>1, <2>2, TakeKeepsPlaces DEF StartRun, JobReads
<1>2. CASE TryLock(p) /\ ~OtherHolds(run[p].conn)
  <2>1. UNCHANGED <<pool, lent>> /\ \A q \in Procs : run'[q].conn = run[q].conn
    BY <1>2, <1>t DEF TryLock
  <2> QED BY <2>1 DEF Places, Apart, InPool
<1>3. CASE \/ TryLock(p) /\ OtherHolds(run[p].conn)
           \/ InsertRow(p) \/ JobCommits(p) \/ Finish(p) \/ TransactionBreaks(p)
  <2>1. /\ run[p].conn # NoConn /\ lent' = lent
        /\ pool' = [pool EXCEPT ![p] = Append(@, run[p].conn)]
    BY <1>3, <1>l DEF TryLock, InsertRow, JobCommits, Finish, TransactionBreaks
  <2>2. run'[p].conn = NoConn /\ \A q \in Procs : q # p => run'[q].conn = run[q].conn
    BY <1>3, <1>t DEF TryLock, InsertRow, JobCommits, Finish, TransactionBreaks, NoRun
  <2> QED BY <2>1, <2>2, ReturnKeepsPlaces
<1>4. CASE Unlock(p)
  <2>1. PICK c \in Available(p) : pool' = [pool EXCEPT ![p] = Append(Rest(p), c)]
    BY <1>4 DEF Unlock
  <2>2. lent' = lent /\ run'[p].conn = NoConn
        /\ \A q \in Procs : q # p => run'[q].conn = run[q].conn
    BY <1>4, <1>t DEF Unlock, NoRun
  <2> QED BY <2>1, <2>2, UseKeepsPlaces
<1>5. CASE Recycle(p)
  BY <1>5 DEF Recycle, Places, Apart, InPool
<1> QED BY <1>1, <1>2, <1>3, <1>4, <1>5 DEF RunStep, JobFault

(***************************************************************************)
(* The steps of requests.                                                  *)
(***************************************************************************)

LEMMA RequestTakesConnection ==
  ASSUME JobInv, Places, Loans, DOMAIN req = Slots, NEW s \in Slots, BeginRequest(s)
  PROVE  Places' /\ Loans'
<1>0. Api \in Procs /\ Apart(Api) /\ lent \subseteq Conns
  BY AdministrationAssumption DEF Places
<1>1. PICK c \in Available(Api) : Borrow(Api, c) /\ connOf' = [connOf EXCEPT ![s] = c]
  BY DEF BeginRequest
<1>2. \A t \in Slots \ {s} : req'[t] = req[t]
  BY DEF BeginRequest, Begin, BeginCreate, BeginCode, BeginInvite, BeginJoin, BeginRemove,
         BeginUpdate, Open
<1>3. /\ c \in ConnsOf[Api] /\ c # NoConn /\ c \notin lent /\ c # run[Api].conn
      /\ Rest(Api) \in Seq(ConnsOf[Api]) /\ c \notin Elems(Rest(Api))
      /\ Distinct(Rest(Api)) /\ Elems(Rest(Api)) \subseteq InPool(Api)
  BY <1>0, AvailableIsOwn, AvailableIsFree, JobRunnerAssumption
<1>4. /\ pool' = [pool EXCEPT ![Api] = Rest(Api)] /\ lent' = lent \cup {c} /\ run' = run
  BY <1>1 DEF Borrow
<1>5. /\ Elems(Rest(Api)) \cap lent' = {} /\ run[Api].conn \notin Elems(Rest(Api)) \cup lent'
      /\ lent' \subseteq lent \cup ConnsOf[Api]
  BY <1>0, <1>3, <1>4 DEF Apart
<1>6. Places'
  BY <1>0, <1>3, <1>4, <1>5, MovePreservesPlaces
<1>7. Loans'
  <2>1. connOf' \in [Slots -> ConnsOf[Api] \cup {NoConn}]
    BY <1>1, <1>3 DEF Loans
  <2>2. \A t \in Slots : /\ req'[t] # Idle => connOf'[t] # NoConn
                         /\ connOf'[t] # NoConn => connOf'[t] \in lent'
    BY <1>1, <1>2, <1>3, <1>4 DEF Loans
  <2>3. \A t \in Slots \ {s} : connOf'[t] # c
    BY <1>1, <1>3 DEF Loans
  <2>4. \A t, v \in Slots : connOf'[t] = connOf'[v] /\ connOf'[t] # NoConn => t = v
    BY <1>1, <2>3 DEF Loans
  <2> QED BY <2>1, <2>2, <2>4 DEF Loans
<1> QED BY <1>6, <1>7

LEMMA RequestReturnsConnection ==
  ASSUME JobInv, Places, Loans, DOMAIN req = Slots, NEW s \in Slots, EndRequest(s)
  PROVE  Places' /\ Loans'
<1> DEFINE c == connOf[s]  back == Append(pool[Api], c)
<1>0. Api \in Procs /\ Apart(Api) /\ lent \subseteq Conns
  BY AdministrationAssumption DEF Places
<1>1. /\ c # NoConn /\ c \in lent /\ c \in ConnsOf[Api] /\ run' = run
      /\ pool' = [pool EXCEPT ![Api] = Append(@, c)] /\ lent' = lent \ {c}
      /\ connOf' = [connOf EXCEPT ![s] = NoConn]
  BY DEF EndRequest, GiveBack
<1>2. req' = [req EXCEPT ![s] = Idle]
  BY DEF EndRequest, Commit, Conflict, CommitCreate, CommitInvite, CommitJoin, CommitCode,
         CommitRemove, CommitUpdate, Close
<1>3. pool[Api] \in Seq(ConnsOf[Api]) /\ InPool(Api) = Elems(pool[Api])
  BY <1>0 DEF JobInv, OwnConns, InPool, Elems
<1>4. c \notin Elems(pool[Api]) /\ c # run[Api].conn
  BY <1>0, <1>1, <1>3 DEF Apart
<1>5. back \in Seq(ConnsOf[Api]) /\ Distinct(back) /\ Elems(back) = Elems(pool[Api]) \cup {c}
  <2>1. Distinct(pool[Api])
    BY <1>0 DEF Apart
  <2>2. back \in Seq(ConnsOf[Api])
    BY <1>1, <1>3, AppendProperties
  <2> QED BY <1>1, <1>3, <1>4, <2>1, <2>2, AppendApart
<1>6. /\ Elems(back) \cap lent' = {} /\ run[Api].conn \notin Elems(back) \cup lent'
      /\ lent' \subseteq lent \cup ConnsOf[Api]
  BY <1>0, <1>1, <1>3, <1>4, <1>5 DEF Apart
<1>7. pool' = [pool EXCEPT ![Api] = back]
  BY <1>1
<1>8. Places'
  <2> HIDE DEF back
  <2> QED BY <1>0, <1>1, <1>5, <1>6, <1>7, MovePreservesPlaces
<1>9. Loans'
  <2>1. connOf' \in [Slots -> ConnsOf[Api] \cup {NoConn}]
    BY <1>1 DEF Loans
  <2>2. \A t \in Slots : /\ req'[t] # Idle => connOf'[t] # NoConn
                         /\ connOf'[t] # NoConn => connOf'[t] \in lent'
    BY <1>1, <1>2 DEF Loans
  <2>3. \A t, v \in Slots : connOf'[t] = connOf'[v] /\ connOf'[t] # NoConn => t = v
    BY <1>1 DEF Loans
  <2> QED BY <2>1, <2>2, <2>3 DEF Loans
<1> QED BY <1>8, <1>9

LEMMA DeathClosesConnections ==
  ASSUME JobInv, Places, Loans, NEW p \in Procs, ProcessDies(p)
  PROVE  Places' /\ Loans'
<1>1. /\ pool' = [pool EXCEPT ![p] = <<>>] /\ lent' = lent \ ConnsOf[p]
      /\ run' = [run EXCEPT ![p] = NoRun]
  BY DEF ProcessDies, Die
<1>2. run'[p].conn = NoConn /\ \A q \in Procs : q # p => run'[q].conn = run[q].conn
  BY <1>1 DEF JobInv, OwnConns, NoRun
<1>3. <<>> \in Seq(ConnsOf[p]) /\ NoConn \notin Elems(<<>>) \cup lent'
      /\ Elems(<<>>) \cap lent' = {} /\ Distinct(<<>>)
  BY <1>1, EmptyIsApart, JobRunnerAssumption DEF Places, Conns
<1>4. Places'
  BY <1>1, <1>2, <1>3, MovePreservesPlaces
<1>5. CASE p = Api
  <2>1. req' = [s \in Slots |-> Idle] /\ connOf' = [s \in Slots |-> NoConn]
    BY <1>5 DEF ProcessDies
  <2> QED BY <2>1, <1>4 DEF Loans
<1>6. CASE p # Api
  <2>1. UNCHANGED <<req, connOf>>
    BY <1>6 DEF ProcessDies
  <2>2. ConnsOf[Api] \cap ConnsOf[p] = {}
    BY <1>6, JobRunnerAssumption, AdministrationAssumption
  <2>3. \A s \in Slots : connOf[s] # NoConn => connOf[s] \in lent'
    BY <1>1, <2>2 DEF Loans
  <2> QED BY <2>1, <2>3, <1>4 DEF Loans
<1> QED BY <1>4, <1>5, <1>6

LEMMA StepKeepsPlaces ==
  ASSUME JobInv, Places, Loans, DOMAIN req = Slots, [AdminNext]_adminVars
  PROVE  Places' /\ Loans'
<1>0. Api \in Procs
  BY AdministrationAssumption
<1>1. CASE \E s \in Slots : BeginRequest(s) \/ EndRequest(s)
  BY <1>1, RequestTakesConnection, RequestReturnsConnection
<1>2. CASE \E p \in Procs : ProcessDies(p)
  BY <1>2, DeathClosesConnections
<1>3. CASE ReadRequest
  <2>1. PICK c \in Available(Api) : pool' = [pool EXCEPT ![Api] = Append(Rest(Api), c)]
    BY <1>3 DEF ReadRequest, UseOne
  <2>2. UNCHANGED <<lent, run, req, connOf>>
    BY <1>3 DEF ReadRequest, UseOne, membershipVars
  <2> QED BY <1>0, <2>1, <2>2, UseKeepsPlaces DEF Loans
<1>4. CASE \/ Trigger \/ \E p \in Procs : WorkerRun(p)
           \/ \E p \in Procs : (RunStep(p) \/ JobFault(p)) /\ UNCHANGED <<membershipVars, connOf, calls>>
  <2>1. PICK p \in Procs : StartRun(p) \/ RunStep(p) \/ JobFault(p)
    BY <1>0, <1>4 DEF Trigger, WorkerRun
  <2>2. UNCHANGED <<req, connOf>>
    BY <1>4 DEF Trigger, WorkerRun, membershipVars
  <2>3. lent' = lent
    BY <2>1 DEF StartRun, RunStep, JobFault, TryLock, InsertRow, JobReads, JobCommits, Finish,
                Unlock, TransactionBreaks, Recycle
  <2> QED BY <2>1, <2>2, <2>3, StepsOfRunsKeepPlaces DEF Loans
<1>5. CASE UNCHANGED <<jobVars, connOf>> /\ UNCHANGED req
  BY <1>5 DEF jobVars, Places, Apart, InPool, Loans
<1>6. (\E k \in Tokens : InviteExpires(k) /\ UNCHANGED <<jobVars, connOf, calls>>)
        \/ UNCHANGED adminVars => UNCHANGED <<jobVars, connOf>> /\ UNCHANGED req
  BY DEF InviteExpires, adminVars, membershipVars
<1> QED BY <1>1, <1>2, <1>3, <1>4, <1>5, <1>6 DEF AdminNext

(***************************************************************************)
(* The rows of runs, and the type invariant.                               *)
(***************************************************************************)

\* A row says running while its run works; the bounds are kept.
RowTypes ==
  /\ jobRow \in [Procs -> {"none", "running", "completed", "failed"}]
  /\ recycled \in BOOLEAN /\ faults \in 0..MaxFaults /\ calls \in 0..MaxCalls
  /\ \A p \in Procs : run[p].at = "working" => jobRow[p] = "running"

LEMMA StepKeepsRowTypes ==
  ASSUME JobInv, RowTypes, [AdminNext]_adminVars
  PROVE  RowTypes'
<1>t. run \in [Procs -> [at : {"idle", "asking", "locked", "working", "ending"},
                         conn : Conns \cup {NoConn}]]
  BY DEF JobInv, OwnConns
<1>c. calls' \in 0..MaxCalls
  BY AdministrationAssumption
  DEF RowTypes, AdminNext, BeginRequest, EndRequest, ReadRequest, Trigger, WorkerRun, ProcessDies,
      Call, adminVars
<1>1. CASE UNCHANGED <<jobRow, run, recycled, faults>>
  BY <1>1, <1>c DEF RowTypes
<1>2. ASSUME NEW p \in Procs, StartRun(p) \/ RunStep(p) \/ JobFault(p) \/ Die(p)
      PROVE  RowTypes'
  <2>f. faults' \in 0..MaxFaults
    BY <1>2, JobRunnerAssumption
    DEF RowTypes, StartRun, RunStep, JobFault, Die, TryLock, InsertRow, JobReads, JobCommits,
        Finish, Unlock, TransactionBreaks, Recycle, Fault
  <2>b. recycled' \in BOOLEAN
    BY <1>2
    DEF RowTypes, StartRun, RunStep, JobFault, Die, TryLock, InsertRow, JobReads, JobCommits,
        Finish, Unlock, TransactionBreaks, Recycle, Fault
  <2>1. CASE UNCHANGED jobRow /\ \A q \in Procs : run'[q].at = "working" => run[q].at = "working"
    BY <2>1, <2>f, <2>b, <1>c DEF RowTypes
  <2>2. CASE InsertRow(p) \/ Finish(p)
    <3>1. jobRow' \in [Procs -> {"none", "running", "completed", "failed"}]
      BY <2>2 DEF RowTypes, InsertRow, Finish
    <3>2. \A q \in Procs : run'[q].at = "working" => jobRow'[q] = "running"
      BY <2>2, <1>t DEF RowTypes, InsertRow, Finish
    <3> QED BY <3>1, <3>2, <2>f, <2>b, <1>c DEF RowTypes
  <2>3. CASE StartRun(p) \/ TryLock(p) \/ JobReads(p) \/ JobCommits(p) \/ Unlock(p)
              \/ JobFault(p) \/ Die(p)
    <3>1. \A q \in Procs : run'[q].at = "working" => run[q].at = "working"
      BY <2>3, <1>t DEF StartRun, TryLock, JobReads, JobCommits, Unlock, JobFault, Die,
                        TransactionBreaks, Recycle, NoRun
    <3>2. UNCHANGED jobRow
      BY <2>3 DEF StartRun, TryLock, JobReads, JobCommits, Unlock, JobFault, Die,
                  TransactionBreaks, Recycle
    <3> QED BY <3>1, <3>2, <2>1
  <2> QED BY <1>2, <2>2, <2>3 DEF RunStep
<1>3. CASE \E s \in Slots : BeginRequest(s) \/ EndRequest(s)
  BY <1>1, <1>3 DEF BeginRequest, EndRequest, Borrow, GiveBack
<1>4. CASE ReadRequest
  BY <1>1, <1>4 DEF ReadRequest, UseOne
<1>5. CASE UNCHANGED jobVars
  BY <1>1, <1>5 DEF jobVars
<1>6. Api \in Procs /\ (UNCHANGED adminVars => UNCHANGED jobVars)
  BY AdministrationAssumption DEF adminVars
<1> QED BY <1>2, <1>3, <1>4, <1>5, <1>6 DEF AdminNext, Trigger, WorkerRun, ProcessDies

\* A pool without repetition has as many connections as it is long.
LEMMA DistinctCounts ==
  ASSUME NEW S, NEW q \in Seq(S), Distinct(q)
  PROVE  Cardinality(Elems(q)) = Len(q)
<1>1. q \in Bijection(1..Len(q), Elems(q))
  <2>1. Len(q) \in Nat /\ DOMAIN q = 1..Len(q) /\ q \in [1..Len(q) -> Elems(q)]
    BY LenProperties DEF Elems
  <2>2. \A i, j \in 1..Len(q) : q[i] = q[j] => i = j
    BY <2>1 DEF Distinct
  <2>3. \A x \in Elems(q) : \E i \in 1..Len(q) : q[i] = x
    BY <2>1 DEF Elems
  <2> QED BY <2>1, <2>2, <2>3 DEF Bijection, Injection, Surjection, IsInjective
<1>2. IsFiniteSet(1..Len(q)) /\ Cardinality(1..Len(q)) = Len(q)
  <2> DEFINE n == Len(q)
  <2>1. n \in Nat
    BY LenProperties
  <2> HIDE DEF n
  <2>2. /\ IsFiniteSet(1..n)
        /\ Cardinality(1..n) = IF 1 > n THEN 0 ELSE n - 1 + 1
    BY <2>1, FS_Interval
  <2>3. Cardinality(1..n) = n
    BY <2>1, <2>2
  <2> QED BY <2>2, <2>3 DEF n
<1> QED BY <1>1, <1>2, FS_Bijection DEF ExistsBijection

AdminInv ==
  /\ LeagueInv /\ JobInv
  /\ MembershipTypes /\ RowTypes /\ Places /\ Loans

LEMMA AdminStart == AdminInit => AdminInv
<1> SUFFICES ASSUME AdminInit PROVE AdminInv
  OBVIOUS
<1>1. LeagueInv /\ JobInv
  BY LeagueStart, JobStart DEF AdminInit
<1>2. MembershipTypes
  BY DEF AdminInit, MembershipInit, MembershipTypes, Unsent, Invites, Reads
<1>3. RowTypes
  <2>1. 0 \in 0..MaxFaults /\ 0 \in 0..MaxCalls
    BY JobRunnerAssumption, AdministrationAssumption
  <2>2. \A p \in Procs : run[p].at = "idle"
    BY DEF AdminInit, JobInit, NoRun
  <2>3. recycled \in BOOLEAN
    BY DEF AdminInit, JobInit
  <2> QED BY <2>1, <2>2, <2>3 DEF AdminInit, JobInit, RowTypes
<1>4. Places
  BY EmptyIsApart, JobRunnerAssumption DEF AdminInit, JobInit, Places, Apart, InPool, NoRun
<1>5. Loans
  BY DEF AdminInit, MembershipInit, Loans
<1> QED BY <1>1, <1>2, <1>3, <1>4, <1>5 DEF AdminInv

LEMMA StepKeepsAdmin == AdminInv /\ [AdminNext]_adminVars => AdminInv'
BY StepKeepsLeague, StepKeepsJob, StepKeepsMembershipTypes, StepKeepsRowTypes, StepKeepsPlaces
DEF AdminInv, MembershipTypes

LEMMA InvariantGivesTypes == AdminInv => AdminTypeOK
<1> SUFFICES ASSUME AdminInv PROVE AdminTypeOK
  OBVIOUS
<1>1. MembershipTypeOK
  BY DEF AdminInv, MembershipTypes, MembershipTypeOK, LeagueInv, NothingBefore, Admissions
<1>2. \A p \in Procs : Cardinality(InPool(p)) = Len(pool[p])
  BY DistinctCounts DEF AdminInv, JobInv, OwnConns, Places, Apart, InPool, Elems
<1>3. JobTypeOK
  BY <1>2 DEF AdminInv, JobInv, OwnConns, OneHolder, RowTypes, Places, Apart, JobTypeOK
<1>4. ConnsOf[Api] \subseteq Conns
  BY ConnsAreConns, AdministrationAssumption
<1> QED BY <1>1, <1>3, <1>4 DEF AdminInv, RowTypes, Loans, AdminTypeOK

\* Every row, request and connection stays of its kind; a connection is in one
\* pool, with one run or with one request, and every request has one.
THEOREM AdminTypeCorrect == AdminSpec => []AdminTypeOK
BY AdminStart, StepKeepsAdmin, InvariantGivesTypes, PTL DEF AdminSpec
===============================================================================
