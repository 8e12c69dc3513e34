---------------------------- MODULE PortalProofs ----------------------------
(***************************************************************************)
(* Proofs about Portal for every set of users, browsers, labels, requests  *)
(* and commands, every timeout and every bound.                            *)
(***************************************************************************)
EXTENDS Portal, TLAPS

USE DEF tables, cacheVars, oauthVars, timer, history, RequireSession, StartSession, CreateUser,
        Authenticate, ReadSessionSecret

-----------------------------------------------------------------------------
(***************************************************************************)
(* What a request carries at each place of its way: whose it is, that      *)
(* somebody asked for what it is about to register, and the account row it *)
(* registered or looked up.                                                *)
(***************************************************************************)
Carries ==
  \A r \in Requests :
    /\ req[r].at # "idle" => req[r].user \in Names
    /\ req[r].at \in {"callback", "check", "add"} => req[r].label \in asked[req[r].user]
    /\ req[r].at = "remember" => req[r].acct.id # 0
    /\ req[r].at \in {"remember", "drop", "forget"} =>
         req[r].acct.user = req[r].user /\ req[r].acct.label = req[r].label
    /\ req[r].acct.id <= regs

(***************************************************************************)
(* Row ids are never used again, so a row that was dropped does not come   *)
(* back while a request still has to forget it.                            *)
(***************************************************************************)
RowsFresh ==
  /\ \A a \in accounts : a.id <= regs /\ a.user \in Names
  /\ \A r \in Requests : req[r].at = "forget" => req[r].acct \notin accounts

(***************************************************************************)
(* A CLI command's Pool is its own.                                        *)
(***************************************************************************)
CliPoolsApart ==
  \A c \in Commands, n \in Names : req[c].pool # 0 => req[c].pool # cache[n]

(***************************************************************************)
(* The parts of TenantIsolation: Pools and their owners, rows and who      *)
(* asked for them.                                                         *)
(***************************************************************************)
Owned ==
  /\ \A n \in Names : cache[n] # 0 => pools[cache[n]].owner = n
  /\ \A r \in Requests : req[r].pool # 0 => pools[req[r].pool].owner = req[r].user
  /\ \A k \in PoolIds : \A a \in pools[k].accts : a.user = pools[k].owner

Labelled == \A a \in accounts : a.label \in asked[a.user]

(***************************************************************************)
(* A pending state is one of its own, was asked for, and was never used.   *)
(***************************************************************************)
PendingUnused ==
  /\ \A p \in pending : p.state <= states /\ used[p.state] = 0 /\ p.label \in asked[p.user]
  /\ \A p, q \in pending : p.state = q.state => p = q
  /\ \A s \in 1..MaxStates : s > states => used[s] = 0

(***************************************************************************)
(* Ages against the ticker: what the last round left was young enough, and *)
(* has aged by the clock since.                                            *)
(***************************************************************************)
Young ==
  /\ \A p \in pending : p.age <= TTL + clock
  /\ \A n \in Names : cache[n] # 0 => idle[n] <= MaxIdle + clock
  /\ evictor = "sweep" => \A n \in Names : cache[n] # 0 => idle[n] <= MaxIdle
  /\ evictor = "wait" => clock < SweepEvery

PInv ==
  /\ TypeOK /\ CliNeverLogsIn /\ OneShot /\ PendingUnused /\ Young
  /\ Carries /\ RowsFresh /\ CliPoolsApart /\ TenantIsolation /\ KnownUnlessForeign

PoolType == [owner: Users, accts: SUBSET Account]
PendingType == [state: 1..MaxStates, user: Names, label: Labels, age: Nat]
ReqType == [at: Places, user: Users, pool: PoolIds \cup {0}, label: Texts, acct: Account]

-----------------------------------------------------------------------------
(* Facts about the operators the model is built from.                      *)

(***************************************************************************)
(* 0 stands for no Pool.                                                   *)
(***************************************************************************)
LEMMA NoZeroPool == 0 \notin PoolIds
BY DEF PoolIds

(***************************************************************************)
(* The initial request and the empty Pool are of their types.              *)
(***************************************************************************)
LEMMA EmptyTypes == Idle \in ReqType /\ NoPool \in PoolType /\ NoAccount \in Account
BY BoundsAssumption DEF Idle, NoPool, NoAccount, ReqType, PoolType, Account, Users, Texts, Places

(***************************************************************************)
(* The types of the variables that most steps are about.                   *)
(***************************************************************************)
LEMMA Types ==
  ASSUME TypeOK
  PROVE  /\ cache \in [Names -> PoolIds \cup {0}] /\ idle \in [Names -> Nat]
         /\ pools \in [PoolIds -> PoolType] /\ req \in [Requests -> ReqType]
         /\ pending \subseteq PendingType /\ states \in 0..MaxStates
         /\ used \in [1..MaxStates -> Nat] /\ asked \in [Names -> SUBSET Labels]
         /\ started \in 0..MaxOps /\ regs \in 0..MaxRegs /\ clock \in 0..SweepEvery
         /\ accounts \subseteq Account /\ excused \subseteq 1..MaxRegs
BY DEF TypeOK, PoolType, ReqType, PendingType

(***************************************************************************)
(* A pending state stays one when it ages.                                 *)
(***************************************************************************)
LEMMA AgedType == ASSUME NEW p \in PendingType PROVE [p EXCEPT !.age = @ + 1] \in PendingType
BY DEF PendingType

(***************************************************************************)
(* When a request ends, the Pools others refer to are those it left.       *)
(***************************************************************************)
LEMMA EndEffect ==
  ASSUME TypeOK, NEW r \in Requests, NEW ps \in [PoolIds -> PoolType], EndWith(r, ps)
  PROVE  /\ cache' = cache
         /\ req' = [req EXCEPT ![r] = Idle]
         /\ pools' \in [PoolIds -> PoolType]
         /\ \A k \in PoolIds : pools'[k] = ps[k] \/ pools'[k] = NoPool
         /\ \A n \in Names : cache[n] # 0 => pools'[cache[n]] = ps[cache[n]]
         /\ \A q \in Requests : req'[q].pool # 0 => pools'[req'[q].pool] = ps[req'[q].pool]
<1>1. cache' = cache /\ req' = [req EXCEPT ![r] = Idle]
  BY DEF EndWith, Go
<1>2. pools' = [k \in PoolIds |-> IF k \in Held(cache', req') THEN ps[k] ELSE NoPool]
  BY DEF EndWith, Collect
<1>3. req' \in [Requests -> ReqType]
  BY <1>1, EmptyTypes DEF TypeOK, ReqType
<1>4. \A n \in Names : cache[n] \in PoolIds \cup {0} /\ cache[n] \in Held(cache', req')
  BY <1>1 DEF TypeOK, Held
<1>5. \A q \in Requests : req'[q].pool \in PoolIds \cup {0} /\ req'[q].pool \in Held(cache', req')
  BY <1>3 DEF ReqType, Held
<1> QED
  BY <1>1, <1>2, <1>4, <1>5, EmptyTypes

(***************************************************************************)
(* A newly opened Pool replaces none that is in use.                       *)
(***************************************************************************)
LEMMA OpenEffect ==
  ASSUME TypeOK, NEW u \in Names, NEW k \in PoolIds, IsFresh(k), OpenPool(k, u)
  PROVE  /\ pools' \in [PoolIds -> PoolType]
         /\ pools'[k] = [owner |-> u, accts |-> AccountsOf(u)]
         /\ \A j \in PoolIds : j # k => pools'[j] = pools[j]
         /\ \A n \in Names : cache[n] # k
         /\ \A q \in Requests : req[q].pool # k
<1>1. [owner |-> u, accts |-> AccountsOf(u)] \in PoolType
  BY DEF PoolType, AccountsOf, TypeOK, Users
<1>2. k \notin Held(cache, req)
  BY DEF IsFresh
<1> QED
  BY <1>1, <1>2 DEF OpenPool, TypeOK, PoolType, Held

(***************************************************************************)
(* poolCache.get leaves the user's Pool in the cache and the others alone. *)
(***************************************************************************)
LEMMA GetPoolEffect ==
  ASSUME TypeOK, NEW u \in Names, NEW k \in PoolIds, GetPool(u, k)
  PROVE  /\ cache' = [cache EXCEPT ![u] = k]
         /\ idle' = [idle EXCEPT ![u] = 0]
         /\ pools' \in [PoolIds -> PoolType]
         /\ \A j \in PoolIds : j # k => pools'[j] = pools[j]
         /\ \A n \in Names : n # u /\ cache[n] = k => pools' = pools
         /\ \A q \in Requests : req[q].pool = k => pools' = pools /\ cache[u] = k
         /\ \/ cache[u] = k /\ pools' = pools
            \/ cache[u] = 0 /\ pools'[k] = [owner |-> u, accts |-> AccountsOf(u)]
<1>1. CASE cache[u] = k /\ k # 0 /\ idle' = [idle EXCEPT ![u] = 0] /\ UNCHANGED <<pools, cache>>
  <2>1. cache' = [cache EXCEPT ![u] = k]
    BY <1>1 DEF TypeOK
  <2> QED
    BY <1>1, <2>1 DEF TypeOK, PoolType
<1>2. CASE /\ cache[u] = 0 /\ IsFresh(k) /\ OpenPool(k, u)
           /\ cache' = [cache EXCEPT ![u] = k] /\ idle' = [idle EXCEPT ![u] = 0]
  BY <1>2, OpenEffect
<1> QED
  BY <1>1, <1>2 DEF GetPool

(***************************************************************************)
(* A step of the requests that leaves Pools and cache alone: request r     *)
(* goes on as q.                                                           *)
(***************************************************************************)
LEMMA GoEffect ==
  ASSUME TypeOK, NEW r \in Requests, NEW q \in ReqType, Go(r, q)
  PROVE  /\ req' \in [Requests -> ReqType]
         /\ req'[r] = q
         /\ \A x \in Requests : x # r => req'[x] = req[x]
BY DEF Go, TypeOK, ReqType

-----------------------------------------------------------------------------
(* Type correctness.                                                       *)

(***************************************************************************)
(* Time, the ticker and a restart keep the types.                          *)
(***************************************************************************)
LEMMA TypeKeptByTime ==
  ASSUME PInv, Tick \/ EvictIdle \/ SweepExpired \/ Restart
  PROVE  TypeOK'
<1> USE DEF PInv, TypeOK
<1>1. CASE Tick
  <2>1. clock' \in 0..SweepEvery
    BY <1>1, TimesAssumption DEF Tick, Young
  <2>2. pending' \subseteq [state: 1..MaxStates, user: Names, label: Labels, age: Nat]
    <3>1. \A p \in pending : [p EXCEPT !.age = @ + 1] \in PendingType
      BY Types, AgedType
    <3> QED
      BY <1>1, <3>1 DEF Tick, PendingType
  <2>3. idle' \in [Names -> Nat]
    BY <1>1 DEF Tick
  <2> QED
    BY <1>1, <2>1, <2>2, <2>3 DEF Tick
<1>2. CASE EvictIdle
  <2>1. pools' \in [PoolIds -> PoolType]
    BY <1>2, EmptyTypes DEF EvictIdle, Collect, PoolType
  <2>2. cache' \in [Names -> PoolIds \cup {0}] /\ idle' \in [Names -> Nat]
    BY <1>2 DEF EvictIdle
  <2> QED
    BY <1>2, <2>1, <2>2 DEF EvictIdle, PoolType
<1>3. CASE SweepExpired
  BY <1>3, TimesAssumption DEF SweepExpired
<1>4. CASE Restart
  <2>1. pools' \in [PoolIds -> PoolType]
    BY <1>4, EmptyTypes DEF Restart, Collect, PoolType
  <2>2. req' \in [Requests -> ReqType]
    BY <1>4, EmptyTypes DEF Restart, ReqType
  <2>3. session' \in [Browsers -> Users]
    BY <1>4 DEF Restart, Users
  <2> QED
    BY <1>4, <2>1, <2>2, <2>3, TimesAssumption DEF Restart, PoolType, ReqType
<1> QED
  BY <1>1, <1>2, <1>3, <1>4

(***************************************************************************)
(* So does what a browser asks for.                                        *)
(***************************************************************************)
LEMMA TypeKeptByVisit ==
  ASSUME PInv, NEW b \in Browsers, Visit(b)
  PROVE  TypeOK'
<1> USE DEF PInv
<1>0. TypeOK /\ (\A r \in Handlers \cup Commands : r \in Requests)
  BY DEF Requests
<1>t. /\ cache \in [Names -> PoolIds \cup {0}] /\ idle \in [Names -> Nat]
      /\ pending \subseteq PendingType /\ states \in 0..MaxStates
      /\ used \in [1..MaxStates -> Nat] /\ asked \in [Names -> SUBSET Labels]
      /\ started \in 0..MaxOps
  BY <1>0, Types
<1>s. ASSUME NEW r \in Requests, NEW q \in ReqType, Start(r, q)
      PROVE  req' \in [Requests -> ReqType] /\ started' \in 0..MaxOps
  <2>1. started' \in 0..MaxOps
    BY <1>t, <1>s, BoundsAssumption DEF Start
  <2>2. req' \in [Requests -> ReqType]
    BY <1>0, <1>s, GoEffect DEF Start
  <2> QED
    BY <2>1, <2>2
<1>g. ASSUME NEW u \in Names, NEW k \in PoolIds, GetPool(u, k)
      PROVE  /\ cache' \in [Names -> PoolIds \cup {0}] /\ idle' \in [Names -> Nat]
             /\ pools' \in [PoolIds -> PoolType]
  <2>1. /\ cache' = [cache EXCEPT ![u] = k] /\ idle' = [idle EXCEPT ![u] = 0]
        /\ pools' \in [PoolIds -> PoolType]
    BY <1>0, <1>g, GetPoolEffect
  <2> QED
    BY <1>t, <2>1
<1>1. ASSUME NEW n \in Names, HandleRegister(b, n) \/ HandleLogin(b, n)
      PROVE  TypeOK'
  BY <1>0, <1>1 DEF TypeOK, HandleRegister, HandleLogin, Users
<1>2. CASE HandleLogout(b)
  BY <1>0, <1>2 DEF TypeOK, HandleLogout, Users
<1>3. ASSUME NEW h \in Handlers, NEW l \in Texts, NEW place \in Places,
             Enter(h, b, place, l)
      PROVE  TypeOK'
  <2>1. session[b] \in Names
    BY <1>0, <1>3 DEF Enter, TypeOK, Users
  <2>2. PICK k \in PoolIds : /\ GetPool(session[b], k)
                             /\ Start(h, [Idle EXCEPT !.at = place, !.user = session[b],
                                                      !.pool = k, !.label = l])
    BY <1>3 DEF Enter
  <2>3. [Idle EXCEPT !.at = place, !.user = session[b], !.pool = k, !.label = l] \in ReqType
    BY <2>1, EmptyTypes DEF ReqType, Users
  <2>4. req' \in [Requests -> ReqType] /\ started' \in 0..MaxOps
    BY <1>0, <1>s, <2>2, <2>3
  <2>5. cache' \in [Names -> PoolIds \cup {0}] /\ idle' \in [Names -> Nat] /\ pools' \in [PoolIds -> PoolType]
    BY <1>g, <2>1, <2>2
  <2> QED
    BY <1>0, <1>3, <2>4, <2>5 DEF Enter, TypeOK, ReqType, PoolType
<1>4. ASSUME NEW l \in Labels, HandleConnectAccount(b, l) PROVE TypeOK'
  <2>1. session[b] \in Names
    BY <1>0, <1>4 DEF HandleConnectAccount, TypeOK, Users
  <2>2. PICK k \in PoolIds : GetPool(session[b], k)
    BY <1>4 DEF HandleConnectAccount
  <2>3. cache' \in [Names -> PoolIds \cup {0}] /\ idle' \in [Names -> Nat] /\ pools' \in [PoolIds -> PoolType]
    BY <1>g, <2>1, <2>2
  <2>4. states' \in 1..MaxStates /\ states' = states + 1
    BY <1>t, <1>4, BoundsAssumption DEF HandleConnectAccount
  <2>5. pending' \subseteq PendingType
    BY <1>t, <1>4, <2>1, <2>4 DEF HandleConnectAccount, PendingType
  <2>6. asked' \in [Names -> SUBSET Labels]
    BY <1>t, <1>4, <2>1 DEF HandleConnectAccount
  <2> QED
    BY <1>0, <1>4, <2>3, <2>4, <2>5, <2>6 DEF HandleConnectAccount, TypeOK, PoolType, PendingType
<1>5. ASSUME NEW h \in Handlers, HandleFiles(h, b) \/ \E l \in Labels : HandleRemoveAccount(h, b, l)
      PROVE  TypeOK'
  BY <1>3, <1>5 DEF HandleFiles, HandleRemoveAccount, Texts, Places
<1> QED
  BY <1>1, <1>2, <1>4, <1>5 DEF Visit

(***************************************************************************)
(* And what comes back from Google.                                        *)
(***************************************************************************)
LEMMA TypeKeptByCallback ==
  ASSUME PInv, Callback
  PROVE  TypeOK'
<1> USE DEF PInv
<1>0. TypeOK /\ (\A r \in Handlers \cup Commands : r \in Requests)
  BY DEF Requests
<1>t. /\ cache \in [Names -> PoolIds \cup {0}] /\ idle \in [Names -> Nat]
      /\ pending \subseteq PendingType /\ states \in 0..MaxStates
      /\ used \in [1..MaxStates -> Nat] /\ asked \in [Names -> SUBSET Labels]
      /\ started \in 0..MaxOps
  BY <1>0, Types
<1>s. ASSUME NEW r \in Requests, NEW q \in ReqType, Start(r, q)
      PROVE  req' \in [Requests -> ReqType] /\ started' \in 0..MaxOps
  <2>1. started' \in 0..MaxOps
    BY <1>t, <1>s, BoundsAssumption DEF Start
  <2>2. req' \in [Requests -> ReqType]
    BY <1>0, <1>s, GoEffect DEF Start
  <2> QED
    BY <2>1, <2>2
<1>g. ASSUME NEW u \in Names, NEW k \in PoolIds, GetPool(u, k)
      PROVE  /\ cache' \in [Names -> PoolIds \cup {0}] /\ idle' \in [Names -> Nat]
             /\ pools' \in [PoolIds -> PoolType]
  <2>1. /\ cache' = [cache EXCEPT ![u] = k] /\ idle' = [idle EXCEPT ![u] = 0]
        /\ pools' \in [PoolIds -> PoolType]
    BY <1>0, <1>g, GetPoolEffect
  <2> QED
    BY <1>t, <2>1
<1>1. ASSUME NEW p \in pending, RejectState(p) PROVE TypeOK'
  BY <1>0, <1>1 DEF TypeOK, RejectState
<1>2. ASSUME NEW h \in Handlers, NEW p \in pending, TakeState(h, p) PROVE TypeOK'
  <2>1. [Idle EXCEPT !.at = "callback", !.user = p.user, !.label = p.label] \in ReqType
    BY <1>0, EmptyTypes DEF TypeOK, ReqType, Users, Texts, Places
  <2>2. req' \in [Requests -> ReqType] /\ started' \in 0..MaxOps
    BY <1>0, <1>s, <1>2, <2>1 DEF TakeState
  <2>3. used' \in [1..MaxStates -> Nat]
    BY <1>t, <1>2 DEF TakeState, PendingType
  <2> QED
    BY <1>0, <1>2, <2>2, <2>3 DEF TakeState, TypeOK, ReqType
<1>3. ASSUME NEW h \in Handlers, CallbackPool(h) PROVE TypeOK'
  <2>1. req[h].user \in Names /\ req[h] \in ReqType
    BY <1>0, <1>3 DEF CallbackPool, TypeOK, Carries, ReqType
  <2>2. PICK k \in PoolIds : /\ GetPool(req[h].user, k)
                             /\ Go(h, [req[h] EXCEPT !.at = "check", !.pool = k])
    BY <1>3 DEF CallbackPool
  <2>3. [req[h] EXCEPT !.at = "check", !.pool = k] \in ReqType
    BY <2>1 DEF ReqType, Places
  <2>4. req' \in [Requests -> ReqType]
    BY <1>0, <2>2, <2>3, GoEffect
  <2>5. cache' \in [Names -> PoolIds \cup {0}] /\ idle' \in [Names -> Nat] /\ pools' \in [PoolIds -> PoolType]
    BY <1>g, <2>1, <2>2
  <2> QED
    BY <1>0, <1>3, <2>4, <2>5 DEF CallbackPool, TypeOK, ReqType, PoolType
<1> QED
  BY <1>1, <1>2, <1>3 DEF Callback

(***************************************************************************)
(* And a command until it has its Pool.                                    *)
(***************************************************************************)
LEMMA TypeKeptByCli ==
  ASSUME PInv, NEW c \in Commands, Cli(c)
  PROVE  TypeOK'
<1> USE DEF PInv
<1>0. TypeOK /\ (\A r \in Handlers \cup Commands : r \in Requests)
  BY DEF Requests
<1>t. /\ cache \in [Names -> PoolIds \cup {0}] /\ idle \in [Names -> Nat]
      /\ pending \subseteq PendingType /\ states \in 0..MaxStates
      /\ used \in [1..MaxStates -> Nat] /\ asked \in [Names -> SUBSET Labels]
      /\ started \in 0..MaxOps
  BY <1>0, Types
<1>s. ASSUME NEW r \in Requests, NEW q \in ReqType, Start(r, q)
      PROVE  req' \in [Requests -> ReqType] /\ started' \in 0..MaxOps
  <2>1. started' \in 0..MaxOps
    BY <1>t, <1>s, BoundsAssumption DEF Start
  <2>2. req' \in [Requests -> ReqType]
    BY <1>0, <1>s, GoEffect DEF Start
  <2> QED
    BY <2>1, <2>2
<1>1. ASSUME NEW n \in Names, CliResolve(c, n) PROVE TypeOK'
  <2>1. [Idle EXCEPT !.user = n, !.at = IF users[n] = "none" THEN "create" ELSE "open"] \in ReqType
    BY EmptyTypes DEF ReqType, Users, Places
  <2>2. req' \in [Requests -> ReqType] /\ started' \in 0..MaxOps
    BY <1>0, <1>s, <1>1, <2>1 DEF CliResolve
  <2> QED
    BY <1>0, <1>1, <2>2 DEF CliResolve, TypeOK, ReqType
<1>2. CASE CliCreate(c)
  <2>1. req[c].user \in Names /\ req[c] \in ReqType
    BY <1>0, <1>2 DEF CliCreate, TypeOK, Carries, ReqType
  <2>2. [req[c] EXCEPT !.at = "open"] \in ReqType
    BY <2>1 DEF ReqType, Places
  <2>3. req' \in [Requests -> ReqType]
    BY <1>0, <1>2, <2>2, GoEffect, EmptyTypes DEF CliCreate
  <2>4. users' \in [Names -> {"none", "portal", "cli"}]
    BY <1>0, <1>2 DEF CliCreate, TypeOK
  <2> QED
    BY <1>0, <1>2, <2>3, <2>4 DEF CliCreate, TypeOK, ReqType
<1>3. ASSUME NEW l \in Texts, NEW place \in {"check", "look up", "using"},
             place = "check" => l \in Labels, CliOpen(c, place, l)
      PROVE  TypeOK'
  <2>1. req[c].user \in Names /\ req[c] \in ReqType
    BY <1>0, <1>3 DEF CliOpen, TypeOK, Carries, ReqType
  <2>2. PICK k \in PoolIds : /\ IsFresh(k) /\ OpenPool(k, req[c].user)
                             /\ Go(c, [req[c] EXCEPT !.at = place, !.pool = k, !.label = l])
    BY <1>3 DEF CliOpen
  <2>3. [req[c] EXCEPT !.at = place, !.pool = k, !.label = l] \in ReqType
    BY <2>1 DEF ReqType, Places
  <2>4. req' \in [Requests -> ReqType] /\ pools' \in [PoolIds -> PoolType]
    BY <1>0, <2>1, <2>2, <2>3, GoEffect, OpenEffect
  <2>5. asked' \in [Names -> SUBSET Labels]
    BY <1>t, <1>3, <2>1 DEF CliOpen
  <2> QED
    BY <1>0, <1>3, <2>4, <2>5 DEF CliOpen, TypeOK, ReqType, PoolType
<1>4. CASE CliAdd(c) \/ CliRemove(c) \/ CliFiles(c)
  BY <1>3, <1>4 DEF CliAdd, CliRemove, CliFiles, Texts
<1> QED
  BY <1>1, <1>2, <1>4 DEF Cli

(***************************************************************************)
(* And requests and commands at work.                                      *)
(***************************************************************************)
LEMMA TypeKeptWorking ==
  ASSUME PInv, NEW r \in Requests, Work(r)
  PROVE  TypeOK'
<1> USE DEF PInv
<1>0. TypeOK /\ req[r] \in ReqType /\ pools \in [PoolIds -> PoolType]
  BY DEF TypeOK, ReqType, PoolType
<1>1. ASSUME End(r) PROVE req' \in [Requests -> ReqType] /\ pools' \in [PoolIds -> PoolType] /\ cache' = cache
  <2>1. pools' \in [PoolIds -> PoolType] /\ cache' = cache /\ req' = [req EXCEPT ![r] = Idle]
    BY <1>0, <1>1, EndEffect DEF End
  <2> QED
    BY <1>0, <2>1, Types, EmptyTypes
<1>2. ASSUME NEW q \in ReqType, Go(r, q) PROVE req' \in [Requests -> ReqType]
  BY <1>0, <1>2, GoEffect
<1>3. CASE Finish(r) \/ ConsentFails(r) \/ Abandon(r)
  <2>1. End(r) /\ UNCHANGED <<started, tables, session, idle, oauthVars, timer, history>>
    BY <1>3 DEF Finish, ConsentFails, Abandon
  <2> QED
    BY <1>0, <1>1, <2>1 DEF TypeOK, ReqType, PoolType
<1>4. CASE CheckLabel(r)
  <2>1. [req[r] EXCEPT !.at = "add"] \in ReqType
    BY <1>0 DEF ReqType, Places
  <2>2. req' \in [Requests -> ReqType] /\ pools' \in [PoolIds -> PoolType] /\ cache' = cache
    BY <1>0, <1>1, <1>2, <1>4, <2>1 DEF CheckLabel
  <2> QED
    BY <1>0, <1>4, <2>2 DEF CheckLabel, TypeOK, ReqType, PoolType
<1>5. CASE AddAccount(r)
  <2> DEFINE a == [id |-> regs + 1, user |-> req[r].user, label |-> req[r].label]
  <2>1. regs + 1 \in 1..MaxRegs /\ a \in Account
    BY <1>0, <1>5, BoundsAssumption DEF AddAccount, TypeOK, ReqType, Account
  <2>2. [req[r] EXCEPT !.at = "remember", !.acct = a] \in ReqType
    BY <1>0, <2>1 DEF ReqType, Places
  <2>3. req' \in [Requests -> ReqType] /\ pools' \in [PoolIds -> PoolType] /\ cache' = cache
    BY <1>0, <1>1, <1>2, <1>5, <2>2 DEF AddAccount
  <2>4. accounts' \subseteq Account /\ regs' \in 0..MaxRegs /\ excused' \subseteq 1..MaxRegs
    BY <1>0, <1>5, <2>1 DEF AddAccount, TypeOK
  <2> QED
    BY <1>0, <1>5, <2>3, <2>4 DEF AddAccount, TypeOK, ReqType, PoolType
<1>6. CASE RecordQuotaFails(r)
  <2>1. req[r].acct.id \in 1..MaxRegs
    <3>1. req[r].acct \in Account /\ req[r].acct.id # 0
      BY <1>0, <1>6 DEF RecordQuotaFails, Carries, ReqType
    <3> QED
      BY <3>1, BoundsAssumption DEF Account
  <2> QED
    BY <1>0, <1>1, <1>6, <2>1 DEF RecordQuotaFails, TypeOK, ReqType, PoolType
<1>7. CASE LookUp(r)
  <2>1. \A a \in accounts : [req[r] EXCEPT !.at = "drop", !.acct = a] \in ReqType
    BY <1>0 DEF ReqType, Places, TypeOK
  <2>2. req' \in [Requests -> ReqType] /\ pools' \in [PoolIds -> PoolType] /\ cache' = cache
    BY <1>0, <1>1, <1>2, <1>7, <2>1 DEF LookUp, Row, AccountsOf
  <2> QED
    BY <1>0, <1>7, <2>2 DEF LookUp, TypeOK, ReqType, PoolType
<1>8. CASE Drop(r)
  <2>1. [req[r] EXCEPT !.at = "forget"] \in ReqType
    BY <1>0 DEF ReqType, Places
  <2>2. req' \in [Requests -> ReqType] /\ pools' \in [PoolIds -> PoolType] /\ cache' = cache
    BY <1>0, <1>1, <1>2, <1>8, <2>1 DEF Drop
  <2> QED
    BY <1>0, <1>8, <2>2 DEF Drop, TypeOK, ReqType, PoolType
<1>9. ASSUME NEW S \in SUBSET Account,
             EndWith(r, [pools EXCEPT ![req[r].pool].accts = S]),
             UNCHANGED <<started, tables, session, idle, oauthVars, timer, history>>
      PROVE  TypeOK'
  <2>1. [pools EXCEPT ![req[r].pool].accts = S] \in [PoolIds -> PoolType]
    BY <1>0, <1>9 DEF PoolType
  <2>2. req' \in [Requests -> ReqType] /\ pools' \in [PoolIds -> PoolType] /\ cache' = cache
    <3>1. pools' \in [PoolIds -> PoolType] /\ cache' = cache /\ req' = [req EXCEPT ![r] = Idle]
      BY <1>0, <1>9, <2>1, EndEffect
    <3> QED
      BY <1>0, <3>1, Types, EmptyTypes
  <2> QED
    BY <1>0, <1>9, <2>2 DEF TypeOK, ReqType, PoolType
<1>10. CASE Remember(r) \/ Forget(r)
  <2>1. CASE req[r].pool \in PoolIds
    <3>1. pools[req[r].pool].accts \cup {req[r].acct} \in SUBSET Account
      BY <1>0, <2>1 DEF PoolType, ReqType
    <3>2. pools[req[r].pool].accts \ {req[r].acct} \in SUBSET Account
      BY <1>0, <2>1 DEF PoolType
    <3> QED
      BY <1>9, <1>10, <3>1, <3>2 DEF Remember, Forget
  <2>2. CASE req[r].pool \notin PoolIds
    <3>1. EndWith(r, pools)
      BY <1>0, <1>10, <2>2 DEF Remember, Forget, EndWith, Collect, PoolType
    <3> QED
      BY <1>0, <1>1, <1>10, <3>1 DEF Remember, Forget, End, TypeOK, ReqType, PoolType
  <2> QED
    BY <2>1, <2>2
<1> QED
  BY <1>3, <1>4, <1>5, <1>6, <1>7, <1>8, <1>10 DEF Work

(***************************************************************************)
(* Every step keeps the types.                                             *)
(***************************************************************************)
LEMMA TypeKept == PInv /\ Next => TypeOK'
BY TypeKeptByVisit, TypeKeptByCallback, TypeKeptWorking, TypeKeptByCli, TypeKeptByTime DEF Next

-----------------------------------------------------------------------------
(* Sessions, OAuth states and ages.                                        *)

(***************************************************************************)
(* A request at work touches neither users and sessions nor the OAuth      *)
(* states, nor which Pools are cached and for how long.                    *)
(***************************************************************************)
LEMMA WorkFrame ==
  ASSUME NEW r \in Requests, Work(r)
  PROVE  UNCHANGED <<users, session, pending, states, used, asked, cache, idle, clock, evictor>>
BY DEF Work, Finish, CheckLabel, ConsentFails, AddAccount, Remember, RecordQuotaFails, LookUp,
       Drop, Forget, Abandon, End, EndWith

(***************************************************************************)
(* Only a user with a password gets a session, and no user changes sides.  *)
(***************************************************************************)
LEMMA SessionKept == PInv /\ Next => CliNeverLogsIn'
<1> SUFFICES ASSUME PInv, Next PROVE CliNeverLogsIn'
  OBVIOUS
<1>0. /\ TypeOK /\ CliNeverLogsIn
      /\ users \in [Names -> {"none", "portal", "cli"}] /\ session \in [Browsers -> Users]
  BY DEF PInv, TypeOK
<1>1. ASSUME NEW b \in Browsers, Visit(b) PROVE CliNeverLogsIn'
  <2>1. ASSUME NEW n \in Names, HandleRegister(b, n) PROVE CliNeverLogsIn'
    BY <1>0, <2>1 DEF HandleRegister, CliNeverLogsIn, Users
  <2>2. ASSUME NEW n \in Names, HandleLogin(b, n) PROVE CliNeverLogsIn'
    BY <1>0, <2>2 DEF HandleLogin, CliNeverLogsIn, Users
  <2>3. CASE HandleLogout(b)
    BY <1>0, <2>3 DEF HandleLogout, CliNeverLogsIn
  <2>4. ASSUME NEW l \in Labels, HandleConnectAccount(b, l) PROVE CliNeverLogsIn'
    BY <1>0, <2>4 DEF HandleConnectAccount, CliNeverLogsIn
  <2>5. ASSUME NEW h \in Handlers, NEW place, NEW l, Enter(h, b, place, l) PROVE CliNeverLogsIn'
    BY <1>0, <2>5 DEF Enter, CliNeverLogsIn
  <2>6. ASSUME NEW h \in Handlers, HandleFiles(h, b) \/ \E l \in Labels : HandleRemoveAccount(h, b, l)
        PROVE  CliNeverLogsIn'
    BY <2>5, <2>6 DEF HandleFiles, HandleRemoveAccount
  <2> QED
    BY <1>1, <2>1, <2>2, <2>3, <2>4, <2>6 DEF Visit
<1>2. CASE Callback
  <2>1. UNCHANGED <<users, session>>
    BY <1>2 DEF Callback, RejectState, TakeState, CallbackPool
  <2> QED
    BY <1>0, <2>1 DEF CliNeverLogsIn
<1>3. ASSUME NEW r \in Requests, Work(r) PROVE CliNeverLogsIn'
  BY <1>0, <1>3, WorkFrame DEF CliNeverLogsIn
<1>4. ASSUME NEW c \in Commands, Cli(c) PROVE CliNeverLogsIn'
  <2>1. CASE CliCreate(c)
    BY <1>0, <2>1 DEF CliCreate, CliNeverLogsIn, Users
  <2>2. CASE UNCHANGED <<users, session>>
    BY <1>0, <2>2 DEF CliNeverLogsIn
  <2> QED
    BY <1>4, <2>1, <2>2 DEF Cli, CliResolve, CliAdd, CliRemove, CliFiles, CliOpen
<1>5. CASE Tick \/ EvictIdle \/ SweepExpired \/ Restart
  BY <1>0, <1>5 DEF Tick, EvictIdle, SweepExpired, Restart, CliNeverLogsIn
<1> QED
  BY <1>1, <1>2, <1>3, <1>4, <1>5 DEF Next

(***************************************************************************)
(* A state is used by the callback that deletes it, and by no other.       *)
(***************************************************************************)
LEMMA StatesKept == PInv /\ Next => OneShot' /\ PendingUnused'
<1> SUFFICES ASSUME PInv, Next PROVE OneShot' /\ PendingUnused'
  OBVIOUS
<1>0. TypeOK /\ OneShot /\ PendingUnused
  BY DEF PInv
<1>t. /\ pending \subseteq PendingType /\ states \in 0..MaxStates
      /\ used \in [1..MaxStates -> Nat] /\ asked \in [Names -> SUBSET Labels]
  BY <1>0, Types
<1>u. ASSUME UNCHANGED <<states, used, asked>>, pending' \subseteq pending
      PROVE  OneShot' /\ PendingUnused'
  BY <1>0, <1>u DEF OneShot, PendingUnused
<1>1. ASSUME NEW b \in Browsers, Visit(b) PROVE OneShot' /\ PendingUnused'
  <2>1. ASSUME NEW l \in Labels, HandleConnectAccount(b, l) PROVE OneShot' /\ PendingUnused'
    <3>1. session[b] \in Names
      BY <1>0, <2>1 DEF TypeOK, HandleConnectAccount, Users
    <3>2. /\ states + 1 \in 1..MaxStates /\ states' = states + 1 /\ used' = used
          /\ pending' = pending \cup
               {[state |-> states + 1, user |-> session[b], label |-> l, age |-> 0]}
          /\ asked' = [asked EXCEPT ![session[b]] = @ \cup {l}]
      BY <1>t, <2>1, BoundsAssumption DEF HandleConnectAccount
    <3>3. \A p \in pending : p.state \in 1..MaxStates /\ p.user \in Names /\ p.state < states + 1
      BY <1>0, <1>t DEF PendingType, PendingUnused
    <3>4. OneShot'
      BY <1>0, <3>2 DEF OneShot
    <3>5. \A p \in pending' : p.label \in asked'[p.user]
      BY <1>0, <1>t, <3>1, <3>2, <3>3 DEF PendingUnused
    <3>6. \A p \in pending' : p.state <= states' /\ used'[p.state] = 0
      BY <1>0, <1>t, <3>2, <3>3 DEF PendingUnused
    <3>7. \A p, q \in pending' : p.state = q.state => p = q
      BY <1>0, <1>t, <3>2, <3>3 DEF PendingUnused
    <3>8. \A x \in 1..MaxStates : x > states' => used'[x] = 0
      BY <1>0, <1>t, <3>2 DEF PendingUnused
    <3> QED
      BY <3>4, <3>5, <3>6, <3>7, <3>8 DEF PendingUnused
  <2>2. CASE UNCHANGED <<states, used, asked, pending>>
    BY <1>u, <2>2
  <2> QED
    BY <1>1, <2>1, <2>2 DEF Visit, HandleRegister, HandleLogin, HandleLogout, HandleFiles,
       HandleRemoveAccount, Enter
<1>2. ASSUME NEW p \in pending, RejectState(p) PROVE OneShot' /\ PendingUnused'
  BY <1>u, <1>2 DEF RejectState
<1>3. ASSUME NEW h \in Handlers, NEW p \in pending, TakeState(h, p) PROVE OneShot' /\ PendingUnused'
  <2>1. /\ pending' = pending \ {p} /\ used' = [used EXCEPT ![p.state] = @ + 1]
        /\ UNCHANGED <<states, asked>>
    BY <1>3 DEF TakeState
  <2>2. p.state \in 1..MaxStates /\ used[p.state] = 0 /\ p.state <= states
    BY <1>0, <1>t DEF PendingType, PendingUnused
  <2>3. used'[p.state] = 1 /\ \A x \in 1..MaxStates : x # p.state => used'[x] = used[x]
    BY <1>t, <2>1, <2>2
  <2>4. \A q \in pending' : q \in pending /\ q.state \in 1..MaxStates /\ q.state # p.state
    BY <1>0, <1>t, <2>1 DEF PendingType, PendingUnused
  <2>5. OneShot'
    BY <1>0, <2>3 DEF OneShot
  <2>6. PendingUnused'
    BY <1>0, <1>t, <2>1, <2>2, <2>3, <2>4 DEF PendingUnused
  <2> QED
    BY <2>5, <2>6
<1>4. ASSUME NEW h \in Handlers, CallbackPool(h) PROVE OneShot' /\ PendingUnused'
  BY <1>u, <1>4 DEF CallbackPool
<1>5. ASSUME NEW r \in Requests, Work(r) PROVE OneShot' /\ PendingUnused'
  BY <1>u, <1>5, WorkFrame
<1>6. ASSUME NEW c \in Commands, Cli(c) PROVE OneShot' /\ PendingUnused'
  <2>1. UNCHANGED <<states, used, pending>>
    BY <1>6 DEF Cli, CliResolve, CliCreate, CliAdd, CliRemove, CliFiles, CliOpen
  <2>2. CASE UNCHANGED asked
    BY <1>u, <2>1, <2>2
  <2>3. ASSUME NEW l \in Labels, CliOpen(c, "check", l) PROVE OneShot' /\ PendingUnused'
    <3>1. \A n \in Names : asked[n] \subseteq asked'[n]
      BY <1>t, <2>3 DEF CliOpen
    <3>2. \A p \in pending : p.user \in Names
      BY <1>t DEF PendingType
    <3> QED
      BY <1>0, <2>1, <3>1, <3>2 DEF OneShot, PendingUnused
  <2> QED
    BY <1>6, <2>2, <2>3 DEF Cli, CliResolve, CliCreate, CliAdd, CliRemove, CliFiles, CliOpen
<1>7. CASE Tick
  <2>1. /\ pending' = {[p EXCEPT !.age = @ + 1] : p \in pending}
        /\ UNCHANGED <<states, used, asked>>
    BY <1>7 DEF Tick
  <2>2. \A q \in pending' : \E p \in pending :
          /\ q = [p EXCEPT !.age = @ + 1]
          /\ q.state = p.state /\ q.user = p.user /\ q.label = p.label
    BY <1>t, <2>1 DEF PendingType
  <2>3. OneShot'
    BY <1>0, <2>1 DEF OneShot
  <2>4. \A p, q \in pending' : p.state = q.state => p = q
    BY <1>0, <2>2 DEF PendingUnused
  <2>5. \A p \in pending' : p.state <= states' /\ used'[p.state] = 0 /\ p.label \in asked'[p.user]
    BY <1>0, <2>1, <2>2 DEF PendingUnused
  <2> QED
    BY <1>0, <2>1, <2>3, <2>4, <2>5 DEF PendingUnused
<1>8. CASE EvictIdle \/ SweepExpired \/ Restart
  BY <1>u, <1>8 DEF EvictIdle, SweepExpired, Restart
<1> QED
  BY <1>1, <1>2, <1>3, <1>4, <1>5, <1>6, <1>7, <1>8 DEF Next, Callback

(***************************************************************************)
(* Nothing gets older than the ticker allows.                              *)
(***************************************************************************)
LEMMA YoungKept == PInv /\ Next => Young'
<1> SUFFICES ASSUME PInv, Next PROVE Young'
  OBVIOUS
<1>0. TypeOK /\ Young /\ TTL \in Nat /\ MaxIdle \in Nat /\ SweepEvery \in Nat \ {0}
  BY TimesAssumption DEF PInv
<1>t. /\ pending \subseteq PendingType /\ cache \in [Names -> PoolIds \cup {0}]
      /\ idle \in [Names -> Nat] /\ clock \in 0..SweepEvery
  BY <1>0, Types
<1>a. \A p \in pending : p.age \in Nat
  BY <1>t DEF PendingType
<1>u. ASSUME UNCHANGED <<cache, idle, clock, evictor>>, pending' \subseteq pending PROVE Young'
  BY <1>0, <1>u DEF Young
<1>g. ASSUME NEW u \in Names, NEW k \in PoolIds, GetPool(u, k), UNCHANGED <<clock, evictor>>,
             \A p \in pending' : p \in pending \/ p.age = 0
      PROVE  Young'
  <2>1. cache' = [cache EXCEPT ![u] = k] /\ idle' = [idle EXCEPT ![u] = 0]
    BY <1>0, <1>g, GetPoolEffect
  <2>2. \A n \in Names : idle'[n] = 0 \/ (cache'[n] = cache[n] /\ idle'[n] = idle[n])
    BY <1>t, <2>1
  <2>3. clock' = clock /\ evictor' = evictor
    BY <1>g
  <2> QED
    BY <1>0, <1>t, <1>g, <2>2, <2>3 DEF Young
<1>1. ASSUME NEW b \in Browsers, Visit(b) PROVE Young'
  <2>1. ASSUME NEW l \in Labels, HandleConnectAccount(b, l) PROVE Young'
    <3>1. session[b] \in Names
      BY <1>0, <2>1 DEF TypeOK, HandleConnectAccount, Users
    <3>2. \A p \in pending' : p \in pending \/ p.age = 0
      BY <2>1 DEF HandleConnectAccount
    <3> QED
      BY <1>g, <2>1, <3>1, <3>2 DEF HandleConnectAccount
  <2>2. ASSUME NEW h \in Handlers, NEW place, NEW l, Enter(h, b, place, l) PROVE Young'
    <3>1. session[b] \in Names
      BY <1>0, <2>2 DEF TypeOK, Enter, Users
    <3>2. UNCHANGED <<pending, clock, evictor>> /\ \E k \in PoolIds : GetPool(session[b], k)
      BY <2>2 DEF Enter
    <3> QED
      BY <1>g, <3>1, <3>2
  <2>3. CASE UNCHANGED <<cache, idle, clock, evictor, pending>>
    BY <1>u, <2>3
  <2>4. CASE HandleLogout(b) \/ \E n \in Names : HandleRegister(b, n) \/ HandleLogin(b, n)
    BY <2>3, <2>4 DEF HandleRegister, HandleLogin, HandleLogout
  <2>5. ASSUME NEW h \in Handlers, HandleFiles(h, b) \/ \E l \in Labels : HandleRemoveAccount(h, b, l)
        PROVE  Young'
    BY <2>2, <2>5 DEF HandleFiles, HandleRemoveAccount
  <2> QED
    BY <1>1, <2>1, <2>4, <2>5 DEF Visit
<1>2. ASSUME NEW p \in pending, RejectState(p) PROVE Young'
  BY <1>u, <1>2 DEF RejectState
<1>3. ASSUME NEW h \in Handlers, NEW p \in pending, TakeState(h, p) PROVE Young'
  BY <1>u, <1>3 DEF TakeState
<1>4. ASSUME NEW h \in Handlers, CallbackPool(h) PROVE Young'
  <2>1. h \in Requests /\ req[h].user \in Names
    BY <1>4 DEF CallbackPool, PInv, Carries, Requests
  <2>2. UNCHANGED <<pending, clock, evictor>> /\ \E k \in PoolIds : GetPool(req[h].user, k)
    BY <1>4 DEF CallbackPool
  <2> QED
    BY <1>g, <2>1, <2>2
<1>5. ASSUME NEW r \in Requests, Work(r) PROVE Young'
  BY <1>u, <1>5, WorkFrame
<1>6. ASSUME NEW c \in Commands, Cli(c) PROVE Young'
  BY <1>u, <1>6 DEF Cli, CliResolve, CliCreate, CliAdd, CliRemove, CliFiles, CliOpen
<1>7. CASE Tick
  <2>1. /\ clock' = clock + 1 /\ clock < SweepEvery /\ evictor' # "sweep"
        /\ evictor' = "wait" => clock + 1 # SweepEvery
        /\ cache' = cache
        /\ pending' = {[p EXCEPT !.age = @ + 1] : p \in pending}
        /\ idle' = [n \in Names |-> IF cache[n] = 0 THEN 0 ELSE idle[n] + 1]
    BY <1>0, <1>7 DEF Tick, Young
  <2>2. \A q \in pending' : \E p \in pending : q.age = p.age + 1
    BY <1>t, <2>1 DEF PendingType
  <2>3. \A q \in pending' : q.age <= TTL + clock'
    BY <1>0, <1>t, <1>a, <2>1, <2>2 DEF Young
  <2>4. \A n \in Names : cache'[n] # 0 => idle'[n] <= MaxIdle + clock'
    BY <1>0, <1>t, <2>1 DEF Young
  <2>5. evictor' = "wait" => clock' < SweepEvery
    BY <1>0, <1>t, <2>1
  <2> QED
    BY <2>1, <2>3, <2>4, <2>5 DEF Young
<1>8. CASE EvictIdle
  <2>1. /\ cache' = [n \in Names |-> IF idle[n] > MaxIdle THEN 0 ELSE cache[n]]
        /\ idle' = [n \in Names |-> IF idle[n] > MaxIdle THEN 0 ELSE idle[n]]
        /\ UNCHANGED <<pending, clock>> /\ evictor' = "sweep"
    BY <1>8 DEF EvictIdle
  <2>2. \A n \in Names : cache'[n] # 0 => idle'[n] <= MaxIdle
    BY <1>0, <1>t, <2>1
  <2>3. \A n \in Names : cache'[n] # 0 => idle'[n] <= MaxIdle + clock'
    BY <1>0, <1>t, <2>1, <2>2
  <2> QED
    BY <1>0, <2>1, <2>2, <2>3 DEF Young
<1>9. CASE SweepExpired
  <2>1. /\ pending' = {p \in pending : p.age <= TTL} /\ evictor = "sweep"
        /\ clock' = 0 /\ evictor' = "wait" /\ UNCHANGED <<cache, idle>>
    BY <1>9 DEF SweepExpired
  <2> QED
    BY <1>0, <1>t, <1>a, <2>1 DEF Young
<1>10. CASE Restart
  <2>1. /\ pending' = {} /\ clock' = 0 /\ evictor' = "wait" /\ cache' = [n \in Names |-> 0]
    BY <1>10 DEF Restart
  <2> QED
    BY <1>0, <2>1 DEF Young
<1> QED
  BY <1>1, <1>2, <1>3, <1>4, <1>5, <1>6, <1>7, <1>8, <1>9, <1>10 DEF Next, Callback

-----------------------------------------------------------------------------
(* Requests and account rows.                                              *)

(***************************************************************************)
(* What a request carries stays true while others register and drop rows.  *)
(***************************************************************************)
LEMMA RequestsKept == PInv /\ Next => Carries' /\ RowsFresh'
<1> SUFFICES ASSUME PInv, Next PROVE Carries' /\ RowsFresh'
  OBVIOUS
<1>0. TypeOK /\ Carries /\ RowsFresh
  BY DEF PInv
<1>t. /\ req \in [Requests -> ReqType] /\ regs \in Nat /\ accounts \subseteq Account
      /\ asked \in [Names -> SUBSET Labels] /\ pending \subseteq PendingType
  BY <1>0, Types
<1>i. \A r \in Requests : req[r].acct.id \in Int /\ req[r].user \in Users
  BY <1>t, BoundsAssumption DEF ReqType, Account
<1>n. Idle.at = "idle" /\ Idle.acct.id = 0 /\ Idle.pool = 0
  BY DEF Idle, NoAccount
<1>z. 0 <= regs
  BY <1>t
<1>u. ASSUME UNCHANGED <<req, accounts, regs>>, \A n \in Names : asked[n] \subseteq asked'[n]
      PROVE  Carries' /\ RowsFresh'
  BY <1>0, <1>u DEF Carries, RowsFresh
<1>g. ASSUME NEW r \in Requests, NEW q \in ReqType, req' = [req EXCEPT ![r] = q],
             UNCHANGED regs, accounts' \subseteq accounts,
             \A n \in Names : asked[n] \subseteq asked'[n],
             q.at # "idle" => q.user \in Names,
             q.at \in {"callback", "check", "add"} => q.label \in asked'[q.user],
             q.at # "remember",
             q.at \in {"drop", "forget"} => q.acct.user = q.user /\ q.acct.label = q.label,
             q.acct.id <= regs,
             q.at = "forget" => q.acct \notin accounts'
      PROVE  Carries' /\ RowsFresh'
  <2>1. req'[r] = q /\ \A x \in Requests : x # r => req'[x] = req[x]
    BY <1>t, <1>g
  <2>2. Carries'
    BY <1>0, <1>g, <2>1 DEF Carries
  <2>3. RowsFresh'
    BY <1>0, <1>g, <2>1 DEF RowsFresh
  <2> QED
    BY <2>2, <2>3
<1>e. ASSUME NEW r \in Requests, req' = [req EXCEPT ![r] = Idle],
             UNCHANGED <<regs, asked>>, accounts' \subseteq accounts
      PROVE  Carries' /\ RowsFresh'
  <2>1. Idle.acct.id <= regs /\ Idle \in ReqType
    BY <1>n, <1>z, EmptyTypes
  <2>2. \A n \in Names : asked[n] \subseteq asked'[n]
    BY <1>e
  <2> QED
    BY <1>e, <1>g, <1>n, <2>1, <2>2
<1>1. ASSUME NEW b \in Browsers, Visit(b) PROVE Carries' /\ RowsFresh'
  <2>1. ASSUME NEW l \in Labels, HandleConnectAccount(b, l) PROVE Carries' /\ RowsFresh'
    BY <1>t, <1>u, <2>1 DEF HandleConnectAccount
  <2>2. ASSUME NEW h \in Handlers, NEW place \in {"using", "look up"}, NEW l \in Texts,
               Enter(h, b, place, l)
        PROVE  Carries' /\ RowsFresh'
    <3>1. session[b] \in Names /\ h \in Requests
      BY <1>0, <2>2 DEF TypeOK, Enter, Users, Requests
    <3>2. PICK k \in PoolIds : req' = [req EXCEPT ![h] =
            [Idle EXCEPT !.at = place, !.user = session[b], !.pool = k, !.label = l]]
      BY <2>2 DEF Enter, Start, Go
    <3> DEFINE q == [Idle EXCEPT !.at = place, !.user = session[b], !.pool = k, !.label = l]
    <3>3. q \in ReqType /\ q.at = place /\ q.user = session[b] /\ q.acct.id = 0
      BY <1>n, <3>1, EmptyTypes DEF ReqType, Places, Users
    <3>4. UNCHANGED <<regs, accounts, asked>>
      BY <2>2 DEF Enter
    <3>5. q.acct.id <= regs /\ (\A n \in Names : asked[n] \subseteq asked'[n])
      BY <1>z, <3>3, <3>4
    <3>6. req' = [req EXCEPT ![h] = q]
      BY <3>2
    <3> HIDE DEF q
    <3> QED
      BY <1>g, <3>1, <3>3, <3>4, <3>5, <3>6
  <2>3. CASE HandleLogout(b) \/ \E n \in Names : HandleRegister(b, n) \/ HandleLogin(b, n)
    BY <1>u, <2>3 DEF HandleRegister, HandleLogin, HandleLogout
  <2>4. ASSUME NEW h \in Handlers, HandleFiles(h, b) \/ \E l \in Labels : HandleRemoveAccount(h, b, l)
        PROVE  Carries' /\ RowsFresh'
    BY <2>2, <2>4 DEF HandleFiles, HandleRemoveAccount, Texts
  <2> QED
    BY <1>1, <2>1, <2>3, <2>4 DEF Visit
<1>2. ASSUME NEW p \in pending, RejectState(p) PROVE Carries' /\ RowsFresh'
  BY <1>u, <1>2 DEF RejectState
<1>3. ASSUME NEW h \in Handlers, NEW p \in pending, TakeState(h, p) PROVE Carries' /\ RowsFresh'
  <2> DEFINE q == [Idle EXCEPT !.at = "callback", !.user = p.user, !.label = p.label]
  <2>1. p.user \in Names /\ p.label \in Labels /\ p.label \in asked[p.user] /\ h \in Requests
    BY <1>t DEF PendingType, PInv, PendingUnused, Requests
  <2>2. /\ q \in ReqType /\ q.at = "callback" /\ q.user = p.user /\ q.label = p.label
        /\ q.acct.id = 0
    BY <1>n, <2>1, EmptyTypes DEF ReqType, Places, Users, Texts
  <2>3. req' = [req EXCEPT ![h] = q] /\ UNCHANGED <<regs, accounts, asked>>
    BY <1>3 DEF TakeState, Start, Go
  <2>4. q.acct.id <= regs /\ (\A n \in Names : asked[n] \subseteq asked'[n])
    BY <1>z, <2>2, <2>3
  <2> HIDE DEF q
  <2> QED
    BY <1>g, <2>1, <2>2, <2>3, <2>4
<1>4. ASSUME NEW h \in Handlers, CallbackPool(h) PROVE Carries' /\ RowsFresh'
  <2>1. h \in Requests /\ req[h].at = "callback" /\ req[h] \in ReqType
    BY <1>4, <1>t DEF CallbackPool, Requests
  <2>2. PICK k \in PoolIds : req' = [req EXCEPT ![h] = [req[h] EXCEPT !.at = "check", !.pool = k]]
    BY <1>4 DEF CallbackPool, Go
  <2> DEFINE q == [req[h] EXCEPT !.at = "check", !.pool = k]
  <2>3. /\ q \in ReqType /\ q.at = "check" /\ q.user = req[h].user /\ q.label = req[h].label
        /\ q.acct = req[h].acct
    BY <2>1 DEF ReqType, Places
  <2>4. UNCHANGED <<regs, accounts, asked>>
    BY <1>4 DEF CallbackPool
  <2>5. /\ req[h].user \in Names /\ req[h].label \in asked[req[h].user]
        /\ req[h].acct.id <= regs
    BY <1>0, <2>1 DEF Carries
  <2> HIDE DEF q
  <2> QED
    BY <1>g, <2>1, <2>2, <2>3, <2>4, <2>5 DEF q
<1>5. ASSUME NEW r \in Requests, Work(r) PROVE Carries' /\ RowsFresh'
  <2>0. req[r] \in ReqType /\ UNCHANGED asked
    BY <1>5, <1>t, WorkFrame
  <2>c. /\ req[r].at # "idle" => req[r].user \in Names
        /\ req[r].at \in {"callback", "check", "add"} => req[r].label \in asked[req[r].user]
        /\ req[r].acct.id <= regs
    BY <1>0 DEF Carries
  <2>1. CASE Finish(r) \/ ConsentFails(r) \/ Abandon(r) \/ Remember(r) \/ Forget(r) \/ RecordQuotaFails(r)
    <3>1. req' = [req EXCEPT ![r] = Idle] /\ UNCHANGED <<regs, accounts>>
      BY <2>1 DEF Finish, ConsentFails, Abandon, Remember, Forget, RecordQuotaFails, End, EndWith, Go
    <3> QED
      BY <1>e, <2>0, <3>1
  <2>2. CASE CheckLabel(r)
    <3> DEFINE q == [req[r] EXCEPT !.at = "add"]
    <3>1. UNCHANGED <<regs, accounts>> /\ req[r].at = "check"
      BY <2>2 DEF CheckLabel
    <3>2. req' = [req EXCEPT ![r] = Idle] \/ req' = [req EXCEPT ![r] = q]
      BY <2>2 DEF CheckLabel, End, EndWith, Go
    <3>3. /\ q \in ReqType /\ q.at = "add" /\ q.user = req[r].user /\ q.label = req[r].label
          /\ q.acct = req[r].acct
      BY <2>0 DEF ReqType, Places
    <3> HIDE DEF q
    <3> QED
      BY <1>e, <1>g, <2>0, <2>c, <3>1, <3>2, <3>3
  <2>3. CASE AddAccount(r)
    <3> DEFINE a == [id |-> regs + 1, user |-> req[r].user, label |-> req[r].label]
               q == [req[r] EXCEPT !.at = "remember", !.acct = a]
    <3>1. CASE req' = [req EXCEPT ![r] = Idle] /\ UNCHANGED <<regs, accounts>>
      BY <1>e, <2>0, <3>1
    <3>2. CASE accounts' = accounts \cup {a} /\ regs' = regs + 1 /\ req' = [req EXCEPT ![r] = q]
      <4>1. req'[r] = q /\ \A x \in Requests : x # r => req'[x] = req[x]
        BY <1>t, <3>2
      <4>2. q.at = "remember" /\ q.user = req[r].user /\ q.label = req[r].label /\ q.acct = a
        BY <2>0 DEF ReqType
      <4>3. a.id = regs + 1 /\ a.user = req[r].user /\ a.label = req[r].label
        OBVIOUS
      <4>4. req[r].at # "idle"
        BY <2>3 DEF AddAccount
      <4> HIDE DEF a, q
      <4>5. Carries'
        BY <1>0, <1>t, <1>i, <2>0, <2>c, <3>2, <4>1, <4>2, <4>3, <4>4 DEF Carries
      <4>6. \A b \in accounts : b.id \in Int /\ b.id <= regs
        BY <1>0, <1>t, BoundsAssumption DEF RowsFresh, Account
      <4>7. \A x \in Requests : req'[x].at = "forget" => x # r /\ req[x].acct \notin accounts /\ req[x].acct # a
        BY <1>0, <1>t, <1>i, <4>1, <4>2, <4>3 DEF RowsFresh, Carries
      <4>8. RowsFresh'
        BY <1>0, <1>t, <2>c, <3>2, <4>1, <4>3, <4>4, <4>6, <4>7 DEF RowsFresh
      <4> QED
        BY <4>5, <4>8
    <3> QED
      BY <2>3, <3>1, <3>2 DEF AddAccount, End, EndWith, Go
  <2>4. CASE LookUp(r)
    <3>1. UNCHANGED <<regs, accounts>> /\ req[r].at = "look up"
      BY <2>4 DEF LookUp
    <3>2. CASE req' = [req EXCEPT ![r] = Idle]
      BY <1>e, <2>0, <3>1, <3>2
    <3>3. ASSUME NEW a \in Row(req[r].user, req[r].label),
                 req' = [req EXCEPT ![r] = [req[r] EXCEPT !.at = "drop", !.acct = a]]
          PROVE  Carries' /\ RowsFresh'
      <4> DEFINE q == [req[r] EXCEPT !.at = "drop", !.acct = a]
      <4>1. a \in accounts /\ a.user = req[r].user /\ a.label = req[r].label /\ a.id <= regs
        BY <1>0, <3>3 DEF Row, AccountsOf, RowsFresh
      <4>2. /\ q \in ReqType /\ q.at = "drop" /\ q.user = req[r].user /\ q.label = req[r].label
            /\ q.acct = a
        BY <1>t, <2>0, <4>1 DEF ReqType, Places
      <4> HIDE DEF q
      <4> QED
        BY <1>g, <2>0, <2>c, <3>1, <3>3, <4>1, <4>2 DEF q
    <3> QED
      BY <2>4, <3>2, <3>3 DEF LookUp, End, EndWith, Go
  <2>5. CASE Drop(r)
    <3> DEFINE q == [req[r] EXCEPT !.at = "forget"]
    <3>1. /\ req[r].at = "drop" /\ regs' = regs
          /\ accounts' = accounts \ Row(req[r].user, req[r].label)
      BY <2>5 DEF Drop
    <3>2. req' = [req EXCEPT ![r] = Idle] \/ req' = [req EXCEPT ![r] = q]
      BY <2>5 DEF Drop, End, EndWith, Go
    <3>3. /\ q \in ReqType /\ q.at = "forget" /\ q.user = req[r].user /\ q.label = req[r].label
          /\ q.acct = req[r].acct
      BY <2>0 DEF ReqType, Places
    <3>4. req[r].acct.user = req[r].user /\ req[r].acct.label = req[r].label
      BY <1>0, <3>1 DEF Carries
    <3>5. req[r].acct \notin accounts'
      BY <3>1, <3>4 DEF Row, AccountsOf
    <3> HIDE DEF q
    <3> QED
      BY <1>e, <1>g, <2>0, <2>c, <3>1, <3>2, <3>3, <3>4, <3>5
  <2> QED
    BY <1>5, <2>1, <2>2, <2>3, <2>4, <2>5 DEF Work
<1>6. ASSUME NEW c \in Commands, Cli(c) PROVE Carries' /\ RowsFresh'
  <2>0. c \in Requests /\ req[c] \in ReqType /\ UNCHANGED <<accounts, regs>>
    BY <1>6, <1>t DEF Requests, Cli, CliResolve, CliCreate, CliAdd, CliRemove, CliFiles, CliOpen
  <2>1. ASSUME NEW n \in Names, CliResolve(c, n) PROVE Carries' /\ RowsFresh'
    <3> DEFINE q == [Idle EXCEPT !.user = n, !.at = IF users[n] = "none" THEN "create" ELSE "open"]
    <3>1. q \in ReqType /\ q.at \in {"create", "open"} /\ q.user = n /\ q.acct.id = 0
      BY <1>n, EmptyTypes DEF ReqType, Users, Places
    <3>2. req' = [req EXCEPT ![c] = q] /\ UNCHANGED asked
      BY <2>1 DEF CliResolve, Start, Go
    <3>3. q.acct.id <= regs /\ (\A x \in Names : asked[x] \subseteq asked'[x])
      BY <1>z, <3>1, <3>2
    <3> HIDE DEF q
    <3> QED
      BY <1>g, <2>0, <3>1, <3>2, <3>3
  <2>2. CASE CliCreate(c)
    <3> DEFINE q == [req[c] EXCEPT !.at = "open"]
    <3>1. q \in ReqType /\ q.at = "open" /\ q.user = req[c].user /\ q.acct = req[c].acct
      BY <2>0 DEF ReqType, Places
    <3>2. UNCHANGED asked /\ req[c].at = "create"
      BY <2>2 DEF CliCreate
    <3>3. req' = [req EXCEPT ![c] = Idle] \/ req' = [req EXCEPT ![c] = q]
      BY <2>2 DEF CliCreate, Go
    <3>4. req[c].user \in Names /\ req[c].acct.id <= regs
      BY <1>0, <2>0, <3>2 DEF Carries
    <3> HIDE DEF q
    <3> QED
      BY <1>e, <1>g, <2>0, <3>1, <3>2, <3>3, <3>4
  <2>3. ASSUME NEW place \in {"check", "look up", "using"}, NEW l \in Texts, CliOpen(c, place, l)
        PROVE  Carries' /\ RowsFresh'
    <3>1. PICK k \in PoolIds : req' = [req EXCEPT ![c] = [req[c] EXCEPT !.at = place, !.pool = k, !.label = l]]
      BY <2>3 DEF CliOpen, Go
    <3> DEFINE q == [req[c] EXCEPT !.at = place, !.pool = k, !.label = l]
    <3>2. q \in ReqType /\ q.at = place /\ q.user = req[c].user /\ q.acct = req[c].acct /\ q.label = l
      BY <2>0 DEF ReqType, Places
    <3>3. req[c].user \in Names /\ req[c].acct.id <= regs
      BY <1>0, <2>0, <2>3 DEF Carries, CliOpen
    <3>4. /\ \A n \in Names : asked[n] \subseteq asked'[n]
          /\ place = "check" => l \in asked'[req[c].user]
      BY <1>t, <2>3, <3>3 DEF CliOpen
    <3> HIDE DEF q
    <3> QED
      BY <1>g, <2>0, <3>1, <3>2, <3>3, <3>4 DEF q
  <2>4. CASE CliAdd(c) \/ CliRemove(c) \/ CliFiles(c)
    BY <2>3, <2>4 DEF CliAdd, CliRemove, CliFiles, Texts
  <2> QED
    BY <1>6, <2>1, <2>2, <2>4 DEF Cli
<1>7. CASE Tick \/ EvictIdle \/ SweepExpired
  BY <1>u, <1>7 DEF Tick, EvictIdle, SweepExpired
<1>8. CASE Restart
  <2>1. /\ \A x \in Requests : req'[x] = Idle \/ req'[x] = req[x]
        /\ UNCHANGED <<regs, accounts, asked>>
    BY <1>8 DEF Restart
  <2> QED
    BY <1>0, <1>n, <1>t, <2>1 DEF Carries, RowsFresh
<1> QED
  BY <1>1, <1>2, <1>3, <1>4, <1>5, <1>6, <1>7, <1>8 DEF Next, Callback

-----------------------------------------------------------------------------
(* Pools.                                                                  *)

(***************************************************************************)
(* The cache never hands out the Pool of a command, nor a command that of  *)
(* the cache.                                                              *)
(***************************************************************************)
LEMMA PoolsApartKept == PInv /\ Next => CliPoolsApart'
<1> SUFFICES ASSUME PInv, Next PROVE CliPoolsApart'
  OBVIOUS
<1>0. TypeOK /\ CliPoolsApart /\ (\A c \in Commands : c \in Requests /\ c \notin Handlers)
  BY ActorsAssumption DEF PInv, Requests
<1>t. /\ req \in [Requests -> ReqType] /\ cache \in [Names -> PoolIds \cup {0}]
  BY <1>0, Types
<1>n. Idle.pool = 0 /\ Idle \in ReqType
  BY EmptyTypes DEF Idle
<1>u. ASSUME \A n \in Names : cache'[n] = cache[n] \/ cache'[n] = 0,
             \A c \in Commands : req'[c].pool = req[c].pool \/ req'[c].pool = 0
      PROVE  CliPoolsApart'
  BY <1>0, <1>u DEF CliPoolsApart
<1>e. ASSUME NEW r \in Requests, Go(r, Idle), UNCHANGED cache PROVE CliPoolsApart'
  <2>1. \A c \in Commands : req'[c].pool = req[c].pool \/ req'[c].pool = 0
    BY <1>0, <1>t, <1>n, <1>e DEF Go
  <2> QED
    BY <1>e, <1>u, <2>1
<1>p. ASSUME NEW u \in Names, NEW k \in PoolIds, GetPool(u, k),
             \A c \in Commands : req'[c] = req[c]
      PROVE  CliPoolsApart'
  <2>0. TypeOK /\ GetPool(u, k)
    BY <1>0, <1>p
  <2>1. /\ cache' = [cache EXCEPT ![u] = k]
        /\ \A q \in Requests : req[q].pool = k => pools' = pools /\ cache[u] = k
    BY <2>0, GetPoolEffect
  <2>2. \A n \in Names : cache'[n] = IF n = u THEN k ELSE cache[n]
    BY <1>t, <2>1
  <2>3. k # 0
    BY NoZeroPool
  <2> QED
    BY <1>0, <1>p, <2>1, <2>2, <2>3 DEF CliPoolsApart
<1>h. ASSUME NEW h \in Handlers, NEW q, Go(h, q) PROVE \A c \in Commands : req'[c] = req[c]
  BY <1>0, <1>t, <1>h DEF Go
<1>1. ASSUME NEW b \in Browsers, Visit(b) PROVE CliPoolsApart'
  <2>1. ASSUME NEW l \in Labels, HandleConnectAccount(b, l) PROVE CliPoolsApart'
    <3>1. session[b] \in Names
      BY <1>0, <2>1 DEF TypeOK, HandleConnectAccount, Users
    <3>2. PICK k \in PoolIds : GetPool(session[b], k) /\ UNCHANGED req
      BY <2>1 DEF HandleConnectAccount
    <3> QED
      BY <1>p, <3>1, <3>2
  <2>2. ASSUME NEW h \in Handlers, NEW place, NEW l, Enter(h, b, place, l) PROVE CliPoolsApart'
    <3>1. session[b] \in Names
      BY <1>0, <2>2 DEF TypeOK, Enter, Users
    <3>2. PICK k \in PoolIds : /\ GetPool(session[b], k)
                               /\ \E q : Go(h, q)
      BY <2>2 DEF Enter, Start
    <3>3. \A c \in Commands : req'[c] = req[c]
      BY <1>h, <3>2
    <3> QED
      BY <1>p, <3>1, <3>2, <3>3
  <2>3. CASE HandleLogout(b) \/ \E n \in Names : HandleRegister(b, n) \/ HandleLogin(b, n)
    BY <1>u, <2>3 DEF HandleRegister, HandleLogin, HandleLogout
  <2>4. ASSUME NEW h \in Handlers, HandleFiles(h, b) \/ \E l \in Labels : HandleRemoveAccount(h, b, l)
        PROVE  CliPoolsApart'
    BY <2>2, <2>4 DEF HandleFiles, HandleRemoveAccount
  <2> QED
    BY <1>1, <2>1, <2>3, <2>4 DEF Visit
<1>2. ASSUME NEW p \in pending, RejectState(p) PROVE CliPoolsApart'
  BY <1>u, <1>2 DEF RejectState
<1>3. ASSUME NEW h \in Handlers, NEW p \in pending, TakeState(h, p) PROVE CliPoolsApart'
  <2>1. \A c \in Commands : req'[c] = req[c]
    BY <1>h, <1>3 DEF TakeState, Start
  <2> QED
    BY <1>u, <1>3, <2>1 DEF TakeState
<1>4. ASSUME NEW h \in Handlers, CallbackPool(h) PROVE CliPoolsApart'
  <2>1. h \in Requests /\ req[h].user \in Names
    BY <1>4 DEF CallbackPool, PInv, Carries, Requests
  <2>2. PICK k \in PoolIds : GetPool(req[h].user, k) /\ \E q : Go(h, q)
    BY <1>4 DEF CallbackPool
  <2>3. \A c \in Commands : req'[c] = req[c]
    BY <1>h, <2>2
  <2> QED
    BY <1>p, <2>1, <2>2, <2>3
<1>5. ASSUME NEW r \in Requests, Work(r) PROVE CliPoolsApart'
  <2>0. req[r] \in ReqType
    BY <1>t
  <2>1. CASE \E ps : EndWith(r, ps)
    BY <1>e, <2>1 DEF EndWith
  <2>2. ASSUME NEW q, Go(r, q), UNCHANGED cache, q.pool = req[r].pool PROVE CliPoolsApart'
    <3>1. \A c \in Commands : req'[c].pool = req[c].pool
      BY <1>0, <1>t, <2>2 DEF Go
    <3> QED
      BY <2>2, <1>u, <3>1
  <2>3. CASE Finish(r) \/ ConsentFails(r) \/ Abandon(r) \/ Remember(r) \/ Forget(r) \/ RecordQuotaFails(r)
    BY <2>1, <2>3 DEF Finish, ConsentFails, Abandon, Remember, Forget, RecordQuotaFails, End
  <2>4. CASE CheckLabel(r)
    <3>1. [req[r] EXCEPT !.at = "add"].pool = req[r].pool
      BY <2>0 DEF ReqType
    <3> QED
      BY <2>1, <2>2, <2>4, <3>1 DEF CheckLabel, End
  <2>5. CASE AddAccount(r)
    <3>1. \A a : [req[r] EXCEPT !.at = "remember", !.acct = a].pool = req[r].pool
      BY <2>0 DEF ReqType
    <3> QED
      BY <2>1, <2>2, <2>5, <3>1 DEF AddAccount, End
  <2>6. CASE LookUp(r)
    <3>1. \A a : [req[r] EXCEPT !.at = "drop", !.acct = a].pool = req[r].pool
      BY <2>0 DEF ReqType
    <3> QED
      BY <2>1, <2>2, <2>6, <3>1 DEF LookUp, End
  <2>7. CASE Drop(r)
    <3>1. [req[r] EXCEPT !.at = "forget"].pool = req[r].pool
      BY <2>0 DEF ReqType
    <3> QED
      BY <2>1, <2>2, <2>7, <3>1 DEF Drop, End
  <2> QED
    BY <1>5, <2>3, <2>4, <2>5, <2>6, <2>7 DEF Work
<1>6. ASSUME NEW c \in Commands, Cli(c) PROVE CliPoolsApart'
  <2>0. c \in Requests /\ req[c] \in ReqType
    BY <1>0, <1>t
  <2>1. ASSUME NEW n \in Names, CliResolve(c, n) PROVE CliPoolsApart'
    <3>1. \A x, y : [Idle EXCEPT !.user = x, !.at = y].pool = 0
      BY DEF Idle
    <3>2. \A x \in Commands : req'[x].pool = req[x].pool \/ req'[x].pool = 0
      BY <1>0, <1>t, <2>1, <3>1 DEF CliResolve, Start, Go
    <3> QED
      BY <1>u, <2>1, <3>2 DEF CliResolve
  <2>2. CASE CliCreate(c)
    <3>1. [req[c] EXCEPT !.at = "open"].pool = req[c].pool
      BY <2>0 DEF ReqType
    <3>2. req' = [req EXCEPT ![c] = Idle] \/ req' = [req EXCEPT ![c] = [req[c] EXCEPT !.at = "open"]]
      BY <2>2 DEF CliCreate, Go
    <3>3. \A x \in Commands : req'[x].pool = req[x].pool \/ req'[x].pool = 0
      BY <1>0, <1>n, <1>t, <3>1, <3>2
    <3> QED
      BY <1>u, <2>2, <3>3 DEF CliCreate
  <2>3. ASSUME NEW place, NEW l, CliOpen(c, place, l) PROVE CliPoolsApart'
    <3>1. PICK k \in PoolIds : /\ IsFresh(k)
                               /\ req' = [req EXCEPT ![c] = [req[c] EXCEPT !.at = place, !.pool = k, !.label = l]]
      BY <2>3 DEF CliOpen, Go
    <3>2. \A n \in Names : cache[n] # k
      BY <3>1 DEF IsFresh, Held
    <3>3. \A x \in Commands : req'[x].pool = req[x].pool \/ req'[x].pool = k
      BY <1>0, <1>t, <2>0, <3>1 DEF ReqType
    <3>4. UNCHANGED cache
      BY <2>3 DEF CliOpen
    <3> QED
      BY <1>0, <3>2, <3>3, <3>4 DEF CliPoolsApart
  <2>4. CASE CliAdd(c) \/ CliRemove(c) \/ CliFiles(c)
    BY <2>3, <2>4 DEF CliAdd, CliRemove, CliFiles
  <2> QED
    BY <1>6, <2>1, <2>2, <2>4 DEF Cli
<1>7. CASE Tick \/ SweepExpired
  BY <1>u, <1>7 DEF Tick, SweepExpired
<1>8. CASE EvictIdle
  <2>1. \A n \in Names : cache'[n] = cache[n] \/ cache'[n] = 0
    BY <1>8 DEF EvictIdle
  <2> QED
    BY <1>u, <1>8, <2>1 DEF EvictIdle
<1>9. CASE Restart
  <2>1. \A n \in Names : cache'[n] = 0
    BY <1>9 DEF Restart
  <2>2. \A c \in Commands : req'[c].pool = req[c].pool
    BY <1>0, <1>9 DEF Restart
  <2> QED
    BY <1>u, <2>1, <2>2
<1> QED
  BY <1>1, <1>2, <1>3, <1>4, <1>5, <1>6, <1>7, <1>8, <1>9 DEF Next, Callback

(***************************************************************************)
(* A request that ends takes no Pool from anyone, and no account from a    *)
(* Pool whose user still has it.                                           *)
(***************************************************************************)
LEMMA EndKeeps ==
  ASSUME PInv, NEW r \in Requests, NEW ps \in [PoolIds -> PoolType], EndWith(r, ps),
         accounts' \subseteq accounts, excused \subseteq excused',
         \A k \in PoolIds : ps[k].owner = pools[k].owner,
         \A k \in PoolIds : \A a \in ps[k].accts : a.user = ps[k].owner,
         \A k \in PoolIds : \A a \in pools[k].accts : a \in accounts' => a \in ps[k].accts,
         req[r].at = "remember" => \/ req[r].acct.id \in excused'
                                   \/ r \in Commands
                                   \/ req[r].pool # 0 => req[r].acct \in ps[req[r].pool].accts
  PROVE  Owned' /\ KnownUnlessForeign'
<1>0. TypeOK /\ Owned /\ KnownUnlessForeign /\ CliPoolsApart
  BY DEF PInv, TenantIsolation, Owned
<1>t. /\ req \in [Requests -> ReqType] /\ cache \in [Names -> PoolIds \cup {0}]
  BY <1>0, Types
<1>n. Idle.pool = 0 /\ NoPool.accts = {}
  BY DEF Idle, NoPool
<1>1. /\ cache' = cache
      /\ req' = [req EXCEPT ![r] = Idle]
      /\ \A k \in PoolIds : pools'[k] = ps[k] \/ pools'[k] = NoPool
      /\ \A n \in Names : cache[n] # 0 => pools'[cache[n]] = ps[cache[n]]
      /\ \A q \in Requests : req'[q].pool # 0 => pools'[req'[q].pool] = ps[req'[q].pool]
  BY <1>0, EndEffect
<1>2. req'[r] = Idle /\ \A q \in Requests : q # r => req'[q] = req[q]
  BY <1>1, <1>t
<1>3. \A n \in Names : cache[n] # 0 => cache[n] \in PoolIds
  BY <1>t
<1>4. \A q \in Requests : req[q].pool # 0 => req[q].pool \in PoolIds
  BY <1>t DEF ReqType
<1>5. Owned'
  <2>1. \A n \in Names : cache'[n] # 0 => pools'[cache'[n]].owner = n
    BY <1>0, <1>1, <1>3 DEF Owned
  <2>2. \A q \in Requests : req'[q].pool # 0 => pools'[req'[q].pool].owner = req'[q].user
    BY <1>0, <1>1, <1>2, <1>4, <1>n DEF Owned
  <2>3. \A k \in PoolIds : \A a \in pools'[k].accts : a.user = pools'[k].owner
    BY <1>1, <1>n
  <2> QED
    BY <2>1, <2>2, <2>3 DEF Owned
<1>6. ASSUME NEW n \in Names, cache'[n] # 0, NEW a \in AccountsOf(n)'
      PROVE  \/ a \in pools'[cache'[n]].accts
             \/ a.id \in excused'
             \/ \E x \in Requests : req'[x].at = "remember" /\ req'[x].acct = a /\ req'[x].pool = cache'[n]
  <2>1. a \in accounts' /\ a \in AccountsOf(n) /\ cache[n] # 0 /\ cache'[n] = cache[n] /\ cache[n] \in PoolIds
    BY <1>1, <1>3, <1>6 DEF AccountsOf
  <2>2. CASE a \in pools[cache[n]].accts
    BY <1>1, <2>1, <2>2
  <2>3. CASE a.id \in excused
    BY <2>3
  <2>4. ASSUME NEW x \in Requests, req[x].at = "remember", req[x].acct = a, req[x].pool = cache[n]
        PROVE  \/ a \in pools'[cache'[n]].accts
               \/ a.id \in excused'
               \/ \E y \in Requests : req'[y].at = "remember" /\ req'[y].acct = a /\ req'[y].pool = cache'[n]
    <3>1. CASE x # r
      BY <1>2, <2>1, <2>4, <3>1
    <3>2. CASE x = r
      <4>1. r \notin Commands
        BY <1>0, <2>1, <2>4, <3>2 DEF CliPoolsApart
      <4>2. req[r].acct.id \in excused' \/ req[r].acct \in ps[req[r].pool].accts
        BY <2>1, <2>4, <3>2, <4>1
      <4> QED
        BY <1>1, <2>1, <2>4, <3>2, <4>2
    <3> QED
      BY <3>1, <3>2
  <2> QED
    BY <1>0, <2>1, <2>2, <2>3, <2>4 DEF KnownUnlessForeign
<1> QED
  BY <1>5, <1>6 DEF KnownUnlessForeign

(***************************************************************************)
(* A request that goes on with the Pool it has.                            *)
(***************************************************************************)
LEMMA GoKeeps ==
  ASSUME PInv, UNCHANGED <<pools, cache>>, accounts' \subseteq accounts, excused \subseteq excused',
         \A x \in Requests : \/ req'[x] = req[x]
                             \/ /\ req[x].at # "remember"
                                /\ req'[x].pool = 0 \/ (req'[x].pool = req[x].pool /\ req'[x].user = req[x].user)
  PROVE  Owned' /\ KnownUnlessForeign'
<1>0. Owned /\ KnownUnlessForeign
  BY DEF PInv, TenantIsolation, Owned
<1>1. Owned'
  BY <1>0 DEF Owned
<1>2. KnownUnlessForeign'
  BY <1>0 DEF KnownUnlessForeign, AccountsOf
<1> QED
  BY <1>1, <1>2

(***************************************************************************)
(* A request that gets its user's Pool from the cache.                     *)
(***************************************************************************)
LEMMA GetPoolKeeps ==
  ASSUME PInv, NEW u \in Names, NEW k \in PoolIds, GetPool(u, k), UNCHANGED <<accounts, excused>>,
         \A x \in Requests : \/ req'[x] = req[x]
                             \/ req[x].at # "remember" /\ req'[x].pool = k /\ req'[x].user = u
  PROVE  Owned' /\ KnownUnlessForeign'
<1>0. TypeOK /\ Owned /\ KnownUnlessForeign
  BY DEF PInv, TenantIsolation, Owned
<1>t. req \in [Requests -> ReqType] /\ cache \in [Names -> PoolIds \cup {0}]
  BY <1>0, Types
<1>1. /\ cache' = [cache EXCEPT ![u] = k]
      /\ \A j \in PoolIds : j # k => pools'[j] = pools[j]
      /\ \A n \in Names : n # u /\ cache[n] = k => pools' = pools
      /\ \A q \in Requests : req[q].pool = k => pools' = pools /\ cache[u] = k
      /\ \/ cache[u] = k /\ pools' = pools
         \/ cache[u] = 0 /\ pools'[k] = [owner |-> u, accts |-> AccountsOf(u)]
  BY <1>0, GetPoolEffect
<1>2. k # 0
  BY NoZeroPool
<1>3. cache'[u] = k /\ \A n \in Names : n # u => cache'[n] = cache[n]
  BY <1>t, <1>1
<1>4. \A n \in Names : cache[n] # 0 => cache[n] \in PoolIds
  BY <1>t
<1>5. \A q \in Requests : req[q].pool # 0 => req[q].pool \in PoolIds
  BY <1>t DEF ReqType
<1>6. pools'[k].owner = u /\ \A a \in pools'[k].accts : a.user = u
  BY <1>0, <1>1, <1>2 DEF Owned, AccountsOf
<1>7. \A n \in Names : n # u /\ cache[n] # 0 => pools'[cache[n]] = pools[cache[n]]
  BY <1>1, <1>4
<1>8. \A q \in Requests : req[q].pool # 0 => pools'[req[q].pool] = pools[req[q].pool]
  BY <1>1, <1>5
<1>9. Owned'
  <2>1. \A n \in Names : cache'[n] # 0 => pools'[cache'[n]].owner = n
    BY <1>0, <1>3, <1>6, <1>7 DEF Owned
  <2>2. \A q \in Requests : req'[q].pool # 0 => pools'[req'[q].pool].owner = req'[q].user
    BY <1>0, <1>6, <1>8 DEF Owned
  <2>3. \A j \in PoolIds : \A a \in pools'[j].accts : a.user = pools'[j].owner
    BY <1>0, <1>1, <1>6 DEF Owned
  <2> QED
    BY <2>1, <2>2, <2>3 DEF Owned
<1>10. ASSUME NEW n \in Names, cache'[n] # 0, NEW a \in AccountsOf(n)'
       PROVE  \/ a \in pools'[cache'[n]].accts
              \/ a.id \in excused'
              \/ \E x \in Requests : req'[x].at = "remember" /\ req'[x].acct = a /\ req'[x].pool = cache'[n]
  <2>1. a \in AccountsOf(n)
    BY <1>10 DEF AccountsOf
  <2>2. CASE n = u /\ cache[u] = 0
    BY <1>1, <1>2, <1>3, <2>1, <2>2
  <2>3. CASE cache[n] # 0 /\ cache'[n] = cache[n] /\ pools'[cache[n]] = pools[cache[n]]
    BY <1>0, <2>1, <2>3 DEF KnownUnlessForeign
  <2> QED
    BY <1>1, <1>2, <1>3, <1>7, <1>10, <2>2, <2>3
<1> QED
  BY <1>9, <1>10 DEF KnownUnlessForeign

(***************************************************************************)
(* A command that opens a Pool of its own.                                 *)
(***************************************************************************)
LEMMA OpenKeeps ==
  ASSUME PInv, NEW u \in Names, NEW k \in PoolIds, IsFresh(k), OpenPool(k, u),
         UNCHANGED <<cache, accounts, excused>>,
         \A x \in Requests : \/ req'[x] = req[x]
                             \/ req[x].at # "remember" /\ req'[x].pool = k /\ req'[x].user = u
  PROVE  Owned' /\ KnownUnlessForeign'
<1>0. TypeOK /\ Owned /\ KnownUnlessForeign
  BY DEF PInv, TenantIsolation, Owned
<1>t. req \in [Requests -> ReqType] /\ cache \in [Names -> PoolIds \cup {0}]
  BY <1>0, Types
<1>1. /\ pools'[k] = [owner |-> u, accts |-> AccountsOf(u)]
      /\ \A j \in PoolIds : j # k => pools'[j] = pools[j]
      /\ \A n \in Names : cache[n] # k
      /\ \A q \in Requests : req[q].pool # k
  BY <1>0, OpenEffect
<1>2. \A n \in Names : cache[n] # 0 => pools'[cache[n]] = pools[cache[n]]
  BY <1>t, <1>1
<1>3. \A q \in Requests : req[q].pool # 0 => pools'[req[q].pool] = pools[req[q].pool]
  BY <1>t, <1>1 DEF ReqType
<1>4. pools'[k].owner = u /\ \A a \in pools'[k].accts : a.user = u
  BY <1>1 DEF AccountsOf
<1>5. Owned'
  BY <1>0, <1>1, <1>2, <1>3, <1>4 DEF Owned
<1>6. KnownUnlessForeign'
  BY <1>0, <1>2 DEF KnownUnlessForeign, AccountsOf
<1> QED
  BY <1>5, <1>6

(***************************************************************************)
(* Eviction and restart: entries and requests may go, and with them the    *)
(* Pools only they referred to.                                            *)
(***************************************************************************)
LEMMA CollectKeeps ==
  ASSUME PInv, pools' = Collect(pools), UNCHANGED <<accounts, excused>>,
         \A n \in Names : cache'[n] = cache[n] \/ cache'[n] = 0,
         \A x \in Requests : req'[x] = req[x] \/ (req'[x] = Idle /\ \A n \in Names : cache'[n] = 0)
  PROVE  Owned' /\ KnownUnlessForeign'
<1>0. TypeOK /\ Owned /\ KnownUnlessForeign
  BY DEF PInv, TenantIsolation, Owned
<1>t. req \in [Requests -> ReqType] /\ cache \in [Names -> PoolIds \cup {0}]
  BY <1>0, Types
<1>n. Idle.pool = 0 /\ NoPool.accts = {}
  BY DEF Idle, NoPool
<1>1. pools' = [k \in PoolIds |-> IF k \in Held(cache', req') THEN pools[k] ELSE NoPool]
  BY DEF Collect
<1>2. \A n \in Names : cache'[n] # 0 => cache'[n] = cache[n] /\ pools'[cache'[n]] = pools[cache[n]]
  BY <1>t, <1>1 DEF Held
<1>3. \A q \in Requests : req'[q].pool # 0 => req'[q] = req[q] /\ pools'[req'[q].pool] = pools[req[q].pool]
  <2>1. \A q \in Requests : req'[q].pool # 0 => req'[q] = req[q] /\ req[q].pool \in PoolIds
    BY <1>t, <1>n DEF ReqType
  <2> QED
    BY <1>1, <2>1 DEF Held
<1>4. \A k \in PoolIds : \A a \in pools'[k].accts : a.user = pools'[k].owner
  BY <1>0, <1>1, <1>n DEF Owned
<1>5. Owned'
  BY <1>0, <1>2, <1>3, <1>4 DEF Owned
<1>6. KnownUnlessForeign'
  BY <1>0, <1>2 DEF KnownUnlessForeign, AccountsOf
<1> QED
  BY <1>5, <1>6

(***************************************************************************)
(* A row is registered only for a label its user asked to connect.         *)
(***************************************************************************)
LEMMA LabelledKept == PInv /\ Next => Labelled'
<1> SUFFICES ASSUME PInv, Next PROVE Labelled'
  OBVIOUS
<1>0. TypeOK /\ Labelled /\ RowsFresh /\ Carries
  BY DEF PInv, TenantIsolation, Labelled
<1>t. asked \in [Names -> SUBSET Labels]
  BY <1>0, Types
<1>u. ASSUME accounts' \subseteq accounts, \A n \in Names : asked[n] \subseteq asked'[n] PROVE Labelled'
  BY <1>0, <1>u DEF Labelled, RowsFresh
<1>1. ASSUME NEW b \in Browsers, Visit(b) PROVE Labelled'
  <2>1. ASSUME NEW l \in Labels, HandleConnectAccount(b, l) PROVE Labelled'
    BY <1>t, <1>u, <2>1 DEF HandleConnectAccount
  <2>2. CASE UNCHANGED <<accounts, asked>>
    BY <1>u, <2>2
  <2> QED
    BY <1>1, <2>1, <2>2 DEF Visit, HandleRegister, HandleLogin, HandleLogout, HandleFiles,
       HandleRemoveAccount, Enter
<1>2. CASE Callback
  BY <1>u, <1>2 DEF Callback, RejectState, TakeState, CallbackPool
<1>3. ASSUME NEW r \in Requests, Work(r) PROVE Labelled'
  <2>1. UNCHANGED asked
    BY <1>3, WorkFrame
  <2>2. CASE accounts' \subseteq accounts
    BY <1>u, <2>1, <2>2
  <2>3. CASE AddAccount(r)
    <3>1. req[r].label \in asked[req[r].user]
      BY <1>0, <2>3 DEF AddAccount, Carries
    <3>2. CASE accounts' = accounts \cup {[id |-> regs + 1, user |-> req[r].user, label |-> req[r].label]}
      BY <1>0, <2>1, <3>1, <3>2 DEF Labelled
    <3> QED
      BY <2>2, <2>3, <3>2 DEF AddAccount
  <2> QED
    BY <1>3, <2>2, <2>3 DEF Work, Finish, CheckLabel, ConsentFails, Remember, RecordQuotaFails,
       LookUp, Drop, Forget, Abandon
<1>4. ASSUME NEW c \in Commands, Cli(c) PROVE Labelled'
  <2>1. UNCHANGED accounts
    BY <1>4 DEF Cli, CliResolve, CliCreate, CliAdd, CliRemove, CliFiles, CliOpen
  <2>2. CASE UNCHANGED asked
    BY <1>u, <2>1, <2>2
  <2>3. ASSUME NEW l \in Labels, CliOpen(c, "check", l) PROVE Labelled'
    <3>1. \A n \in Names : asked[n] \subseteq asked'[n]
      BY <1>t, <2>3 DEF CliOpen
    <3> QED
      BY <1>u, <2>1, <3>1
  <2> QED
    BY <1>4, <2>2, <2>3 DEF Cli, CliResolve, CliCreate, CliAdd, CliRemove, CliFiles, CliOpen
<1>5. CASE Tick \/ EvictIdle \/ SweepExpired \/ Restart
  BY <1>u, <1>5 DEF Tick, EvictIdle, SweepExpired, Restart
<1> QED
  BY <1>1, <1>2, <1>3, <1>4, <1>5 DEF Next

(***************************************************************************)
(* A request's own step: it ends, goes on with its Pool, registers a row,  *)
(* or tells its Pool.                                                      *)
(***************************************************************************)
LEMMA PoolsKeptByWork ==
  ASSUME PInv, NEW r \in Requests, Work(r)
  PROVE  Owned' /\ KnownUnlessForeign'
<1>0. TypeOK /\ Owned /\ KnownUnlessForeign /\ Carries /\ RowsFresh
  BY DEF PInv, TenantIsolation, Owned
<1>t. /\ req \in [Requests -> ReqType] /\ cache \in [Names -> PoolIds \cup {0}]
      /\ pools \in [PoolIds -> PoolType]
  BY <1>0, Types
<1>r. req[r] \in ReqType
  BY <1>t
<1>o. \A k \in PoolIds : \A a \in pools[k].accts : a.user = pools[k].owner
  BY <1>0 DEF Owned
<1>e. ASSUME End(r), accounts' \subseteq accounts, excused \subseteq excused',
             req[r].at = "remember" => req[r].acct.id \in excused' \/ r \in Commands
      PROVE  Owned' /\ KnownUnlessForeign'
  BY <1>e, <1>t, <1>o, EndKeeps DEF End
<1>g. ASSUME NEW q, Go(r, q), UNCHANGED <<pools, cache>>, accounts' \subseteq accounts,
             excused \subseteq excused', req[r].at # "remember",
             q.pool = req[r].pool, q.user = req[r].user
      PROVE  Owned' /\ KnownUnlessForeign'
  <2>1. \A x \in Requests : req'[x] = IF x = r THEN q ELSE req[x]
    BY <1>g, <1>t DEF Go
  <2>2. \A x \in Requests : \/ req'[x] = req[x]
                            \/ /\ req[x].at # "remember"
                               /\ req'[x].pool = 0 \/ (req'[x].pool = req[x].pool /\ req'[x].user = req[x].user)
    BY <1>g, <2>1
  <2> QED
    BY <1>g, <2>2, GoKeeps
<1>1. CASE Finish(r) \/ ConsentFails(r)
  BY <1>1, <1>e DEF Finish, ConsentFails
<1>2. CASE Abandon(r)
  BY <1>2, <1>e DEF Abandon
<1>3. CASE RecordQuotaFails(r)
  BY <1>3, <1>e DEF RecordQuotaFails
<1>4. CASE CheckLabel(r)
  <2>1. /\ [req[r] EXCEPT !.at = "add"].pool = req[r].pool
        /\ [req[r] EXCEPT !.at = "add"].user = req[r].user
    BY <1>r DEF ReqType
  <2> QED
    BY <1>4, <1>e, <1>g, <2>1 DEF CheckLabel
<1>5. CASE LookUp(r)
  <2>1. \A a : /\ [req[r] EXCEPT !.at = "drop", !.acct = a].pool = req[r].pool
               /\ [req[r] EXCEPT !.at = "drop", !.acct = a].user = req[r].user
    BY <1>r DEF ReqType
  <2> QED
    BY <1>5, <1>e, <1>g, <2>1 DEF LookUp
<1>6. CASE Drop(r)
  <2>1. /\ [req[r] EXCEPT !.at = "forget"].pool = req[r].pool
        /\ [req[r] EXCEPT !.at = "forget"].user = req[r].user
    BY <1>r DEF ReqType
  <2> QED
    BY <1>6, <1>e, <1>g, <2>1 DEF Drop
<1>7. CASE AddAccount(r)
  <2> DEFINE a == [id |-> regs + 1, user |-> req[r].user, label |-> req[r].label]
             q == [req[r] EXCEPT !.at = "remember", !.acct = a]
  <2>1. CASE End(r) /\ UNCHANGED <<accounts, regs, excused>>
    BY <1>7, <1>e, <2>1 DEF AddAccount
  <2>2. CASE /\ accounts' = accounts \cup {a}
             /\ excused' = IF req[r].pool = cache[req[r].user] THEN excused ELSE excused \cup {a.id}
             /\ Go(r, q) /\ UNCHANGED <<pools, cache>>
    <3>1. q.at = "remember" /\ q.acct = a /\ q.pool = req[r].pool /\ q.user = req[r].user
      BY <1>r DEF ReqType
    <3>2. a.user = req[r].user
      OBVIOUS
    <3> HIDE DEF a, q
    <3>3. \A x \in Requests : req'[x] = IF x = r THEN q ELSE req[x]
      BY <1>t, <2>2 DEF Go
    <3>4. req[r].at # "remember"
      BY <1>7 DEF AddAccount
    <3>5. Owned'
      BY <1>0, <2>2, <3>1, <3>3 DEF Owned
    <3>6. ASSUME NEW n \in Names, cache'[n] # 0, NEW b \in AccountsOf(n)'
          PROVE  \/ b \in pools'[cache'[n]].accts
                 \/ b.id \in excused'
                 \/ \E x \in Requests : req'[x].at = "remember" /\ req'[x].acct = b /\ req'[x].pool = cache'[n]
      <4>1. CASE b = a
        <5>1. n = req[r].user /\ cache' = cache
          BY <2>2, <3>2, <3>6, <4>1 DEF AccountsOf
        <5>2. CASE req[r].pool = cache[n]
          BY <3>1, <3>3, <4>1, <5>1, <5>2
        <5>3. CASE req[r].pool # cache[n]
          BY <2>2, <4>1, <5>1, <5>3
        <5> QED
          BY <5>2, <5>3
      <4>2. CASE b \in AccountsOf(n)
        BY <1>0, <2>2, <3>3, <3>4, <3>6, <4>2 DEF KnownUnlessForeign
      <4> QED
        BY <2>2, <3>6, <4>1, <4>2 DEF AccountsOf
    <3> QED
      BY <3>5, <3>6 DEF KnownUnlessForeign
  <2> QED
    BY <1>7, <2>1, <2>2 DEF AddAccount
<1>8. CASE Remember(r)
  <2> DEFINE ps == [pools EXCEPT ![req[r].pool].accts = @ \cup {req[r].acct}]
  <2>1. /\ EndWith(r, ps) /\ req[r].at = "remember" /\ UNCHANGED <<accounts, excused>>
    BY <1>8 DEF Remember
  <2>2. req[r].acct \in Account /\ req[r].acct.user = req[r].user
    BY <1>0, <1>r, <2>1 DEF Carries, ReqType
  <2>3. req[r].pool \in PoolIds => pools[req[r].pool].owner = req[r].user
    BY <1>0, NoZeroPool DEF Owned
  <2>4. /\ ps \in [PoolIds -> PoolType]
        /\ \A k \in PoolIds : ps[k].owner = pools[k].owner
        /\ \A k \in PoolIds : ps[k].accts = IF k = req[r].pool THEN pools[k].accts \cup {req[r].acct}
                                                               ELSE pools[k].accts
    BY <1>t, <2>2 DEF PoolType
  <2> HIDE DEF ps
  <2>5. \A k \in PoolIds : \A b \in ps[k].accts : b.user = ps[k].owner
    BY <1>o, <2>2, <2>3, <2>4
  <2>6. req[r].pool # 0 => req[r].acct \in ps[req[r].pool].accts
    BY <1>r, <2>4 DEF ReqType
  <2> QED
    BY <2>1, <2>4, <2>5, <2>6, EndKeeps
<1>9. CASE Forget(r)
  <2> DEFINE ps == [pools EXCEPT ![req[r].pool].accts = @ \ {req[r].acct}]
  <2>1. /\ EndWith(r, ps) /\ req[r].at = "forget" /\ UNCHANGED <<accounts, excused>>
    BY <1>9 DEF Forget
  <2>2. req[r].acct \notin accounts
    BY <1>0, <2>1 DEF RowsFresh
  <2>3. /\ ps \in [PoolIds -> PoolType]
        /\ \A k \in PoolIds : ps[k].owner = pools[k].owner
        /\ \A k \in PoolIds : ps[k].accts = IF k = req[r].pool THEN pools[k].accts \ {req[r].acct}
                                                               ELSE pools[k].accts
    BY <1>t DEF PoolType
  <2> HIDE DEF ps
  <2>4. \A k \in PoolIds : \A b \in ps[k].accts : b.user = ps[k].owner
    BY <1>o, <2>3
  <2>5. \A k \in PoolIds : \A b \in pools[k].accts : b \in accounts' => b \in ps[k].accts
    BY <2>1, <2>2, <2>3
  <2> QED
    BY <2>1, <2>3, <2>4, <2>5, EndKeeps
<1> QED
  BY <1>1, <1>2, <1>3, <1>4, <1>5, <1>6, <1>7, <1>8, <1>9 DEF Work

(***************************************************************************)
(* No step of the portal or the CLI mixes the Pools of two users, or loses *)
(* an account from a cached Pool.                                          *)
(***************************************************************************)
LEMMA PoolsKept == PInv /\ Next => Owned' /\ KnownUnlessForeign'
<1> SUFFICES ASSUME PInv, Next PROVE Owned' /\ KnownUnlessForeign'
  OBVIOUS
<1>0. TypeOK /\ Carries /\ (\A x \in Handlers \cup Commands : x \in Requests)
  BY DEF PInv, Requests
<1>t. req \in [Requests -> ReqType]
  BY <1>0, Types
<1>u. ASSUME UNCHANGED <<pools, cache, accounts, excused, req>> PROVE Owned' /\ KnownUnlessForeign'
  BY <1>u, GoKeeps
<1>z. ASSUME NEW r \in Requests, NEW q, Go(r, q), UNCHANGED <<pools, cache, accounts, excused>>,
             req[r].at # "remember",
             q.pool = 0 \/ (q.pool = req[r].pool /\ q.user = req[r].user)
      PROVE  Owned' /\ KnownUnlessForeign'
  <2>1. \A x \in Requests : req'[x] = IF x = r THEN q ELSE req[x]
    BY <1>t, <1>z DEF Go
  <2>2. \A x \in Requests : \/ req'[x] = req[x]
                            \/ /\ req[x].at # "remember"
                               /\ req'[x].pool = 0 \/ (req'[x].pool = req[x].pool /\ req'[x].user = req[x].user)
    BY <1>z, <2>1
  <2> QED
    BY <1>z, <2>2, GoKeeps
<1>p. ASSUME NEW u \in Names, NEW k \in PoolIds, GetPool(u, k), UNCHANGED <<accounts, excused>>,
             NEW r \in Requests, NEW q, Go(r, q), req[r].at # "remember", q.pool = k, q.user = u
      PROVE  Owned' /\ KnownUnlessForeign'
  <2>1. \A x \in Requests : req'[x] = IF x = r THEN q ELSE req[x]
    BY <1>t, <1>p DEF Go
  <2>2. \A x \in Requests : \/ req'[x] = req[x]
                            \/ req[x].at # "remember" /\ req'[x].pool = k /\ req'[x].user = u
    BY <1>p, <2>1
  <2> QED
    BY <1>p, <2>2, GetPoolKeeps
<1>i. Idle.at = "idle" /\ Idle.pool = 0
  BY DEF Idle
<1>1. ASSUME NEW b \in Browsers, Visit(b) PROVE Owned' /\ KnownUnlessForeign'
  <2>1. ASSUME NEW l \in Labels, HandleConnectAccount(b, l) PROVE Owned' /\ KnownUnlessForeign'
    <3>1. session[b] \in Names
      BY <1>0, <2>1 DEF TypeOK, HandleConnectAccount, Users
    <3>2. PICK k \in PoolIds : GetPool(session[b], k) /\ UNCHANGED <<req, accounts, excused>>
      BY <2>1 DEF HandleConnectAccount
    <3> QED
      BY <3>1, <3>2, GetPoolKeeps
  <2>2. ASSUME NEW h \in Handlers, NEW place, NEW l, Enter(h, b, place, l)
        PROVE  Owned' /\ KnownUnlessForeign'
    <3>1. session[b] \in Names /\ h \in Requests
      BY <1>0, <2>2 DEF TypeOK, Enter, Users
    <3>2. PICK k \in PoolIds :
            /\ GetPool(session[b], k) /\ UNCHANGED <<accounts, excused>> /\ req[h] = Idle
            /\ Go(h, [Idle EXCEPT !.at = place, !.user = session[b], !.pool = k, !.label = l])
      BY <2>2 DEF Enter, Start
    <3>3. /\ [Idle EXCEPT !.at = place, !.user = session[b], !.pool = k, !.label = l].pool = k
          /\ [Idle EXCEPT !.at = place, !.user = session[b], !.pool = k, !.label = l].user = session[b]
      BY DEF Idle
    <3> QED
      BY <1>i, <1>p, <3>1, <3>2, <3>3
  <2>3. CASE HandleLogout(b) \/ \E n \in Names : HandleRegister(b, n) \/ HandleLogin(b, n)
    BY <1>u, <2>3 DEF HandleRegister, HandleLogin, HandleLogout
  <2>4. ASSUME NEW h \in Handlers, HandleFiles(h, b) \/ \E l \in Labels : HandleRemoveAccount(h, b, l)
        PROVE  Owned' /\ KnownUnlessForeign'
    BY <2>2, <2>4 DEF HandleFiles, HandleRemoveAccount
  <2> QED
    BY <1>1, <2>1, <2>3, <2>4 DEF Visit
<1>2. ASSUME NEW p \in pending, RejectState(p) PROVE Owned' /\ KnownUnlessForeign'
  BY <1>u, <1>2 DEF RejectState
<1>3. ASSUME NEW h \in Handlers, NEW p \in pending, TakeState(h, p) PROVE Owned' /\ KnownUnlessForeign'
  <2>1. [Idle EXCEPT !.at = "callback", !.user = p.user, !.label = p.label].pool = 0
    BY DEF Idle
  <2> QED
    BY <1>0, <1>3, <1>i, <1>z, <2>1 DEF TakeState, Start
<1>4. ASSUME NEW h \in Handlers, CallbackPool(h) PROVE Owned' /\ KnownUnlessForeign'
  <2>1. h \in Requests /\ req[h].user \in Names /\ req[h].at = "callback" /\ req[h] \in ReqType
    BY <1>0, <1>4, <1>t DEF CallbackPool, Carries
  <2>2. PICK k \in PoolIds : /\ GetPool(req[h].user, k) /\ UNCHANGED <<accounts, excused>>
                             /\ Go(h, [req[h] EXCEPT !.at = "check", !.pool = k])
    BY <1>4 DEF CallbackPool
  <2>3. /\ [req[h] EXCEPT !.at = "check", !.pool = k].pool = k
        /\ [req[h] EXCEPT !.at = "check", !.pool = k].user = req[h].user
    BY <2>1 DEF ReqType
  <2> QED
    BY <1>p, <2>1, <2>2, <2>3
<1>5. ASSUME NEW r \in Requests, Work(r) PROVE Owned' /\ KnownUnlessForeign'
  BY <1>5, PoolsKeptByWork
<1>6. ASSUME NEW c \in Commands, Cli(c) PROVE Owned' /\ KnownUnlessForeign'
  <2>0. c \in Requests /\ req[c] \in ReqType
    BY <1>0, <1>t
  <2>1. ASSUME NEW n \in Names, CliResolve(c, n) PROVE Owned' /\ KnownUnlessForeign'
    <3> DEFINE q == [Idle EXCEPT !.user = n, !.at = IF users[n] = "none" THEN "create" ELSE "open"]
    <3>1. q.pool = 0
      BY DEF Idle
    <3>2. Go(c, q) /\ req[c] = Idle /\ UNCHANGED <<pools, cache, accounts, excused>>
      BY <2>1 DEF CliResolve, Start
    <3> HIDE DEF q
    <3> QED
      BY <1>i, <1>z, <2>0, <3>1, <3>2
  <2>2. CASE CliCreate(c)
    <3>1. /\ [req[c] EXCEPT !.at = "open"].pool = req[c].pool
          /\ [req[c] EXCEPT !.at = "open"].user = req[c].user
      BY <2>0 DEF ReqType
    <3>2. /\ Go(c, Idle) \/ Go(c, [req[c] EXCEPT !.at = "open"])
          /\ UNCHANGED <<pools, cache, accounts, excused>> /\ req[c].at = "create"
      BY <2>2 DEF CliCreate
    <3> QED
      BY <1>i, <1>z, <2>0, <3>1, <3>2
  <2>3. ASSUME NEW place, NEW l, CliOpen(c, place, l) PROVE Owned' /\ KnownUnlessForeign'
    <3>1. PICK k \in PoolIds : /\ IsFresh(k) /\ OpenPool(k, req[c].user)
                               /\ Go(c, [req[c] EXCEPT !.at = place, !.pool = k, !.label = l])
      BY <2>3 DEF CliOpen
    <3>2. req[c].at = "open" /\ UNCHANGED <<cache, accounts, excused>>
      BY <2>3 DEF CliOpen
    <3>3. req[c].user \in Names
      BY <1>0, <2>0, <3>2 DEF Carries
    <3>4. /\ [req[c] EXCEPT !.at = place, !.pool = k, !.label = l].pool = k
          /\ [req[c] EXCEPT !.at = place, !.pool = k, !.label = l].user = req[c].user
      BY <2>0 DEF ReqType
    <3>5. \A x \in Requests : \/ req'[x] = req[x]
                              \/ req[x].at # "remember" /\ req'[x].pool = k /\ req'[x].user = req[c].user
      BY <1>t, <2>0, <3>1, <3>2, <3>4 DEF Go
    <3> QED
      BY <3>1, <3>2, <3>3, <3>5, OpenKeeps
  <2>4. CASE CliAdd(c) \/ CliRemove(c) \/ CliFiles(c)
    BY <2>3, <2>4 DEF CliAdd, CliRemove, CliFiles
  <2> QED
    BY <1>6, <2>1, <2>2, <2>4 DEF Cli
<1>7. CASE Tick \/ SweepExpired
  BY <1>u, <1>7 DEF Tick, SweepExpired
<1>8. CASE EvictIdle
  <2>1. \A n \in Names : cache'[n] = cache[n] \/ cache'[n] = 0
    BY <1>8 DEF EvictIdle
  <2> QED
    BY <1>8, <2>1, CollectKeeps DEF EvictIdle
<1>9. CASE Restart
  <2>1. \A n \in Names : cache'[n] = 0
    BY <1>9 DEF Restart
  <2>2. \A x \in Requests : req'[x] = req[x] \/ req'[x] = Idle
    BY <1>9 DEF Restart
  <2> QED
    BY <1>9, <2>1, <2>2, CollectKeeps DEF Restart
<1> QED
  BY <1>1, <1>2, <1>3, <1>4, <1>5, <1>6, <1>7, <1>8, <1>9 DEF Next, Callback

-----------------------------------------------------------------------------
(* The theorems.                                                           *)

(***************************************************************************)
(* The inductive invariant of the portal and the CLI.                      *)
(***************************************************************************)
THEOREM PortalInvariant == Spec => []PInv
<1>1. Init => PInv
  <2> SUFFICES ASSUME Init PROVE PInv
    OBVIOUS
  <2> USE DEF Init
  <2>n. Idle.at = "idle" /\ Idle.acct.id = 0 /\ Idle.pool = 0 /\ NoPool.accts = {}
    BY DEF Idle, NoAccount, NoPool
  <2>1. TypeOK
    <3>1. req \in [Requests -> ReqType] /\ pools \in [PoolIds -> PoolType]
      BY EmptyTypes
    <3>2. session \in [Browsers -> Users]
      BY DEF Users
    <3> QED
      BY <3>1, <3>2, BoundsAssumption, TimesAssumption DEF TypeOK, ReqType, PoolType
  <2>2. CliNeverLogsIn /\ OneShot /\ PendingUnused
    BY DEF CliNeverLogsIn, OneShot, PendingUnused
  <2>3. Young
    BY TimesAssumption DEF Young
  <2>4. Carries /\ RowsFresh
    BY <2>n DEF Carries, RowsFresh
  <2>5. CliPoolsApart /\ TenantIsolation /\ KnownUnlessForeign
    BY <2>n DEF CliPoolsApart, TenantIsolation, KnownUnlessForeign
  <2> QED
    BY <2>1, <2>2, <2>3, <2>4, <2>5 DEF PInv
<1>2. PInv /\ [Next]_vars => PInv'
  <2>1. PInv /\ Next => PInv'
    <3>1. Owned' /\ Labelled' => TenantIsolation'
      BY DEF Owned, Labelled, TenantIsolation
    <3> QED
      BY <3>1, TypeKept, SessionKept, StatesKept, YoungKept, RequestsKept, PoolsApartKept,
         PoolsKept, LabelledKept DEF PInv
  <2>2. PInv /\ UNCHANGED vars => PInv'
    <3> SUFFICES ASSUME PInv, UNCHANGED vars PROVE PInv'
      OBVIOUS
    <3>1. TypeOK' /\ CliNeverLogsIn' /\ OneShot' /\ PendingUnused' /\ Young'
      BY DEF PInv, vars, TypeOK, CliNeverLogsIn, OneShot, PendingUnused, Young
    <3>2. Carries' /\ RowsFresh' /\ CliPoolsApart'
      BY DEF PInv, vars, Carries, RowsFresh, CliPoolsApart
    <3>3. TenantIsolation' /\ KnownUnlessForeign'
      BY DEF PInv, vars, TenantIsolation, KnownUnlessForeign, AccountsOf
    <3> QED
      BY <3>1, <3>2, <3>3 DEF PInv
  <2> QED
    BY <2>1, <2>2
<1> QED
  BY <1>1, <1>2, PTL DEF Spec

(***************************************************************************)
(* Every variable keeps its type; in particular the bounded set of Pool    *)
(* ids and the ticker's clock.                                             *)
(***************************************************************************)
THEOREM PortalTypeOK == Spec => []TypeOK
<1>1. PInv => TypeOK
  BY DEF PInv
<1> QED
  BY <1>1, PortalInvariant, PTL

(***************************************************************************)
(* Whatever logins, callbacks, evictions, restarts and CLI commands        *)
(* overlap, tenants are kept apart.                                        *)
(***************************************************************************)
THEOREM PortalTenantIsolation == Spec => []TenantIsolation
<1>1. PInv => TenantIsolation
  BY DEF PInv
<1> QED
  BY <1>1, PortalInvariant, PTL

(***************************************************************************)
(* An OAuth state is good for one callback.                                *)
(***************************************************************************)
THEOREM PortalOneShot == Spec => []OneShot
<1>1. PInv => OneShot
  BY DEF PInv
<1> QED
  BY <1>1, PortalInvariant, PTL

(***************************************************************************)
(* The ticker's two sweeps bound the age of pending states and idle Pools, *)
(* for every TTL, idle timeout and interval.                               *)
(***************************************************************************)
THEOREM PortalSwept == Spec => []Swept
<1>1. PInv => Swept
  <2> SUFFICES ASSUME PInv PROVE Swept
    OBVIOUS
  <2>1. TypeOK /\ Young
    BY DEF PInv
  <2>2. clock \in 0..SweepEvery /\ pending \subseteq PendingType /\ idle \in [Names -> Nat]
    BY <2>1, Types
  <2>3. \A p \in pending : p.age \in Nat
    BY <2>2 DEF PendingType
  <2> QED
    BY <2>1, <2>2, <2>3, TimesAssumption DEF Young, Swept
<1> QED
  BY <1>1, PortalInvariant, PTL

(***************************************************************************)
(* No identity the CLI provisioned ever has a portal session.              *)
(***************************************************************************)
THEOREM PortalCliNeverLogsIn == Spec => []CliNeverLogsIn
<1>1. PInv => CliNeverLogsIn
  BY DEF PInv
<1> QED
  BY <1>1, PortalInvariant, PTL

(***************************************************************************)
(* A cached Pool misses an account only for one of the three reasons       *)
(* KnownUnlessForeign names.                                               *)
(***************************************************************************)
THEOREM PortalKnownUnlessForeign == Spec => []KnownUnlessForeign
<1>1. PInv => KnownUnlessForeign
  BY DEF PInv
<1> QED
  BY <1>1, PortalInvariant, PTL
=============================================================================
