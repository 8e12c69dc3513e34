------------------------------- MODULE Portal -------------------------------
(***************************************************************************)
(* The web portal's own state (backend/) beside the CLI (cmd/rhino): login *)
(* accounts and sessions, the cache of one Pool per user with its idle     *)
(* eviction, the OAuth round trip that connects a Drive account, and the   *)
(* accounts table that portal requests and CLI commands change through     *)
(* Pools of their own.  Files and chunks are the business of PoolOps.      *)
(*                                                                         *)
(* A step is one database statement, one critical section of cache.mu or   *)
(* oauthMu, or one access to a Pool's account map.  A request that fails   *)
(* before it has changed anything (bad input, no session, wrong password,  *)
(* unknown state, a Pool that cannot be opened) is no step.                *)
(***************************************************************************)
EXTENDS Integers, FiniteSets

CONSTANTS
  Names,       \* user names; the row's id is a function of the name
  Nobody,      \* no user: an empty session
  Browsers,    \* cookie jars
  Labels,      \* account labels
  Handlers,    \* portal requests that may be under way at the same time
  Commands,    \* CLI processes that may run at the same time
  TTL,         \* oauthStateTTL, in units of the clock
  MaxIdle,     \* idlePoolTimeout
  SweepEvery,  \* idleEvictInterval
  MaxStates,   \* bound: OAuth flows started
  MaxRegs,     \* bound: accounts registered
  MaxOps       \* bound: requests and commands that hold a Pool

ASSUME NobodyAssumption == Nobody \notin Names
ASSUME ActorsAssumption == Handlers \cap Commands = {} /\ IsFiniteSet(Handlers \cup Commands)
ASSUME NamesAssumption == IsFiniteSet(Names)
ASSUME TimesAssumption == TTL \in Nat /\ MaxIdle \in Nat /\ SweepEvery \in Nat \ {0}
ASSUME BoundsAssumption == MaxStates \in Nat /\ MaxRegs \in Nat /\ MaxOps \in Nat

Requests == Handlers \cup Commands

VARIABLES
  users,       \* users table: "none", "portal" (has a password) or "cli"
  session,     \* the user in each browser's signed cookie
  accounts,    \* accounts table: a set of rows
  regs,        \* rows inserted so far; gives every row an id of its own
  pools,       \* Pool objects that are still referred to
  cache,       \* poolCache.pools: user -> Pool, 0 if none
  idle,        \* time since lastUsed of each cache entry
  pending,     \* oauthPending
  states,      \* states handed out so far
  req,         \* what each request is doing
  started,     \* requests and commands so far
  clock,       \* time since the last tick of evictLoop's ticker
  evictor,     \* evictLoop: "wait", "evict", "sweep"
  asked,       \* history: labels each user asked to connect, in the portal or the CLI
  used,        \* history: callbacks that got through, for each state
  excused      \* history: account ids the cached Pool of their user may not know

tables == <<users, accounts, regs>>
cacheVars == <<pools, cache, idle>>
oauthVars == <<pending, states>>
timer == <<clock, evictor>>
history == <<asked, used, excused>>
vars == <<tables, session, cacheVars, oauthVars, req, started, timer, history>>

-----------------------------------------------------------------------------
(* Enough for one Pool per cache entry and one per request.                *)
PoolIds == 1..(Cardinality(Names) + Cardinality(Requests))

NoPool == [owner |-> Nobody, accts |-> {}]

NoAccount == [id |-> 0, user |-> Nobody, label |-> "none"]

Idle == [at |-> "idle", user |-> Nobody, pool |-> 0, label |-> "none", acct |-> NoAccount]

AccountsOf(u) == {a \in accounts : a.user = u}

(* The row GetAccount and DELETE find by (user_id, label), if any.         *)
Row(u, l) == {a \in AccountsOf(u) : a.label = l}

Init ==
  /\ users = [n \in Names |-> "none"]
  /\ session = [b \in Browsers |-> Nobody]
  /\ accounts = {}
  /\ regs = 0
  /\ pools = [k \in PoolIds |-> NoPool]
  /\ cache = [n \in Names |-> 0]
  /\ idle = [n \in Names |-> 0]
  /\ pending = {}
  /\ states = 0
  /\ req = [r \in Requests |-> Idle]
  /\ started = 0
  /\ clock = 0
  /\ evictor = "wait"
  /\ asked = [n \in Names |-> {}]
  /\ used = [s \in 1..MaxStates |-> 0]
  /\ excused = {}

Go(r, q) == req' = [req EXCEPT ![r] = q]

(* A request comes in, as q.                                               *)
Start(r, q) ==
  /\ req[r] = Idle
  /\ started < MaxOps
  /\ started' = started + 1
  /\ Go(r, q)

Held(c, q) == {c[n] : n \in Names} \cup {q[r].pool : r \in Requests}

(* A Pool nobody refers to any more is garbage.                            *)
Collect(ps) == [k \in PoolIds |-> IF k \in Held(cache', req') THEN ps[k] ELSE NoPool]

(* Request r ends, leaving the Pools as ps.                                *)
EndWith(r, ps) == Go(r, Idle) /\ UNCHANGED cache /\ pools' = Collect(ps)

End(r) == EndWith(r, pools)

(* The first Pool id that is free.                                         *)
IsFresh(k) ==
  /\ k \in PoolIds \ Held(cache, req)
  /\ \A j \in PoolIds \ Held(cache, req) : k <= j

(* drivepool.Open: a Pool with the accounts registered at this moment.     *)
OpenPool(k, u) == pools' = [pools EXCEPT ![k] = [owner |-> u, accts |-> AccountsOf(u)]]

(* poolCache.get: Pool k of user u, from the cache or newly opened.        *)
GetPool(u, k) ==
  \/ /\ cache[u] = k /\ k # 0
     /\ idle' = [idle EXCEPT ![u] = 0]
     /\ UNCHANGED <<pools, cache>>
  \/ /\ cache[u] = 0
     /\ IsFresh(k)
     /\ OpenPool(k, u)
     /\ cache' = [cache EXCEPT ![u] = k]
     /\ idle' = [idle EXCEPT ![u] = 0]

-----------------------------------------------------------------------------
(* Registration, login and logout.                                         *)

(* CreateUser; kind says whether anybody knows the password.  A name that  *)
(* is taken violates UNIQUE.                                               *)
CreateUser(n, kind) ==
  /\ users[n] = "none"
  /\ users' = [users EXCEPT ![n] = kind]

(* Authenticate: no password matches the hash of a CLI identity.           *)
Authenticate(n) == users[n] = "portal"

StartSession(b, n) == session' = [session EXCEPT ![b] = n]

(* requireSession: the user is the one in the signed cookie.               *)
RequireSession(b) == session[b] # Nobody

(* A taken name answers 409.                                               *)
HandleRegister(b, n) ==
  /\ CreateUser(n, "portal")
  /\ StartSession(b, n)
  /\ UNCHANGED <<started, accounts, regs, cacheVars, oauthVars, req, timer, history>>

HandleLogin(b, n) ==
  /\ Authenticate(n)
  /\ StartSession(b, n)
  /\ UNCHANGED <<started, tables, cacheVars, oauthVars, req, timer, history>>

(* The cookie is cleared; requests it started go on.                       *)
HandleLogout(b) ==
  /\ session[b] # Nobody
  /\ session' = [session EXCEPT ![b] = Nobody]
  /\ UNCHANGED <<started, tables, cacheVars, oauthVars, req, timer, history>>

-----------------------------------------------------------------------------
(* Requests behind requireSession.                                         *)

(* A handler gets the Pool of the session's user, from there on at place.  *)
Enter(h, b, place, l) ==
  /\ RequireSession(b)
  /\ \E k \in PoolIds :
       /\ GetPool(session[b], k)
       /\ Start(h, [Idle EXCEPT !.at = place, !.user = session[b], !.pool = k, !.label = l])
  /\ UNCHANGED <<tables, session, oauthVars, timer, history>>

(* Listings, uploads, downloads and deletions: they use the Pool for as    *)
(* long as they take and change no account.                                *)
HandleFiles(h, b) == Enter(h, b, "using", "none")

(* handleRemoveAccount.                                                    *)
HandleRemoveAccount(h, b, l) == Enter(h, b, "look up", l)

Finish(r) ==
  /\ req[r].at = "using"
  /\ End(r)
  /\ UNCHANGED <<started, tables, session, idle, oauthVars, timer, history>>

(* handleConnectAccount: a state for this user and label is remembered and *)
(* the browser sent to Google.                                             *)
HandleConnectAccount(b, l) ==
  /\ RequireSession(b)
  /\ states < MaxStates
  /\ \E k \in PoolIds : GetPool(session[b], k)
  /\ states' = states + 1
  /\ pending' = pending \cup
       {[state |-> states + 1, user |-> session[b], label |-> l, age |-> 0]}
  /\ asked' = [asked EXCEPT ![session[b]] = @ \cup {l}]
  /\ UNCHANGED <<started, tables, session, req, timer, used, excused>>

-----------------------------------------------------------------------------
(* handleOAuthCallback.                                                    *)

(* Mutants of TakeState: the account goes to whoever the browser is logged *)
(* in as; the state is kept for another try.                               *)
TakeStateOfSession(h, p) ==
  /\ pending' = pending \ {p}
  /\ p.age <= TTL
  /\ \E b \in Browsers :
       /\ session[b] # Nobody
       /\ Start(h, [Idle EXCEPT !.at = "callback", !.user = session[b], !.label = p.label])
  /\ used' = [used EXCEPT ![p.state] = @ + 1]
  /\ UNCHANGED <<tables, session, cacheVars, states, timer, asked, excused>>
TakeStateAgain(h, p) ==
  /\ p.age <= TTL
  /\ Start(h, [Idle EXCEPT !.at = "callback", !.user = p.user, !.label = p.label])
  /\ used' = [used EXCEPT ![p.state] = @ + 1]
  /\ UNCHANGED <<tables, session, cacheVars, pending, states, timer, asked, excused>>

(* The state is looked up and deleted, and is young enough.  It alone says *)
(* whose account this will be; the cookie is not looked at.                *)
TakeState(h, p) ==
  /\ pending' = pending \ {p}
  /\ p.age <= TTL
  /\ Start(h, [Idle EXCEPT !.at = "callback", !.user = p.user, !.label = p.label])
  /\ used' = [used EXCEPT ![p.state] = @ + 1]
  /\ UNCHANGED <<tables, session, cacheVars, states, timer, asked, excused>>

(* Expired, or Google reports an error: the state is gone all the same.    *)
RejectState(p) ==
  /\ pending' = pending \ {p}
  /\ UNCHANGED <<started, tables, session, cacheVars, states, req, timer, history>>

CallbackPool(h) ==
  /\ req[h].at = "callback"
  /\ \E k \in PoolIds :
       /\ GetPool(req[h].user, k)
       /\ Go(h, [req[h] EXCEPT !.at = "check", !.pool = k])
  /\ UNCHANGED <<started, tables, session, oauthVars, timer, history>>

-----------------------------------------------------------------------------
(* CompleteConsent and AddAccount, in a portal request or a CLI command.   *)

(* checkLabelAvailable.                                                    *)
CheckLabel(r) ==
  /\ req[r].at = "check"
  /\ IF Row(req[r].user, req[r].label) # {}
       THEN End(r)
       ELSE Go(r, [req[r] EXCEPT !.at = "add"]) /\ UNCHANGED <<pools, cache>>
  /\ UNCHANGED <<started, tables, session, idle, oauthVars, timer, history>>

(* The code exchange, the loopback flow (denied, mismatch, timeout), the   *)
(* refresh token, the client or its quota: any of them may fail.           *)
ConsentFails(r) ==
  /\ req[r].at = "add"
  /\ End(r)
  /\ UNCHANGED <<started, tables, session, idle, oauthVars, timer, history>>

(* manifest.AddAccount, with UNIQUE (user_id, label).                      *)
AddAccount(r) ==
  LET u == req[r].user
      l == req[r].label
      a == [id |-> regs + 1, user |-> u, label |-> l]
  IN  /\ req[r].at = "add"
      /\ regs < MaxRegs
      /\ IF Row(u, l) # {}
           THEN End(r) /\ UNCHANGED <<accounts, regs, excused>>
           ELSE /\ accounts' = accounts \cup {a}
                /\ regs' = regs + 1
                /\ excused' = IF req[r].pool = cache[u] THEN excused ELSE excused \cup {a.id}
                /\ Go(r, [req[r] EXCEPT !.at = "remember", !.acct = a])
                /\ UNCHANGED <<pools, cache>>
      /\ UNCHANGED <<started, users, session, idle, oauthVars, timer, asked, used>>

(* Mutant of Remember: the account is left for the next Open to find.      *)
RememberNothing(r) ==
  /\ req[r].at = "remember"
  /\ End(r)
  /\ UNCHANGED <<started, tables, session, idle, oauthVars, timer, history>>

(* UpdateAccountQuota and p.accounts[id] = a.                              *)
Remember(r) ==
  /\ req[r].at = "remember"
  /\ EndWith(r, [pools EXCEPT ![req[r].pool].accts = @ \cup {req[r].acct}])
  /\ UNCHANGED <<started, tables, session, idle, oauthVars, timer, history>>

(* UpdateAccountQuota fails: the row stays, the map does not get it.       *)
RecordQuotaFails(r) ==
  /\ req[r].at = "remember"
  /\ End(r)
  /\ excused' = excused \cup {req[r].acct.id}
  /\ UNCHANGED <<started, tables, session, idle, oauthVars, timer, asked, used>>

-----------------------------------------------------------------------------
(* Pool.RemoveAccount, in a portal request or a CLI command.               *)

(* GetAccount; no such label, or ErrAccountInUse, ends it.                 *)
LookUp(r) ==
  /\ req[r].at = "look up"
  /\ \/ End(r)
     \/ /\ \E a \in Row(req[r].user, req[r].label) :
             Go(r, [req[r] EXCEPT !.at = "drop", !.acct = a])
        /\ UNCHANGED <<pools, cache>>
  /\ UNCHANGED <<started, tables, session, idle, oauthVars, timer, history>>

(* DELETE by label: whatever row has the label now.                        *)
Drop(r) ==
  LET row == Row(req[r].user, req[r].label)
  IN  /\ req[r].at = "drop"
      /\ accounts' = accounts \ row
      /\ IF row = {} THEN End(r)
                     ELSE Go(r, [req[r] EXCEPT !.at = "forget"]) /\ UNCHANGED <<pools, cache>>
      /\ UNCHANGED <<started, users, regs, session, idle, oauthVars, timer, history>>

(* delete(p.accounts, row.ID): the row that was looked up.                 *)
Forget(r) ==
  /\ req[r].at = "forget"
  /\ EndWith(r, [pools EXCEPT ![req[r].pool].accts = @ \ {req[r].acct}])
  /\ UNCHANGED <<started, tables, session, idle, oauthVars, timer, history>>

-----------------------------------------------------------------------------
(* A CLI command: openPool, then one operation of that Pool, then exit.    *)

(* GetOrCreateCLIUser: GetByUsername ...                                   *)
CliResolve(c, n) ==
  /\ Start(c, [Idle EXCEPT !.user = n, !.at = IF users[n] = "none" THEN "create" ELSE "open"])
  /\ UNCHANGED <<tables, session, cacheVars, oauthVars, timer, history>>

(* Mutant of CliCreate: insert or update.                                  *)
CliCreateUpsert(c) ==
  /\ req[c].at = "create"
  /\ users' = [users EXCEPT ![req[c].user] = "cli"]
  /\ Go(c, [req[c] EXCEPT !.at = "open"])
  /\ UNCHANGED <<started, accounts, regs, session, cacheVars, oauthVars, timer, history>>

(* ... and CreateUser when there was none; ErrUsernameTaken ends it.       *)
CliCreate(c) ==
  /\ req[c].at = "create"
  /\ \/ CreateUser(req[c].user, "cli") /\ Go(c, [req[c] EXCEPT !.at = "open"])
     \/ users[req[c].user] # "none" /\ Go(c, Idle) /\ UNCHANGED users
  /\ UNCHANGED <<started, accounts, regs, session, cacheVars, oauthVars, timer, history>>

(* OpenWithUser; the command goes on at place, with label l.               *)
CliOpen(c, place, l) ==
  /\ req[c].at = "open"
  /\ \E k \in PoolIds :
       /\ IsFresh(k)
       /\ OpenPool(k, req[c].user)
       /\ Go(c, [req[c] EXCEPT !.at = place, !.pool = k, !.label = l])
  /\ asked' = IF place = "check" THEN [asked EXCEPT ![req[c].user] = @ \cup {l}] ELSE asked
  /\ UNCHANGED <<started, tables, session, cache, idle, oauthVars, timer, used, excused>>

(* account add; account remove; put, get, ls, rm, status, account list.    *)
CliAdd(c) == \E l \in Labels : CliOpen(c, "check", l)
CliRemove(c) == \E l \in Labels : CliOpen(c, "look up", l)
CliFiles(c) == CliOpen(c, "using", "none")

-----------------------------------------------------------------------------
(* A statement fails or the client went away; a command is killed.         *)
Abandon(r) ==
  /\ req[r].at \in {"callback", "check", "drop"} \/ (r \in Commands /\ req[r] # Idle)
  /\ End(r)
  /\ UNCHANGED <<started, tables, session, idle, oauthVars, timer, history>>

-----------------------------------------------------------------------------
(* Time and the ticker.  One round of evictLoop takes less than a unit.    *)

(* Mutant of Tick: the ticker fires one unit late.                         *)
TickLate ==
  /\ evictor = "wait"
  /\ clock' = clock + 1
  /\ evictor' = IF clock + 1 > SweepEvery THEN "evict" ELSE "wait"
  /\ idle' = [n \in Names |-> IF cache[n] = 0 THEN 0 ELSE idle[n] + 1]
  /\ pending' = {[p EXCEPT !.age = @ + 1] : p \in pending}
  /\ UNCHANGED <<started, tables, session, pools, cache, states, req, history>>

Tick ==
  /\ evictor = "wait"
  /\ clock' = clock + 1
  /\ evictor' = IF clock + 1 = SweepEvery THEN "evict" ELSE "wait"
  /\ idle' = [n \in Names |-> IF cache[n] = 0 THEN 0 ELSE idle[n] + 1]
  /\ pending' = {[p EXCEPT !.age = @ + 1] : p \in pending}
  /\ UNCHANGED <<started, tables, session, pools, cache, states, req, history>>

(* evictIdle, whoever is using the Pool.                                   *)
EvictIdle ==
  /\ evictor = "evict"
  /\ cache' = [n \in Names |-> IF idle[n] > MaxIdle THEN 0 ELSE cache[n]]
  /\ idle' = [n \in Names |-> IF idle[n] > MaxIdle THEN 0 ELSE idle[n]]
  /\ UNCHANGED req
  /\ pools' = Collect(pools)
  /\ evictor' = "sweep"
  /\ UNCHANGED <<started, tables, session, oauthVars, clock, history>>

(* Mutant of SweepExpired: only what is a whole TTL overdue.               *)
SweepExpiredLate ==
  /\ evictor = "sweep"
  /\ pending' = {p \in pending : p.age <= 2 * TTL}
  /\ evictor' = "wait"
  /\ clock' = 0
  /\ UNCHANGED <<started, tables, session, cacheVars, states, req, history>>

(* sweepExpiredOAuthState.                                                 *)
SweepExpired ==
  /\ evictor = "sweep"
  /\ pending' = {p \in pending : p.age <= TTL}
  /\ evictor' = "wait"
  /\ clock' = 0
  /\ UNCHANGED <<started, tables, session, cacheVars, states, req, history>>

(* ConfigFromEnv: the configured session secret, or an ephemeral one under *)
(* which no cookie issued before is valid.                                 *)
ReadSessionSecret == session' \in {session, [b \in Browsers |-> Nobody]}

(* The portal stops, by shutdown or crash, and starts again: the cache and *)
(* the pending states are gone.                                            *)
Restart ==
  /\ ReadSessionSecret
  /\ cache' = [n \in Names |-> 0]
  /\ idle' = [n \in Names |-> 0]
  /\ pending' = {}
  /\ req' = [r \in Requests |-> IF r \in Handlers THEN Idle ELSE req[r]]
  /\ pools' = Collect(pools)
  /\ clock' = 0
  /\ evictor' = "wait"
  /\ UNCHANGED <<started, tables, states, history>>

-----------------------------------------------------------------------------
Visit(b) ==
  \/ \E n \in Names : HandleRegister(b, n) \/ HandleLogin(b, n)
  \/ HandleLogout(b)
  \/ \E l \in Labels : HandleConnectAccount(b, l)
  \/ \E h \in Handlers : HandleFiles(h, b) \/ \E l \in Labels : HandleRemoveAccount(h, b, l)

Callback ==
  \/ \E p \in pending : RejectState(p) \/ \E h \in Handlers : TakeState(h, p)
  \/ \E h \in Handlers : CallbackPool(h)

Work(r) ==
  \/ Finish(r) \/ CheckLabel(r) \/ ConsentFails(r) \/ AddAccount(r)
  \/ Remember(r) \/ RecordQuotaFails(r)
  \/ LookUp(r) \/ Drop(r) \/ Forget(r) \/ Abandon(r)

Cli(c) ==
  \/ \E n \in Names : CliResolve(c, n)
  \/ CliCreate(c) \/ CliAdd(c) \/ CliRemove(c) \/ CliFiles(c)

Next ==
  \/ \E b \in Browsers : Visit(b)
  \/ Callback
  \/ \E r \in Requests : Work(r)
  \/ \E c \in Commands : Cli(c)
  \/ Tick \/ EvictIdle \/ SweepExpired \/ Restart

Spec == Init /\ [][Next]_vars

-----------------------------------------------------------------------------
Users == Names \cup {Nobody}
Texts == Labels \cup {"none"}
Account == [id: 0..MaxRegs, user: Users, label: Texts]
Places == {"idle", "using", "callback", "check", "add", "remember", "look up", "drop",
           "forget", "create", "open"}

TypeOK ==
  /\ users \in [Names -> {"none", "portal", "cli"}]
  /\ session \in [Browsers -> Users]
  /\ accounts \subseteq Account
  /\ regs \in 0..MaxRegs
  /\ pools \in [PoolIds -> [owner: Users, accts: SUBSET Account]]
  /\ cache \in [Names -> PoolIds \cup {0}]
  /\ idle \in [Names -> Nat]
  /\ pending \subseteq [state: 1..MaxStates, user: Names, label: Labels, age: Nat]
  /\ states \in 0..MaxStates
  /\ req \in [Requests -> [at: Places, user: Users, pool: PoolIds \cup {0}, label: Texts,
                           acct: Account]]
  /\ started \in 0..MaxOps
  /\ clock \in 0..SweepEvery
  /\ evictor \in {"wait", "evict", "sweep"}
  /\ asked \in [Names -> SUBSET Labels]
  /\ used \in [1..MaxStates -> Nat]
  /\ excused \subseteq 1..MaxRegs

(***************************************************************************)
(* Tenants are kept apart ("the entire isolation boundary between          *)
(* tenants"): whatever logins, callbacks, evictions and CLI commands       *)
(* overlap, a cached Pool and the Pool of a request are those of their     *)
(* user and know only accounts of that user, and an account is registered  *)
(* only under an identity that asked to connect that very label.           *)
(***************************************************************************)
TenantIsolation ==
  /\ \A n \in Names : cache[n] # 0 => pools[cache[n]].owner = n
  /\ \A r \in Requests : req[r].pool # 0 => pools[req[r].pool].owner = req[r].user
  /\ \A k \in PoolIds : \A a \in pools[k].accts : a.user = pools[k].owner
  /\ \A a \in accounts : a.label \in asked[a.user]

(***************************************************************************)
(* "one-shot: a state value is only ever good for one callback", however   *)
(* often and however late the browser repeats it.                          *)
(***************************************************************************)
OneShot == \A s \in 1..MaxStates : used[s] <= 1

(***************************************************************************)
(* What nobody completes or uses does not pile up: a pending state is      *)
(* never older than oauthStateTTL plus one interval of the ticker, a       *)
(* cached Pool never idle for longer than idlePoolTimeout plus one.        *)
(***************************************************************************)
Swept ==
  /\ \A p \in pending : p.age <= TTL + SweepEvery
  /\ \A n \in Names : cache[n] # 0 => idle[n] <= MaxIdle + SweepEvery

(***************************************************************************)
(* "a CLI-provisioned identity can never log into the web portal by        *)
(* password": a session is always that of a user who registered with a     *)
(* password, also when the CLI provisions the same name at the same time.  *)
(***************************************************************************)
CliNeverLogsIn == \A b \in Browsers : session[b] # Nobody => users[session[b]] = "portal"

(***************************************************************************)
(* A cached Pool knows every account of its user (ListAccountStatus relies *)
(* on it), except one that was registered through another Pool (the CLI's, *)
(* or one evicted while in use), one whose quota could not be recorded,    *)
(* and one that is just being registered.                                  *)
(***************************************************************************)
KnownUnlessForeign ==
  \A n \in Names : cache[n] # 0 =>
    \A a \in AccountsOf(n) :
      \/ a \in pools[cache[n]].accts
      \/ a.id \in excused
      \/ \E r \in Requests : req[r].at = "remember" /\ req[r].acct = a /\ req[r].pool = cache[n]
=============================================================================
