----------------------------- MODULE Placement -----------------------------
(***************************************************************************)
(* Where PutStream puts the chunks of one file (drivepool/placement.go and *)
(* the sequential read loop of drivepool/pool.go, PutStream).              *)
(*                                                                         *)
(* A file of `size' bytes is cut into pieces of ChunkSize bytes.  A file   *)
(* of one piece goes to the account pickAccount returns; a longer one is   *)
(* spread by a placementTracker, which asks every account for its quota    *)
(* once and then keeps its own budget.  Reads, uploads and failures of the *)
(* workers are added by module Upload, which instantiates this one.        *)
(***************************************************************************)
EXTENDS Integers, Sequences

CONSTANTS Accounts,    \* ids of the accounts in p.accounts
          Quotas,      \* the answers an account may give when asked for quota
          Sizes,       \* the declared sizes a caller may pass to PutStream
          ChunkSize,   \* p.chunkSize()
          MaxInt64     \* 1<<63 - 1

(***************************************************************************)
(* An answer of Store.Quota.  ok = FALSE stands for an account that is     *)
(* skipped: its initErr is set, or Quota returned an error.                *)
(***************************************************************************)
QuotaAnswer == [ok: BOOLEAN, unlimited: BOOLEAN, limit: Nat, usage: Nat]

NoAccount == "no account"

ASSUME ChunkSizeAssumption == ChunkSize \in Nat \ {0}
ASSUME SizesAssumption == Sizes \subseteq Nat
ASSUME QuotasAssumption == Quotas \subseteq QuotaAnswer
ASSUME MaxInt64Assumption ==
  MaxInt64 \in Nat /\ \A q \in Quotas : q.limit <= MaxInt64
ASSUME NoAccountAssumption == NoAccount \notin Accounts

VARIABLES
  phase,       \* "plan", "loop", then "placed", "refused" or "unhealthy"
  size,        \* the declared size of the file
  quota,       \* what each account answers when this call asks for its quota
  single,      \* singleAccount, or NoAccount when a tracker is used
  available,   \* t.available: the budget left on each limited account
  unlimited,   \* t.unlimited, as a set of accounts
  remaining,   \* bytes of the file not yet cut into chunks
  placed       \* the chunks placed so far: account and length of each

placementVars ==
  <<phase, size, quota, single, available, unlimited, remaining, placed>>

-----------------------------------------------------------------------------
(* QuotaInfo.Available: a limited account over its limit has 0 bytes.      *)
Available(q) ==
  IF q.unlimited THEN MaxInt64
  ELSE IF q.limit <= q.usage THEN 0
  ELSE q.limit - q.usage

Healthy == {a \in Accounts : quota[a].ok}

(* pickAccount sorts by available bytes, descending, and takes the first;  *)
(* the sort is not stable, so any account with the maximum may come first. *)
PickAccount ==
  {a \in Healthy : \A b \in Healthy : Available(quota[b]) <= Available(quota[a])}

(* Mutant of NumChunks: rounds up once too often.                          *)
NumChunksOffByOne == IF size > 0 THEN (size + ChunkSize) \div ChunkSize ELSE 1

(* Number of pieces; an empty file still has one (empty) piece.            *)
NumChunks == IF size > 0 THEN (size + ChunkSize - 1) \div ChunkSize ELSE 1

(* Mutants of Reservable: the first account found that is not overdrawn;   *)
(* the largest budget even when it is negative.                            *)
ReservableFirstFit ==
  IF unlimited # {} THEN unlimited
  ELSE {a \in DOMAIN available : available[a] > -1}
ReservableOverdrawn ==
  IF unlimited # {} THEN unlimited
  ELSE {a \in DOMAIN available :
          \A b \in DOMAIN available : available[b] <= available[a]}

(* reserve: any unlimited account, else an account with the largest budget *)
(* if that budget is not negative (bestAvail starts at -1).  The length of *)
(* the chunk plays no part in the choice.                                  *)
Reservable ==
  IF unlimited # {} THEN unlimited
  ELSE {a \in DOMAIN available :
          /\ available[a] > -1
          /\ \A b \in DOMAIN available : available[b] <= available[a]}

(* Mutant of BudgetsSpent: an account with nothing left counts as spent.   *)
BudgetsSpentAtZero ==
  unlimited = {} /\ \A b \in DOMAIN available : available[b] <= 0

(* reserve fails: no budget beats bestAvail, which starts at -1.           *)
BudgetsSpent ==
  unlimited = {} /\ \A b \in DOMAIN available : available[b] <= -1

(* Mutant of Deduct: a full chunk is deducted for the short last piece.    *)
DeductFullChunk(a, n) ==
  IF unlimited # {} THEN available
  ELSE [available EXCEPT ![a] = @ - ChunkSize]

(* reserve deducts the piece from the budget of a limited account.         *)
Deduct(a, n) ==
  IF unlimited # {} THEN available
  ELSE [available EXCEPT ![a] = @ - n]

(* Mutant of NextLen: the last piece is not cut to what remains.           *)
NextLenFull == ChunkSize

(* The length of the next piece.                                           *)
NextLen == IF remaining < ChunkSize THEN remaining ELSE ChunkSize

-----------------------------------------------------------------------------
Init ==
  /\ phase = "plan"
  /\ size \in Sizes
  /\ quota \in [Accounts -> Quotas]
  /\ single = NoAccount
  /\ available = [a \in {} |-> 0]
  /\ unlimited = {}
  /\ remaining = size
  /\ placed = <<>>

(* One chunk: pickAccount.                                                 *)
PlanSingle ==
  /\ phase = "plan"
  /\ NumChunks = 1
  /\ single' \in PickAccount
  /\ phase' = "loop"
  /\ UNCHANGED <<size, quota, available, unlimited, remaining, placed>>

(* Several chunks: newPlacementTracker.                                    *)
PlanTracker ==
  /\ phase = "plan"
  /\ NumChunks > 1
  /\ Healthy # {}
  /\ unlimited' = {a \in Healthy : quota[a].unlimited}
  /\ available' = [a \in {b \in Healthy : ~quota[b].unlimited} |->
                     Available(quota[a])]
  /\ phase' = "loop"
  /\ UNCHANGED <<size, quota, single, remaining, placed>>

(* Both plans return ErrNoHealthyAccounts when no account answers.         *)
PlanFails ==
  /\ phase = "plan"
  /\ Healthy = {}
  /\ phase' = "unhealthy"
  /\ UNCHANGED <<size, quota, single, available, unlimited, remaining, placed>>

More == phase = "loop" /\ Len(placed) < NumChunks

(* One iteration of the loop: cut a piece, choose its account.             *)
Place(a) ==
  /\ More
  /\ IF single # NoAccount
       THEN a = single /\ UNCHANGED available
       ELSE a \in Reservable /\ available' = Deduct(a, NextLen)
  /\ placed' = Append(placed, [acc |-> a, len |-> NextLen])
  /\ remaining' = remaining - NextLen
  /\ UNCHANGED <<phase, size, quota, single, unlimited>>

(* reserve fails: no unlimited account, and every budget is negative.  The *)
(* piece has been read by then, so remaining has been reduced.             *)
Refuse ==
  /\ More
  /\ single = NoAccount
  /\ BudgetsSpent
  /\ phase' = "refused"
  /\ remaining' = remaining - NextLen
  /\ UNCHANGED <<size, quota, single, available, unlimited, placed>>

(* The loop ends.                                                          *)
AllPlaced ==
  /\ phase = "loop"
  /\ Len(placed) = NumChunks
  /\ phase' = "placed"
  /\ UNCHANGED <<size, quota, single, available, unlimited, remaining, placed>>

Finished ==
  /\ phase \in {"placed", "refused", "unhealthy"}
  /\ UNCHANGED placementVars

Next ==
  \/ PlanSingle
  \/ PlanTracker
  \/ PlanFails
  \/ \E a \in Accounts : Place(a)
  \/ Refuse
  \/ AllPlaced
  \/ Finished

Spec == Init /\ [][Next]_placementVars

-----------------------------------------------------------------------------
Chunk == [acc: Accounts, len: Nat]

TypeOK ==
  /\ phase \in {"plan", "loop", "placed", "refused", "unhealthy"}
  /\ size \in Nat
  /\ quota \in [Accounts -> QuotaAnswer]
  /\ single \in Accounts \cup {NoAccount}
  /\ unlimited \subseteq Accounts
  /\ DOMAIN available \subseteq Accounts
  /\ available \in [DOMAIN available -> Int]
  /\ remaining \in Nat
  /\ placed \in Seq(Chunk)

Got(a) == \E i \in 1..Len(placed) : placed[i].acc = a

(* The sum of a sequence of numbers, as the last of its partial sums.      *)
Total(s) ==
  LET sum[i \in 0..Len(s)] == IF i = 0 THEN 0 ELSE sum[i - 1] + s[i]
  IN  sum[Len(s)]

(* Bytes of the file placed on account a, and on all accounts.             *)
LenOn(a) ==
  [i \in 1..Len(placed) |-> IF placed[i].acc = a THEN placed[i].len ELSE 0]
BytesOn(a) == Total(LenOn(a))

PieceLens == [i \in 1..Len(placed) |-> placed[i].len]
BytesPlaced == Total(PieceLens)

(***************************************************************************)
(* Spread.  The tracker balances: whenever an account holds a chunk of the *)
(* file, no other account has more than one chunk's worth of budget above  *)
(* what is left on it.  (reserve, "most free space first" per chunk.)      *)
(***************************************************************************)
Balanced ==
  \A a, b \in DOMAIN available :
    Got(a) => available[b] - available[a] <= ChunkSize

(***************************************************************************)
(* reserve does not look at the length of the chunk, so a budget can go    *)
(* below zero, but by less than or exactly one chunk: no account is        *)
(* committed to more than its free space and one chunk.                    *)
(***************************************************************************)
OvercommitBounded ==
  \A a \in DOMAIN available : available[a] >= -ChunkSize

(***************************************************************************)
(* The tracker's budget is an exact account of what was placed: the free   *)
(* space an account reported is what is left plus what it was given.       *)
(***************************************************************************)
BudgetExact ==
  \A a \in DOMAIN available :
    available[a] + BytesOn(a) = Available(quota[a])

(***************************************************************************)
(* A call that is refused half-way (reserve returns ErrNoHealthyAccounts   *)
(* inside the loop) is refused only when every healthy account has been    *)
(* given more bytes than it reported free, and none is unlimited.          *)
(***************************************************************************)
RefusedOnlyWhenFull ==
  phase = "refused" =>
    /\ Healthy # {}
    /\ \A a \in Healthy :
         ~quota[a].unlimited /\ BytesOn(a) > Available(quota[a])

(***************************************************************************)
(* When the loop has placed every chunk the pieces make up the file: all   *)
(* bytes are in, every piece but the last is full, none but that of an     *)
(* empty file is empty.                                                    *)
(***************************************************************************)
SplitIsWhole ==
  /\ phase = "placed" => remaining = 0 /\ BytesPlaced = size
  /\ \A i \in 1..Len(placed) :
       /\ i < NumChunks => placed[i].len = ChunkSize
       /\ size > 0 => placed[i].len > 0
=============================================================================
