-------------------------- MODULE PlacementProofs --------------------------
(***************************************************************************)
(* Proofs about Placement for every set of accounts, every quota answer,   *)
(* every file size and every chunk size.                                   *)
(***************************************************************************)
EXTENDS Placement, SequenceTheorems, WellFoundedInduction, TLAPS

USE DEF placementVars

-----------------------------------------------------------------------------
(* Sums of sequences.                                                      *)

(***************************************************************************)
(* f holds the partial sums of the sequence s.                             *)
(***************************************************************************)
Sums(f, s) ==
  /\ f \in [0..Len(s) -> Int]
  /\ f[0] = 0
  /\ \A i \in 1..Len(s) : f[i] = f[i - 1] + s[i]

(***************************************************************************)
(* A nonempty set of naturals has a smallest member. The lemmas below use  *)
(* it in the place of induction: a smallest counterexample has a           *)
(* predecessor that is none.                                               *)
(***************************************************************************)
LEMMA SmallestIn ==
  ASSUME NEW S, S \subseteq Nat, S # {}
  PROVE  \E x \in S : \A y \in S : x <= y
<1> DEFINE Less == {p \in Nat \X Nat : p[1] < p[2]}
<1>1. IsWellFoundedOn(Less, Nat)
  BY NatLessThanWellFounded DEF OpToRel
<1>2. PICK x \in S : \A y \in S : ~(<<y, x>> \in Less)
  <2> HIDE DEF Less
  <2> QED BY <1>1, WFMin
<1>3. \A y \in S : x \in Nat /\ y \in Nat /\ ~(y < x)
  BY <1>2
<1> QED
  BY <1>3

(***************************************************************************)
(* A solution of the recursive equation in Total agrees with the partial   *)
(* sums.                                                                   *)
(***************************************************************************)
LEMMA SumsUnique ==
  ASSUME NEW s \in Seq(Int), NEW f, Sums(f, s), NEW g,
         g = [i \in 0..Len(s) |-> IF i = 0 THEN 0 ELSE g[i - 1] + s[i]]
  PROVE  g[Len(s)] = f[Len(s)]
<1> DEFINE D == {i \in 0..Len(s) : g[i] # f[i]}
<1>0. Len(s) \in Nat
  OBVIOUS
<1>1. \A i \in 0..Len(s) : g[i] = IF i = 0 THEN 0 ELSE g[i - 1] + s[i]
  <2> TAKE i \in 0..Len(s)
  <2> DEFINE h == [k \in 0..Len(s) |-> IF k = 0 THEN 0 ELSE g[k - 1] + s[k]]
  <2>1. h[i] = IF i = 0 THEN 0 ELSE g[i - 1] + s[i]
    OBVIOUS
  <2>2. g = h
    OBVIOUS
  <2> HIDE DEF h
  <2> QED
    BY <2>1, <2>2
<1>2. ASSUME D # {} PROVE FALSE
  <2>1. PICK d \in D : \A e \in D : d <= e
    <3>1. D \subseteq Nat
      BY <1>0
    <3> HIDE DEF D
    <3> QED BY <1>2, <3>1, SmallestIn
  <2>2. d # 0
    BY <1>0, <1>1 DEF Sums
  <2>3. d - 1 \in 0..Len(s) /\ d \in 1..Len(s) /\ d - 1 \notin D
    <3>1. d \in Nat /\ d <= Len(s)
      BY <1>0, <2>1
    <3>2. d - 1 \notin D
      <4>1. ~(d <= d - 1)
        BY <3>1
      <4> HIDE DEF D
      <4> QED BY <2>1, <4>1
    <3> QED
      BY <1>0, <2>2, <3>1, <3>2
  <2>4. g[d - 1] = f[d - 1] /\ f[d] = f[d - 1] + s[d]
    BY <2>3 DEF Sums
  <2>5. g[d] = g[d - 1] + s[d]
    BY <1>1, <2>2, <2>3
  <2> QED
    BY <2>3, <2>4, <2>5
<1>3. Len(s) \in 0..Len(s)
  BY <1>0
<1>4. Len(s) \notin D
  <2> HIDE DEF D
  <2> QED BY <1>2
<1> QED
  BY <1>3, <1>4

(***************************************************************************)
(* Total is the last partial sum, whichever function holds them.           *)
(***************************************************************************)
LEMMA SumsTotal ==
  ASSUME NEW s \in Seq(Int), NEW f, Sums(f, s)
  PROVE  Total(s) = f[Len(s)]
<1> DEFINE Rec(g) == g = [i \in 0..Len(s) |-> IF i = 0 THEN 0 ELSE g[i - 1] + s[i]]
<1>0. Len(s) \in Nat
  OBVIOUS
<1>1. Rec(f)
  <2>1. \A i \in 0..Len(s) : f[i] = IF i = 0 THEN 0 ELSE f[i - 1] + s[i]
    BY <1>0 DEF Sums
  <2> QED
    BY <2>1 DEF Sums
<1>2. Rec(CHOOSE g : Rec(g))
  <2> HIDE DEF Rec
  <2> QED BY <1>1
<1>3. Total(s) = (CHOOSE g : Rec(g))[Len(s)]
  BY DEF Total
<1> QED
  BY <1>2, <1>3, SumsUnique
(***************************************************************************)
(* Every sequence of numbers has partial sums.                             *)
(***************************************************************************)
LEMMA SumsExist ==
  ASSUME NEW s \in Seq(Int)
  PROVE  \E f : Sums(f, s)
<1> DEFINE Upto(f, n) == /\ f \in [0..n -> Int] /\ f[0] = 0
                         /\ \A i \in 1..n : f[i] = f[i - 1] + s[i]
           D == {n \in 0..Len(s) : ~\E f : Upto(f, n)}
<1>0. Len(s) \in Nat /\ \A i \in 1..Len(s) : s[i] \in Int
  OBVIOUS
<1>1. ASSUME D # {} PROVE FALSE
  <2>1. PICK d \in D : \A e \in D : d <= e
    <3>1. D \subseteq Nat
      BY <1>0
    <3> HIDE DEF D
    <3> QED BY <1>1, <3>1, SmallestIn
  <2>2. d \in Nat /\ d <= Len(s) /\ ~\E f : Upto(f, d)
    BY <1>0
  <2>3. d # 0
    <3>1. Upto([i \in 0..0 |-> 0], 0)
      OBVIOUS
    <3> HIDE DEF Upto
    <3> QED BY <2>2, <3>1
  <2>4. d - 1 \in 0..Len(s) /\ d \in 1..Len(s)
    BY <1>0, <2>2, <2>3
  <2>5. PICK f : Upto(f, d - 1)
    <3>1. ~(d <= d - 1)
      BY <2>2
    <3>2. d - 1 \notin D
      <4> HIDE DEF D
      <4> QED BY <2>1, <3>1
    <3> QED
      BY <2>4, <3>2
  <2> DEFINE g == [i \in 0..d |-> IF i = d THEN f[d - 1] + s[d] ELSE f[i]]
  <2>6. s[d] \in Int /\ f[d - 1] \in Int
    BY <1>0, <2>2, <2>4, <2>5
  <2>7. g \in [0..d -> Int]
    BY <2>2, <2>5, <2>6
  <2>8. /\ \A i \in 0..d : g[i] = IF i = d THEN f[d - 1] + s[d] ELSE f[i]
    OBVIOUS
  <2> HIDE DEF g
  <2>9. g[0] = 0 /\ g[d] = g[d - 1] + s[d]
    BY <2>2, <2>3, <2>5, <2>8
  <2>10. ASSUME NEW i \in 1..d PROVE g[i] = g[i - 1] + s[i]
    <3>1. CASE i = d
      BY <2>9, <3>1
    <3>2. CASE i # d
      <4>1. i \in 1..(d - 1) /\ i - 1 \in 0..d /\ i - 1 # d /\ i \in 0..d
        BY <2>2, <3>2
      <4>2. g[i] = f[i] /\ g[i - 1] = f[i - 1]
        BY <2>8, <3>2, <4>1
      <4> QED
        BY <2>5, <4>1, <4>2
    <3> QED
      BY <3>1, <3>2
  <2>11. Upto(g, d)
    BY <2>7, <2>9, <2>10
  <2> HIDE DEF Upto
  <2> QED
    BY <2>2, <2>11
<1>2. Len(s) \in 0..Len(s)
  BY <1>0
<1>3. Len(s) \notin D
  <2> HIDE DEF D
  <2> QED BY <1>1
<1>4. PICK f : Upto(f, Len(s))
  <2> HIDE DEF Upto
  <2> QED BY <1>2, <1>3
<1>5. Sums(f, s)
  BY <1>4 DEF Sums
<1> QED
  BY <1>5

(***************************************************************************)
(* Nothing adds up to 0.                                                   *)
(***************************************************************************)
LEMMA TotalEmpty == Total(<<>>) = 0
<1>1. Sums([i \in 0..0 |-> 0], <<>>)
  BY DEF Sums
<1>2. Total(<<>>) = [i \in 0..0 |-> 0][Len(<<>>)]
  BY <1>1, SumsTotal
<1> QED
  BY <1>2

(***************************************************************************)
(* A sequence with one more element adds up to that much more.             *)
(***************************************************************************)
LEMMA TotalAppend ==
  ASSUME NEW s \in Seq(Int), NEW t \in Seq(Int), NEW x \in Int,
         Len(t) = Len(s) + 1, t[Len(t)] = x, \A i \in 1..Len(s) : t[i] = s[i]
  PROVE  Total(t) = Total(s) + x /\ Total(s) \in Int
<1>0. Len(s) \in Nat
  OBVIOUS
<1>1. PICK f : Sums(f, t)
  BY SumsExist
<1> DEFINE g == [i \in 0..Len(s) |-> f[i]]
<1>2. Sums(g, s)
  <2>1. f \in [0..(Len(s) + 1) -> Int] /\ f[0] = 0
    BY <1>1 DEF Sums
  <2>2. \A i \in 1..Len(s) : f[i] = f[i - 1] + t[i] /\ t[i] = s[i]
    BY <1>0, <1>1 DEF Sums
  <2>3. g \in [0..Len(s) -> Int] /\ g[0] = 0
    BY <1>0, <2>1
  <2>4. \A i \in 1..Len(s) : g[i] = f[i] /\ g[i - 1] = f[i - 1]
    BY <1>0
  <2> QED
    BY <2>2, <2>3, <2>4 DEF Sums
<1>3. Total(t) = f[Len(t)] /\ Total(s) = g[Len(s)]
  <2> HIDE DEF g
  <2> QED BY <1>1, <1>2, SumsTotal
<1>4. g[Len(s)] = f[Len(s)] /\ g[Len(s)] \in Int
  <2>1. g[Len(s)] \in Int
    <3> HIDE DEF g
    <3> QED BY <1>0, <1>2 DEF Sums
  <2> QED
    BY <1>0, <2>1
<1>5. f[Len(t)] = f[Len(t) - 1] + t[Len(t)]
  BY <1>0, <1>1 DEF Sums
<1> QED
  BY <1>0, <1>3, <1>4, <1>5

(***************************************************************************)
(* A sequence of numbers adds up to a number.                              *)
(***************************************************************************)
LEMMA TotalInt ==
  ASSUME NEW s \in Seq(Int)
  PROVE  Total(s) \in Int
<1>1. PICK f : Sums(f, s)
  BY SumsExist
<1>2. f[Len(s)] \in Int
  BY <1>1 DEF Sums
<1> QED
  BY <1>1, <1>2, SumsTotal

(***************************************************************************)
(* Division with remainder, and products.                                  *)
(***************************************************************************)
LEMMA QuotientBounds ==
  ASSUME NEW x \in Nat, NEW c \in Nat, c > 0
  PROVE  x \div c \in Nat /\ (x \div c) * c <= x /\ x < (x \div c) * c + c
OBVIOUS

LEMMA ProductMonotonic ==
  ASSUME NEW m \in Nat, NEW n \in Nat, NEW c \in Nat, m <= n
  PROVE  m * c <= n * c
OBVIOUS

-----------------------------------------------------------------------------
(* The tracker.                                                            *)

(***************************************************************************)
(* A piece is never longer than what remains of the file, nor than a chunk.*)
(***************************************************************************)
LEMMA NextLenBounds ==
  ASSUME remaining \in Nat
  PROVE  NextLen \in Nat /\ NextLen <= ChunkSize /\ NextLen <= remaining
BY ChunkSizeAssumption DEF NextLen

(***************************************************************************)
(* QuotaInfo.Available is a number of bytes, never negative.               *)
(***************************************************************************)
LEMMA AvailableNat ==
  ASSUME NEW q \in QuotaAnswer
  PROVE  Available(q) \in Nat
BY MaxInt64Assumption DEF Available, QuotaAnswer

(***************************************************************************)
(* Type correctness of the placement loop.                                 *)
(***************************************************************************)
THEOREM PlacementTypeOK == Spec => []TypeOK
<1>1. Init => TypeOK
  BY SizesAssumption, QuotasAssumption DEF Init, TypeOK
<1>2. TypeOK /\ [Next]_placementVars => TypeOK'
  <2> SUFFICES ASSUME TypeOK, [Next]_placementVars PROVE TypeOK'
    OBVIOUS
  <2>1. CASE PlanSingle
    BY <2>1 DEF PlanSingle, PickAccount, Healthy, TypeOK
  <2>2. CASE PlanTracker
    <3>1. \A a \in Accounts : Available(quota[a]) \in Nat
      BY AvailableNat DEF TypeOK
    <3> QED
      BY <2>2, <3>1 DEF PlanTracker, Healthy, TypeOK
  <2>3. CASE PlanFails
    BY <2>3 DEF PlanFails, TypeOK
  <2>4. ASSUME NEW a \in Accounts, Place(a) PROVE TypeOK'
    <3>1. NextLen \in Nat /\ NextLen <= remaining
      BY NextLenBounds DEF TypeOK
    <3>2. [acc |-> a, len |-> NextLen] \in Chunk
      BY <3>1 DEF Chunk
    <3>3. placed' \in Seq(Chunk) /\ remaining' \in Nat
      BY <2>4, <3>1, <3>2 DEF Place, TypeOK
    <3>4. /\ DOMAIN available' = DOMAIN available
          /\ available' \in [DOMAIN available -> Int]
      BY <2>4, <3>1 DEF Place, Deduct, TypeOK
    <3> QED
      BY <2>4, <3>3, <3>4 DEF Place, TypeOK
  <2>5. CASE Refuse
    BY <2>5, NextLenBounds DEF Refuse, TypeOK
  <2>6. CASE AllPlaced
    BY <2>6 DEF AllPlaced, TypeOK
  <2>7. CASE Finished \/ UNCHANGED placementVars
    BY <2>7 DEF Finished, TypeOK
  <2> QED
    BY <2>1, <2>2, <2>3, <2>4, <2>5, <2>6, <2>7 DEF Next
<1> QED
  BY <1>1, <1>2, PTL DEF Spec

(***************************************************************************)
(* The inductive invariant.  Balanced and OvercommitBounded are preserved  *)
(* by every reservation, but a tracker is only created when nothing has    *)
(* been placed, and a call with a single account has no tracker: Untouched *)
(* and TrackerShape carry those two facts.                                 *)
(***************************************************************************)
Untouched == phase = "plan" => placed = <<>> /\ single = NoAccount

TrackerShape ==
  /\ phase \in {"plan", "unhealthy"} \/ single # NoAccount =>
       DOMAIN available = {} /\ unlimited = {}
  /\ phase \in {"loop", "placed", "refused"} /\ single = NoAccount =>
       /\ Healthy # {}
       /\ unlimited = {a \in Healthy : quota[a].unlimited}
       /\ DOMAIN available = {a \in Healthy : ~quota[a].unlimited}

(***************************************************************************)
(* A refused call leaves every healthy account limited and overdrawn.      *)
(***************************************************************************)
RefusedOverdrawn ==
  phase = "refused" =>
    /\ Healthy # {}
    /\ \A a \in Healthy : /\ ~quota[a].unlimited
                          /\ a \in DOMAIN available
                          /\ available[a] < 0

PlacementInv ==
  /\ TypeOK
  /\ Untouched
  /\ TrackerShape
  /\ Balanced
  /\ OvercommitBounded
  /\ RefusedOverdrawn
(***************************************************************************)
(* Appending one chunk adds its account to those that hold a chunk.        *)
(***************************************************************************)
LEMMA GotAfterPlace ==
  ASSUME TypeOK, NEW a \in Accounts, Place(a), NEW c \in Accounts, Got(c)'
  PROVE  Got(c) \/ c = a
<1>1. PICK i \in 1..Len(placed') : placed'[i].acc = c
  BY DEF Got
<1>2. placed' = Append(placed, [acc |-> a, len |-> NextLen])
  BY DEF Place
<1>3. CASE i \in 1..Len(placed)
  BY <1>1, <1>2, <1>3 DEF Got, TypeOK
<1>4. CASE i = Len(placed) + 1
  BY <1>1, <1>2, <1>4 DEF TypeOK
<1> QED
  BY <1>1, <1>2, <1>3, <1>4 DEF TypeOK

(***************************************************************************)
(* One reservation keeps the budgets balanced and bounded below: it takes  *)
(* from a largest budget, and only from one that is not negative.          *)
(***************************************************************************)
LEMMA PlaceKeepsBudget ==
  ASSUME PlacementInv, NEW a \in Accounts, Place(a)
  PROVE  Balanced' /\ OvercommitBounded'
<1>1. /\ NextLen \in Nat
      /\ NextLen <= ChunkSize
      /\ ChunkSize \in Nat
  BY NextLenBounds, ChunkSizeAssumption DEF PlacementInv, TypeOK
<1>2. CASE UNCHANGED available /\ DOMAIN available = {}
  BY <1>2 DEF Balanced, OvercommitBounded
<1>3. CASE single = NoAccount /\ unlimited # {}
  <2>1. a \notin DOMAIN available
    BY <1>3 DEF Place, More, Reservable, PlacementInv, TrackerShape
  <2>2. available' = available
    BY <1>3 DEF Place, Deduct
  <2>3. \A c \in DOMAIN available : Got(c)' => Got(c)
    BY <2>1, GotAfterPlace DEF PlacementInv, TypeOK
  <2> QED
    BY <2>2, <2>3 DEF PlacementInv, Balanced, OvercommitBounded
<1>4. CASE single = NoAccount /\ unlimited = {}
  <2>1. /\ a \in DOMAIN available
        /\ available[a] > -1
        /\ \A b \in DOMAIN available : available[b] <= available[a]
        /\ available' = [available EXCEPT ![a] = @ - NextLen]
    BY <1>4 DEF Place, Reservable, Deduct
  <2>2. \A b \in DOMAIN available : available[b] \in Int
    BY DEF PlacementInv, TypeOK
  <2>3. /\ DOMAIN available' = DOMAIN available
        /\ available'[a] = available[a] - NextLen
        /\ \A b \in DOMAIN available : b # a => available'[b] = available[b]
    BY <2>1, <2>2 DEF PlacementInv, TypeOK
  <2>4. ASSUME NEW c \in DOMAIN available, NEW b \in DOMAIN available, Got(c)'
        PROVE  available'[b] - available'[c] <= ChunkSize
    <3>1. c = a \/ Got(c)
      BY <2>4, GotAfterPlace DEF PlacementInv, TypeOK
    <3>2. CASE c = a
      BY <3>2, <1>1, <2>1, <2>2, <2>3
    <3>3. CASE c # a /\ Got(c)
      <4>1. available[b] - available[c] <= ChunkSize
        BY <3>3 DEF PlacementInv, Balanced
      <4> QED
        BY <4>1, <3>3, <1>1, <2>2, <2>3
    <3> QED
      BY <3>1, <3>2, <3>3
  <2>5. \A b \in DOMAIN available : available'[b] >= -ChunkSize
    BY <1>1, <2>1, <2>2, <2>3 DEF PlacementInv, OvercommitBounded
  <2> QED
    BY <2>3, <2>4, <2>5 DEF Balanced, OvercommitBounded
<1>5. CASE single # NoAccount
  BY <1>5, <1>2 DEF Place, PlacementInv, TrackerShape
<1> QED
  BY <1>3, <1>4, <1>5

(***************************************************************************)
(* PlacementInv is an invariant.                                           *)
(***************************************************************************)
THEOREM PlacementInvariant == Spec => []PlacementInv
<1>1. Init => PlacementInv
  <2> SUFFICES ASSUME Init PROVE PlacementInv
    OBVIOUS
  <2>1. TypeOK
    BY SizesAssumption, QuotasAssumption DEF Init, TypeOK
  <2> QED
    BY <2>1 DEF Init, PlacementInv, Untouched, TrackerShape, Balanced,
                OvercommitBounded, RefusedOverdrawn
<1>2. PlacementInv /\ TypeOK' /\ [Next]_placementVars => PlacementInv'
  <2> SUFFICES ASSUME PlacementInv, TypeOK', [Next]_placementVars
               PROVE  PlacementInv'
    OBVIOUS
  <2>1. CASE PlanSingle
    <3>1. single' # NoAccount
      BY <2>1, NoAccountAssumption DEF PlanSingle, PickAccount, Healthy
    <3> QED
      BY <2>1, <3>1 DEF PlanSingle, PlacementInv, Untouched, TrackerShape,
           Balanced, OvercommitBounded, RefusedOverdrawn
  <2>2. CASE PlanTracker
    <3>1. \A c \in Accounts : ~Got(c)'
      BY <2>2 DEF PlanTracker, Got, PlacementInv, Untouched
    <3>2. DOMAIN available' \subseteq Accounts
      BY DEF TypeOK
    <3>3. Balanced'
      BY <3>1, <3>2 DEF Balanced
    <3>4. \A c \in DOMAIN available' : available'[c] \in Nat
      BY <2>2, <3>2, AvailableNat DEF PlanTracker, Healthy, PlacementInv, TypeOK
    <3>5. OvercommitBounded'
      BY <3>4, ChunkSizeAssumption DEF OvercommitBounded
    <3>6. TrackerShape'
      BY <2>2 DEF PlanTracker, PlacementInv, Untouched, TrackerShape, Healthy
    <3> QED
      BY <2>2, <3>3, <3>5, <3>6 DEF PlanTracker, PlacementInv, Untouched,
           RefusedOverdrawn
  <2>3. CASE PlanFails
    BY <2>3 DEF PlanFails, PlacementInv, Untouched, TrackerShape, Balanced,
         OvercommitBounded, RefusedOverdrawn, Got
  <2>4. ASSUME NEW a \in Accounts, Place(a) PROVE PlacementInv'
    <3>1. Balanced' /\ OvercommitBounded'
      BY <2>4, PlaceKeepsBudget
    <3>2. phase = "loop" /\ phase' = "loop" /\ UNCHANGED <<quota, single, unlimited>>
      BY <2>4 DEF Place, More
    <3>3. DOMAIN available' = DOMAIN available
      BY <2>4 DEF Place, Deduct, PlacementInv, TypeOK
    <3>4. TrackerShape'
      BY <3>2, <3>3 DEF PlacementInv, TrackerShape, Healthy
    <3> QED
      BY <3>1, <3>2, <3>4 DEF PlacementInv, Untouched, RefusedOverdrawn
  <2>5. CASE Refuse
    <3>1. phase = "loop" /\ single = NoAccount /\ BudgetsSpent
      BY <2>5 DEF Refuse, More
    <3>2. unlimited = {}
      BY <3>1 DEF BudgetsSpent
    <3>3. TrackerShape'
      BY <2>5, <3>1 DEF Refuse, PlacementInv, TrackerShape, Healthy
    <3>4. \A c \in DOMAIN available : available[c] < 0
      BY <3>1 DEF BudgetsSpent, PlacementInv, TypeOK
    <3> QED
      BY <2>5, <3>1, <3>2, <3>3, <3>4 DEF Refuse, PlacementInv, Untouched,
           TrackerShape, Balanced, OvercommitBounded, RefusedOverdrawn, Healthy, Got
  <2>6. CASE AllPlaced
    BY <2>6 DEF AllPlaced, PlacementInv, Untouched, TrackerShape, Balanced,
         OvercommitBounded, RefusedOverdrawn, Healthy, Got
  <2>7. CASE Finished \/ UNCHANGED placementVars
    BY <2>7 DEF Finished, PlacementInv, Untouched, TrackerShape, Balanced,
         OvercommitBounded, RefusedOverdrawn, Healthy, Got
  <2> QED
    BY <2>1, <2>2, <2>3, <2>4, <2>5, <2>6, <2>7 DEF Next
<1> QED
  BY <1>1, <1>2, PlacementTypeOK, PTL DEF Spec
(***************************************************************************)
(* The tracker's spread: for every run of PutStream's loop, an account     *)
(* that holds a chunk is never more than one chunk's budget behind another *)
(* account.                                                                *)
(***************************************************************************)
THEOREM SpreadIsBalanced == Spec => []Balanced
BY PlacementInvariant, PTL DEF PlacementInv

(***************************************************************************)
(* reserve never commits an account beyond its free space by more than one *)
(* chunk.                                                                  *)
(***************************************************************************)
THEOREM OvercommitIsBounded == Spec => []OvercommitBounded
BY PlacementInvariant, PTL DEF PlacementInv

(***************************************************************************)
(* ErrNoHealthyAccounts in the middle of a file means that every healthy   *)
(* account is limited and overdrawn.                                       *)
(***************************************************************************)
THEOREM RefusalMeansOverdrawn == Spec => []RefusedOverdrawn
BY PlacementInvariant, PTL DEF PlacementInv

-----------------------------------------------------------------------------
(* The bytes: the budgets and the pieces.                                  *)

(***************************************************************************)
(* A function on 1..n is a sequence of length n.                           *)
(***************************************************************************)
LEMMA NumberSeq ==
  ASSUME NEW n \in Nat, NEW f \in [1..n -> Int]
  PROVE  f \in Seq(Int) /\ Len(f) = n
<1>1. f \in Seq(Int)
  BY SeqDef
<1>2. Len(f) \in Nat /\ 1..Len(f) = 1..n
  BY <1>1, LenProperties
<1> QED
  BY <1>1, <1>2

(***************************************************************************)
(* The sequences that are added up are sequences of numbers.               *)
(***************************************************************************)
LEMMA LenOnSeq ==
  ASSUME NEW p \in Seq(Chunk), NEW c
  PROVE  LET s == [i \in 1..Len(p) |-> IF p[i].acc = c THEN p[i].len ELSE 0]
         IN  s \in Seq(Int) /\ Len(s) = Len(p)
<1>1. \A i \in 1..Len(p) : p[i] \in Chunk
  OBVIOUS
<1>2. \A i \in 1..Len(p) : p[i].len \in Int
  BY <1>1 DEF Chunk
<1> DEFINE s == [i \in 1..Len(p) |-> IF p[i].acc = c THEN p[i].len ELSE 0]
<1>3. s \in [1..Len(p) -> Int] /\ Len(p) \in Nat
  BY <1>2
<1> HIDE DEF s
<1>4. s \in Seq(Int) /\ Len(s) = Len(p)
  BY <1>3, NumberSeq
<1> QED
  BY <1>4 DEF s

LEMMA PieceLensSeq ==
  ASSUME NEW p \in Seq(Chunk)
  PROVE  LET s == [i \in 1..Len(p) |-> p[i].len]
         IN  s \in Seq(Int) /\ Len(s) = Len(p)
<1>1. \A i \in 1..Len(p) : p[i] \in Chunk
  OBVIOUS
<1>2. \A i \in 1..Len(p) : p[i].len \in Int
  BY <1>1 DEF Chunk
<1> DEFINE s == [i \in 1..Len(p) |-> p[i].len]
<1>3. s \in [1..Len(p) -> Int] /\ Len(p) \in Nat
  BY <1>2
<1> HIDE DEF s
<1>4. s \in Seq(Int) /\ Len(s) = Len(p)
  BY <1>3, NumberSeq
<1> QED
  BY <1>4 DEF s

(***************************************************************************)
(* Before anything is placed there are no bytes anywhere.                  *)
(***************************************************************************)
LEMMA NothingPlaced ==
  ASSUME placed = <<>>
  PROVE  BytesPlaced = 0 /\ \A c : BytesOn(c) = 0
<1>1. Len(placed) = 0 /\ placed \in Seq(Chunk)
  OBVIOUS
<1>2. PieceLens = <<>> /\ \A c : LenOn(c) = <<>>
  BY <1>1 DEF PieceLens, LenOn
<1> QED
  BY <1>2, TotalEmpty DEF BytesPlaced, BytesOn

(***************************************************************************)
(* One iteration of the loop puts one piece on one account.                *)
(***************************************************************************)
LEMMA PlaceAddsBytes ==
  ASSUME TypeOK, TypeOK', NEW a \in Accounts, Place(a)
  PROVE  /\ BytesPlaced \in Int /\ BytesPlaced' = BytesPlaced + NextLen
         /\ \A c \in Accounts :
              /\ BytesOn(c) \in Int
              /\ BytesOn(c)' = BytesOn(c) + IF c = a THEN NextLen ELSE 0
<1>1. /\ placed \in Seq(Chunk) /\ placed' \in Seq(Chunk) /\ Len(placed) \in Nat
      /\ placed' = Append(placed, [acc |-> a, len |-> NextLen])
  BY DEF TypeOK, Place
<1>2. NextLen \in Int
  BY NextLenBounds DEF TypeOK
<1>3. /\ Len(placed') = Len(placed) + 1
      /\ placed'[Len(placed')] = [acc |-> a, len |-> NextLen]
      /\ \A i \in 1..Len(placed) : placed'[i] = placed[i] /\ i \in 1..Len(placed')
      /\ Len(placed') \in 1..Len(placed')
  BY <1>1
<1>4. BytesPlaced \in Int /\ BytesPlaced' = BytesPlaced + NextLen
  <2>1. /\ PieceLens \in Seq(Int) /\ Len(PieceLens) = Len(placed)
        /\ PieceLens' \in Seq(Int) /\ Len(PieceLens') = Len(placed')
    BY <1>1, PieceLensSeq DEF PieceLens
  <2>2. PieceLens'[Len(placed')] = NextLen
    BY <1>3 DEF PieceLens
  <2>3. \A i \in 1..Len(placed) : PieceLens'[i] = PieceLens[i]
    BY <1>3 DEF PieceLens
  <2> QED
    BY <1>2, <1>3, <2>1, <2>2, <2>3, TotalAppend DEF BytesPlaced
<1>5. ASSUME NEW c \in Accounts
      PROVE  /\ BytesOn(c) \in Int
             /\ BytesOn(c)' = BytesOn(c) + IF c = a THEN NextLen ELSE 0
  <2> DEFINE x == IF c = a THEN NextLen ELSE 0
  <2>1. /\ LenOn(c) \in Seq(Int) /\ Len(LenOn(c)) = Len(placed)
        /\ LenOn(c)' \in Seq(Int) /\ Len(LenOn(c)') = Len(placed')
    <3>0. placed \in Seq(Chunk) /\ placed' \in Seq(Chunk)
      BY <1>1
    <3>1. LenOn(c) \in Seq(Int) /\ Len(LenOn(c)) = Len(placed)
      BY <3>0, LenOnSeq, Zenon DEF LenOn
    <3>2. (LenOn(c) \in Seq(Int) /\ Len(LenOn(c)) = Len(placed))'
      BY <3>0, LenOnSeq, Zenon DEF LenOn
    <3> QED
      BY <3>1, <3>2
  <2>2. LenOn(c)'[Len(placed')] = x
    BY <1>3 DEF LenOn
  <2>3. \A i \in 1..Len(placed) : LenOn(c)'[i] = LenOn(c)[i]
    BY <1>3 DEF LenOn
  <2>4. x \in Int
    BY <1>2
  <2> HIDE DEF x
  <2>5. BytesOn(c) \in Int /\ BytesOn(c)' = BytesOn(c) + x
    BY <1>3, <2>1, <2>2, <2>3, <2>4, TotalAppend DEF BytesOn
  <2> QED
    BY <2>5 DEF x
<1> QED
  BY <1>4, <1>5

(***************************************************************************)
(* The tracker's books balance: an iteration takes from one budget what it *)
(* adds to that account's bytes; with an unlimited account, or with a      *)
(* single one, no budget and no limited account's bytes change.            *)
(***************************************************************************)
THEOREM BudgetIsExact == Spec => []BudgetExact
<1>1. Init => BudgetExact
  BY DEF Init, BudgetExact
<1>2. BudgetExact /\ PlacementInv /\ TypeOK' /\ [Next]_placementVars => BudgetExact'
  <2> SUFFICES ASSUME BudgetExact, PlacementInv, TypeOK', [Next]_placementVars
               PROVE  BudgetExact'
    OBVIOUS
  <2>1. CASE PlanTracker
    <3>1. placed = <<>> /\ placed' = placed
      BY <2>1 DEF PlanTracker, PlacementInv, Untouched
    <3>2. \A c : BytesOn(c)' = BytesOn(c) /\ BytesOn(c) = 0
      BY <3>1, NothingPlaced DEF BytesOn, LenOn
    <3>3. \A c \in DOMAIN available' : available'[c] = Available(quota'[c])
                                       /\ available'[c] \in Int
      BY <2>1 DEF PlanTracker, TypeOK
    <3> QED
      BY <3>2, <3>3 DEF BudgetExact
  <2>2. ASSUME NEW a \in Accounts, Place(a) PROVE BudgetExact'
    <3>1. NextLen \in Nat /\ quota' = quota
      BY <2>2, NextLenBounds DEF PlacementInv, TypeOK, Place
    <3>2. \A c \in Accounts : /\ BytesOn(c) \in Int
                              /\ BytesOn(c)' = BytesOn(c) + IF c = a THEN NextLen ELSE 0
      BY <2>2, PlaceAddsBytes DEF PlacementInv
    <3>3. /\ DOMAIN available' = DOMAIN available
          /\ DOMAIN available \subseteq Accounts
          /\ \A c \in DOMAIN available : /\ available[c] \in Int
                /\ available'[c] = available[c] - IF c = a THEN NextLen ELSE 0
      <4>1. /\ DOMAIN available \subseteq Accounts
            /\ \A c \in DOMAIN available : available[c] \in Int
        BY DEF PlacementInv, TypeOK
      <4>2. CASE single # NoAccount
        BY <2>2, <4>1, <4>2 DEF Place, More, PlacementInv, TrackerShape
      <4>3. CASE single = NoAccount /\ unlimited # {}
        <5>1. a \notin DOMAIN available /\ available' = available
          BY <2>2, <4>3 DEF Place, More, Reservable, Deduct, PlacementInv, TrackerShape
        <5> QED
          BY <4>1, <5>1
      <4>4. CASE single = NoAccount /\ unlimited = {}
        <5>1. a \in DOMAIN available /\ available' = [available EXCEPT ![a] = @ - NextLen]
          BY <2>2, <4>4 DEF Place, Reservable, Deduct
        <5>2. available \in [DOMAIN available -> Int]
          BY DEF PlacementInv, TypeOK
        <5> QED
          BY <3>1, <4>1, <5>1, <5>2
      <4> QED
        BY <4>2, <4>3, <4>4
    <3> QED
      BY <3>1, <3>2, <3>3 DEF BudgetExact
  <2>3. CASE PlanSingle \/ PlanFails \/ Refuse \/ AllPlaced \/ Finished
              \/ UNCHANGED placementVars
    <3>1. UNCHANGED <<quota, available, placed>>
      BY <2>3 DEF PlanSingle, PlanFails, Refuse, AllPlaced, Finished
    <3> QED
      BY <3>1 DEF BudgetExact, BytesOn, LenOn
  <2> QED
    BY <2>1, <2>2, <2>3 DEF Next
<1> QED
  BY <1>1, <1>2, PlacementInvariant, PlacementTypeOK, PTL DEF Spec

(***************************************************************************)
(* ErrNoHealthyAccounts in the middle of a file means that every healthy   *)
(* account was given more than it reported free: its budget is negative,   *)
(* and the budgets are exact.                                              *)
(***************************************************************************)
THEOREM RefusalOnlyWhenFull == Spec => []RefusedOnlyWhenFull
<1>1. BudgetExact /\ PlacementInv => RefusedOnlyWhenFull
  <2> SUFFICES ASSUME BudgetExact, PlacementInv, phase = "refused",
                      NEW a \in Healthy
               PROVE  ~quota[a].unlimited /\ BytesOn(a) > Available(quota[a])
    BY DEF RefusedOnlyWhenFull, PlacementInv, RefusedOverdrawn
  <2>1. ~quota[a].unlimited /\ a \in DOMAIN available /\ available[a] < 0
    BY DEF PlacementInv, RefusedOverdrawn
  <2>2. available[a] + BytesOn(a) = Available(quota[a]) /\ available[a] \in Int
    BY <2>1 DEF BudgetExact, PlacementInv, TypeOK
  <2>3. BytesOn(a) \in Int
    <3>1. placed \in Seq(Chunk)
      BY DEF PlacementInv, TypeOK
    <3>2. LenOn(a) \in Seq(Int)
      BY <3>1, LenOnSeq, Zenon DEF LenOn
    <3> QED
      BY <3>2, TotalInt DEF BytesOn
  <2> QED
    BY <2>1, <2>2, <2>3
<1> QED
  BY <1>1, BudgetIsExact, PlacementInvariant, PTL

(***************************************************************************)
(* The number of pieces is the size divided by the chunk size, rounded up. *)
(***************************************************************************)
LEMMA NumChunksBounds ==
  ASSUME size \in Nat
  PROVE  /\ NumChunks \in Nat \ {0}
         /\ size > 0 => /\ (NumChunks - 1) * ChunkSize < size
                        /\ size <= NumChunks * ChunkSize
         /\ size = 0 => NumChunks = 1
<1>1. CASE size = 0
  BY <1>1 DEF NumChunks
<1>2. CASE size > 0
  <2> DEFINE x == size + ChunkSize - 1
             n == x \div ChunkSize
  <2>1. x \in Nat /\ ChunkSize \in Nat /\ ChunkSize > 0 /\ NumChunks = n
    BY <1>2, ChunkSizeAssumption DEF NumChunks
  <2>2. n \in Nat /\ n * ChunkSize <= x /\ x < n * ChunkSize + ChunkSize
    <3> HIDE DEF x
    <3> QED BY <2>1, QuotientBounds
  <2> HIDE DEF n
  <2>3. size <= n * ChunkSize
    BY <2>1, <2>2
  <2>4. n # 0
    BY <1>2, <2>1, <2>3
  <2>5. (n - 1) * ChunkSize = n * ChunkSize - ChunkSize
    BY <2>1, <2>2
  <2>6. (n - 1) * ChunkSize < size
    BY <2>1, <2>2, <2>5
  <2> QED
    BY <1>2, <2>1, <2>2, <2>3, <2>4, <2>6
<1> QED
  BY <1>1, <1>2

(***************************************************************************)
(* What the loop keeps true of the pieces: nothing of the file is lost     *)
(* between what is placed and what remains, and what remains is all that   *)
(* follows the full pieces.                                                *)
(***************************************************************************)
Cut ==
  /\ Len(placed) <= NumChunks
  /\ phase = "placed" => Len(placed) = NumChunks
  /\ phase # "refused" =>
       /\ BytesPlaced + remaining = size
       /\ remaining = IF Len(placed) < NumChunks
                        THEN size - Len(placed) * ChunkSize ELSE 0
  /\ \A i \in 1..Len(placed) :
       /\ i < NumChunks => placed[i].len = ChunkSize
       /\ size > 0 => placed[i].len > 0

(***************************************************************************)
(* The piece the loop is about to cut: a full one unless it is the last,   *)
(* which takes what is left.                                               *)
(***************************************************************************)
LEMMA NextPiece ==
  ASSUME TypeOK, Cut, More
  PROVE  /\ Len(placed) + 1 < NumChunks =>
              /\ NextLen = ChunkSize
              /\ remaining - NextLen = size - (Len(placed) + 1) * ChunkSize
         /\ Len(placed) + 1 = NumChunks => NextLen = remaining
         /\ size > 0 => NextLen > 0
<1> DEFINE n == Len(placed)
<1>1. /\ n \in Nat /\ n < NumChunks /\ remaining = size - n * ChunkSize
      /\ size \in Nat /\ remaining \in Nat
      /\ ChunkSize \in Nat /\ ChunkSize > 0
  BY ChunkSizeAssumption DEF TypeOK, Cut, More
<1>2. /\ NumChunks \in Nat \ {0}
      /\ size > 0 => /\ (NumChunks - 1) * ChunkSize < size
                     /\ size <= NumChunks * ChunkSize
      /\ size = 0 => NumChunks = 1
  BY <1>1, NumChunksBounds
<1> HIDE DEF n
<1>3. (n + 1) * ChunkSize = n * ChunkSize + ChunkSize /\ n * ChunkSize \in Nat
  BY <1>1
<1>4. CASE n + 1 < NumChunks
  <2>1. size > 0
    BY <1>1, <1>2, <1>4
  <2>2. (n + 1) * ChunkSize <= (NumChunks - 1) * ChunkSize
    <3>1. n + 1 \in Nat /\ NumChunks - 1 \in Nat /\ n + 1 <= NumChunks - 1
      BY <1>1, <1>2, <1>4
    <3> QED
      BY <1>1, <3>1, ProductMonotonic
  <2>3. (NumChunks - 1) * ChunkSize \in Int
    BY <1>1, <1>2
  <2>4. ChunkSize < remaining
    BY <1>1, <1>2, <1>3, <2>1, <2>2, <2>3
  <2>5. NextLen = ChunkSize
    BY <1>1, <2>4 DEF NextLen
  <2>6. remaining - NextLen = size - (n + 1) * ChunkSize
    BY <1>1, <1>3, <2>5
  <2> QED
    BY <1>1, <1>2, <1>4, <2>5, <2>6 DEF n
<1>5. CASE n + 1 = NumChunks
  <2>1. n = NumChunks - 1 /\ n + 1 = NumChunks
    BY <1>1, <1>2, <1>5
  <2>2. size > 0 => n * ChunkSize < size /\ size <= (n + 1) * ChunkSize
    BY <1>2, <2>1
  <2>3. remaining <= ChunkSize /\ (size > 0 => remaining > 0)
    BY <1>1, <1>3, <2>2
  <2>4. NextLen = remaining
    BY <1>1, <2>3 DEF NextLen
  <2> QED
    BY <1>1, <1>2, <1>5, <2>3, <2>4 DEF n
<1> QED
  BY <1>1, <1>2, <1>4, <1>5

(***************************************************************************)
(* Cut is an invariant of the loop.                                        *)
(***************************************************************************)
LEMMA CutInvariant == Spec => []Cut
<1>1. Init => Cut
  <2> SUFFICES ASSUME Init PROVE Cut
    OBVIOUS
  <2>1. placed = <<>> /\ Len(placed) = 0 /\ remaining = size /\ size \in Nat
        /\ phase = "plan"
    BY SizesAssumption DEF Init
  <2>2. BytesPlaced = 0 /\ NumChunks \in Nat \ {0}
    BY <2>1, NothingPlaced, NumChunksBounds
  <2>3. Len(placed) * ChunkSize = 0
    BY <2>1, ChunkSizeAssumption
  <2> QED
    BY <2>1, <2>2, <2>3 DEF Cut
<1>2. Cut /\ PlacementInv /\ TypeOK' /\ [Next]_placementVars => Cut'
  <2> SUFFICES ASSUME Cut, PlacementInv, TypeOK', [Next]_placementVars
               PROVE  Cut'
    OBVIOUS
  <2>0. TypeOK
    BY DEF PlacementInv
  <2>1. ASSUME NEW a \in Accounts, Place(a) PROVE Cut'
    <3>1. /\ placed' = Append(placed, [acc |-> a, len |-> NextLen])
          /\ remaining' = remaining - NextLen
          /\ UNCHANGED <<phase, size>>
          /\ More /\ phase = "loop" /\ Len(placed) < NumChunks
      BY <2>1 DEF Place, More
    <3>2. /\ Len(placed) \in Nat /\ placed \in Seq(Chunk) /\ size \in Nat
          /\ remaining \in Nat /\ NextLen \in Nat /\ ChunkSize \in Nat
      BY <2>0, NextLenBounds, ChunkSizeAssumption DEF TypeOK
    <3>3. NumChunks' = NumChunks /\ NumChunks \in Nat
      BY <3>1, <3>2, NumChunksBounds DEF NumChunks
    <3>4. Len(placed') = Len(placed) + 1
      BY <3>1, <3>2
    <3>5. BytesPlaced \in Int /\ BytesPlaced' = BytesPlaced + NextLen
      BY <2>0, <2>1, PlaceAddsBytes
    <3>6. /\ Len(placed) + 1 < NumChunks =>
               /\ NextLen = ChunkSize
               /\ remaining - NextLen = size - (Len(placed) + 1) * ChunkSize
          /\ Len(placed) + 1 = NumChunks => NextLen = remaining
          /\ size > 0 => NextLen > 0
      BY <2>0, <3>1, NextPiece
    <3>7. BytesPlaced' + remaining' = size'
      BY <3>1, <3>2, <3>5 DEF Cut
    <3>8. remaining' = IF Len(placed') < NumChunks'
                         THEN size' - Len(placed') * ChunkSize ELSE 0
      BY <3>1, <3>2, <3>3, <3>4, <3>6
    <3>9. ASSUME NEW i \in 1..Len(placed')
          PROVE  /\ i < NumChunks' => placed'[i].len = ChunkSize
                 /\ size' > 0 => placed'[i].len > 0
      <4>1. CASE i \in 1..Len(placed)
        <5>1. placed'[i] = placed[i]
          BY <3>1, <3>2, <4>1
        <5> QED
          BY <3>1, <3>3, <4>1, <5>1 DEF Cut
      <4>2. CASE i = Len(placed) + 1
        <5>1. placed'[i].len = NextLen
          BY <3>1, <3>2, <4>2
        <5> QED
          BY <3>1, <3>2, <3>3, <3>6, <4>2, <5>1
      <4> QED
        BY <3>2, <3>4, <4>1, <4>2
    <3>10. Len(placed') <= NumChunks' /\ phase' # "placed" /\ phase' # "refused"
      BY <3>1, <3>2, <3>3, <3>4
    <3> QED
      BY <3>7, <3>8, <3>9, <3>10 DEF Cut
  <2>2. CASE Refuse
    <3>1. phase' = "refused" /\ UNCHANGED <<placed, size>>
      BY <2>2 DEF Refuse
    <3> QED
      BY <3>1 DEF Cut, NumChunks
  <2>3. CASE PlanSingle \/ PlanTracker \/ PlanFails \/ AllPlaced \/ Finished
              \/ UNCHANGED placementVars
    <3>1. UNCHANGED <<size, remaining, placed>>
      BY <2>3 DEF PlanSingle, PlanTracker, PlanFails, AllPlaced, Finished
    <3>2. /\ phase' = "placed" => phase = "placed" \/ Len(placed) = NumChunks
          /\ phase' # "refused" => phase # "refused"
      BY <2>3 DEF PlanSingle, PlanTracker, PlanFails, AllPlaced, Finished
    <3>3. BytesPlaced' = BytesPlaced /\ NumChunks' = NumChunks
      BY <3>1 DEF BytesPlaced, PieceLens, NumChunks
    <3> QED
      BY <3>1, <3>2, <3>3 DEF Cut
  <2> QED
    BY <2>1, <2>2, <2>3 DEF Next
<1> QED
  BY <1>1, <1>2, PlacementInvariant, PlacementTypeOK, PTL DEF Spec

(***************************************************************************)
(* The pieces of a file that is placed make up the file, whatever its size *)
(* and whatever the chunk size: no byte is lost, none is stored twice.     *)
(***************************************************************************)
THEOREM SplitMakesWhole == Spec => []SplitIsWhole
<1>1. Cut /\ PlacementInv => SplitIsWhole
  <2> SUFFICES ASSUME Cut, PlacementInv PROVE SplitIsWhole
    OBVIOUS
  <2>1. placed \in Seq(Chunk) /\ size \in Nat /\ Len(placed) \in Nat
    BY DEF PlacementInv, TypeOK
  <2>2. NumChunks \in Nat
    BY <2>1, NumChunksBounds
  <2>3. ASSUME phase = "placed" PROVE remaining = 0 /\ BytesPlaced = size
    <3>1. Len(placed) = NumChunks /\ remaining = 0 /\ BytesPlaced + remaining = size
      BY <2>1, <2>2, <2>3 DEF Cut
    <3>2. PieceLens \in Seq(Int)
      BY <2>1, PieceLensSeq DEF PieceLens
    <3>3. BytesPlaced \in Int
      BY <3>2, TotalInt DEF BytesPlaced
    <3> QED
      BY <3>1, <3>3
  <2> QED
    BY <2>3 DEF Cut, SplitIsWhole
<1> QED
  BY <1>1, CutInvariant, PlacementInvariant, PTL

-----------------------------------------------------------------------------
(* pickAccount and reserve always come to a decision.                      *)

(***************************************************************************)
(* No budget exceeds what an int64 holds: it starts at the account's free  *)
(* space and is only ever reduced.                                         *)
(***************************************************************************)
BudgetsFit ==
  /\ quota \in [Accounts -> Quotas]
  /\ \A a \in DOMAIN available : available[a] <= MaxInt64

(***************************************************************************)
(* A limited account's free space is within its limit.                     *)
(***************************************************************************)
LEMMA AvailableFits ==
  ASSUME NEW q \in Quotas
  PROVE  Available(q) \in Nat /\ Available(q) <= MaxInt64
<1>1. q \in QuotaAnswer /\ q.limit <= MaxInt64
  BY QuotasAssumption, MaxInt64Assumption
<1>2. q.limit \in Nat /\ q.usage \in Nat
  BY <1>1 DEF QuotaAnswer
<1> QED
  BY <1>1, <1>2, MaxInt64Assumption DEF Available

LEMMA BudgetsAlwaysFit == Spec => []BudgetsFit
<1>1. Init => BudgetsFit
  BY DEF Init, BudgetsFit
<1>2. BudgetsFit /\ PlacementInv /\ [Next]_placementVars => BudgetsFit'
  <2> SUFFICES ASSUME BudgetsFit, PlacementInv, [Next]_placementVars PROVE BudgetsFit'
    OBVIOUS
  <2>1. CASE PlanTracker
    <3>1. \A a \in Accounts : Available(quota[a]) <= MaxInt64
      BY AvailableFits DEF BudgetsFit
    <3> QED
      BY <2>1, <3>1 DEF PlanTracker, Healthy, BudgetsFit
  <2>2. ASSUME NEW a \in Accounts, Place(a) PROVE BudgetsFit'
    <3>1. NextLen \in Nat
      BY NextLenBounds DEF PlacementInv, TypeOK
    <3>2. available \in [DOMAIN available -> Int] /\ MaxInt64 \in Nat
      BY MaxInt64Assumption DEF PlacementInv, TypeOK
    <3>3. available' = available \/ available' = [available EXCEPT ![a] = @ - NextLen]
      BY <2>2 DEF Place, Deduct
    <3>4. \A c \in DOMAIN available' : available'[c] <= MaxInt64
      BY <3>1, <3>2, <3>3 DEF BudgetsFit
    <3> QED
      BY <2>2, <3>4 DEF Place, BudgetsFit
  <2>3. CASE PlanSingle \/ PlanFails \/ Refuse \/ AllPlaced \/ Finished
              \/ UNCHANGED placementVars
    <3>1. UNCHANGED <<quota, available>>
      BY <2>3 DEF PlanSingle, PlanFails, Refuse, AllPlaced, Finished
    <3> QED
      BY <3>1 DEF BudgetsFit
  <2> QED
    BY <2>1, <2>2, <2>3 DEF Next
<1> QED
  BY <1>1, <1>2, PlacementInvariant, PTL DEF Spec

(***************************************************************************)
(* Numbers that are bounded above have a largest among them, even if there *)
(* are infinitely many.                                                    *)
(***************************************************************************)
LEMMA LargestOf ==
  ASSUME NEW S, S # {}, NEW f, \A a \in S : f[a] \in Int,
         NEW m \in Int, \A a \in S : f[a] <= m
  PROVE  \E a \in S : \A b \in S : f[b] <= f[a]
<1> DEFINE D == {m - f[a] : a \in S}
<1>1. D \subseteq Nat /\ D # {}
  <2>1. \A a \in S : m - f[a] \in Nat
    OBVIOUS
  <2> QED
    BY <2>1
<1>2. PICK d \in D : \A e \in D : d <= e
  <2> HIDE DEF D
  <2> QED BY <1>1, SmallestIn
<1>3. PICK a \in S : d = m - f[a]
  BY <1>2
<1>4. ASSUME NEW b \in S PROVE f[b] <= f[a]
  <2>1. m - f[a] <= m - f[b]
    BY <1>2, <1>3
  <2> QED
    BY <2>1
<1> QED
  BY <1>4

(***************************************************************************)
(* The sort of pickAccount has a first account whenever one is healthy.    *)
(***************************************************************************)
PickDecides == Healthy = {} \/ PickAccount # {}

(***************************************************************************)
(* reserve either finds an account or reports ErrNoHealthyAccounts.        *)
(***************************************************************************)
ReserveDecides == Reservable # {} \/ BudgetsSpent

(***************************************************************************)
(* The placement of a file never hangs half-way: before every piece either *)
(* there is an account for it or the call is refused.                      *)
(***************************************************************************)
THEOREM PlacementDecides == Spec => [](PickDecides /\ ReserveDecides)
<1>1. BudgetsFit => PickDecides
  <2> SUFFICES ASSUME BudgetsFit, Healthy # {} PROVE PickAccount # {}
    BY DEF PickDecides
  <2> DEFINE f == [a \in Accounts |-> Available(quota[a])]
  <2>1. \A a \in Healthy : f[a] = Available(quota[a]) /\ f[a] \in Nat /\ f[a] <= MaxInt64
    BY AvailableFits DEF BudgetsFit, Healthy
  <2> HIDE DEF f
  <2>2. PICK a \in Healthy : \A b \in Healthy : f[b] <= f[a]
    <3>1. (\A a \in Healthy : f[a] \in Int /\ f[a] <= MaxInt64) /\ MaxInt64 \in Int
      BY <2>1, MaxInt64Assumption
    <3> QED
      BY <3>1, LargestOf
  <2>3. a \in PickAccount
    BY <2>1, <2>2 DEF PickAccount
  <2> QED
    BY <2>3
<1>2. BudgetsFit /\ TypeOK => ReserveDecides
  <2> SUFFICES ASSUME BudgetsFit, TypeOK, ~BudgetsSpent PROVE Reservable # {}
    BY DEF ReserveDecides
  <2>1. CASE unlimited # {}
    BY <2>1 DEF Reservable
  <2>2. CASE unlimited = {}
    <3>1. /\ \A a \in DOMAIN available : available[a] \in Int /\ available[a] <= MaxInt64
          /\ MaxInt64 \in Int
      BY MaxInt64Assumption DEF BudgetsFit, TypeOK
    <3>2. PICK c \in DOMAIN available : ~(available[c] <= -1)
      BY <2>2 DEF BudgetsSpent
    <3>3. PICK a \in DOMAIN available :
            \A b \in DOMAIN available : available[b] <= available[a]
      BY <3>1, <3>2, LargestOf
    <3>4. available[a] > -1
      BY <3>1, <3>2, <3>3
    <3>5. a \in Reservable
      BY <2>2, <3>3, <3>4 DEF Reservable
    <3> QED
      BY <3>5
  <2> QED
    BY <2>1, <2>2
<1> QED
  BY <1>1, <1>2, BudgetsAlwaysFit, PlacementTypeOK, PTL
=============================================================================
