------------------------ MODULE YieldfyProgramProofs ------------------------
(***************************************************************************)
(* Proofs about YieldfyProgram, for any number of users, keys, venues and  *)
(* slots and any width of u64; and about AttestScan: verify, as coded,     *)
(* accepts exactly what Verified says, which is what YieldfyProgram takes  *)
(* it for, for any list of instructions and any scan limit.                *)
(***************************************************************************)
EXTENDS YieldfyProgram, AttestScan, Integers, FiniteSetTheorems, TLAPS

-----------------------------------------------------------------------------
(* Totals behave like sums. *)

\* Finitely many accounts hold finitely many units.
LEMMA UnitsFinite ==
    ASSUME NEW S, IsFiniteSet(S), NEW max \in Nat, NEW f
    PROVE  IsFiniteSet(UnitsOf(f, S, max))
<1>1. IsFiniteSet(1..max)
  BY FS_Interval
<1>2. IsFiniteSet(S \X (1..max))
  BY <1>1, FS_Product
<1>3. UnitsOf(f, S, max) \in SUBSET (S \X (1..max))
  BY DEF UnitsOf
<1> QED BY <1>2, <1>3, FS_Subset

\* The total of a function on a finite set is a natural number.
LEMMA TotalType ==
    ASSUME NEW S, IsFiniteSet(S), NEW max \in Nat, NEW f
    PROVE  Total(f, S, max) \in Nat
  BY UnitsFinite, FS_CardinalityType DEF Total

\* The units of one argument, numbered a+1 to b.
LEMMA ColumnCardinality ==
    ASSUME NEW u, NEW a \in Nat, NEW b \in Nat, a <= b
    PROVE  /\ IsFiniteSet({u} \X ((a + 1)..b))
           /\ Cardinality({u} \X ((a + 1)..b)) = b - a
<1>1. IsFiniteSet({u}) /\ Cardinality({u}) = 1
  BY FS_Singleton
<1>2. a + 1 \in Int /\ b \in Int
  OBVIOUS
<1>3. /\ IsFiniteSet((a + 1)..b)
      /\ Cardinality((a + 1)..b) = IF a + 1 > b THEN 0 ELSE b - (a + 1) + 1
  BY <1>2, FS_Interval
<1>4. Cardinality((a + 1)..b) = b - a
  BY <1>3
<1>5. /\ IsFiniteSet({u} \X ((a + 1)..b))
      /\ Cardinality({u} \X ((a + 1)..b)) = Cardinality({u}) * Cardinality((a + 1)..b)
  BY <1>1, <1>3, FS_Product
<1> QED BY <1>1, <1>4, <1>5

\* Raising one argument by n raises the total by n.
LEMMA TotalAdd ==
    ASSUME NEW S, IsFiniteSet(S), NEW max \in Nat,
           NEW f \in [S -> 0..max], NEW g \in [S -> 0..max],
           NEW u \in S, NEW n \in Nat,
           g[u] = f[u] + n,
           \A x \in S \ {u} : g[x] = f[x]
    PROVE  Total(g, S, max) = Total(f, S, max) + n
<1> DEFINE F == UnitsOf(f, S, max)
           G == UnitsOf(g, S, max)
           D == {u} \X ((f[u] + 1)..g[u])
<1>1. f[u] \in Nat /\ g[u] \in Nat /\ f[u] <= g[u] /\ g[u] <= max /\ g[u] - f[u] = n
  OBVIOUS
<1>2. IsFiniteSet(D) /\ Cardinality(D) = n
  BY <1>1, ColumnCardinality
<1>3. G = F \cup D
  BY <1>1 DEF UnitsOf
<1>4. F \cap D = {}
  BY <1>1 DEF UnitsOf
<1>5. IsFiniteSet(F) /\ Cardinality(F) \in Nat
  BY UnitsFinite, FS_CardinalityType
<1>6. Cardinality(F \cup D) = Cardinality(F) + Cardinality(D) - Cardinality(F \cap D)
  BY <1>2, <1>5, FS_Union
<1>7. Cardinality(F \cap D) = 0
  BY <1>4, FS_EmptySet
<1> QED BY <1>2, <1>3, <1>5, <1>6, <1>7 DEF Total

\* Moving n from one argument to another leaves the total alone.
LEMMA TotalMove ==
    ASSUME NEW S, IsFiniteSet(S), NEW max \in Nat,
           NEW f \in [S -> 0..max], NEW g \in [S -> 0..max],
           NEW u \in S, NEW v \in S, u # v, NEW n \in Nat,
           f[u] = g[u] + n, g[v] = f[v] + n,
           \A x \in S \ {u, v} : g[x] = f[x]
    PROVE  Total(g, S, max) = Total(f, S, max)
<1> DEFINE h == [f EXCEPT ![u] = g[u]]
<1>1. h \in [S -> 0..max]
  OBVIOUS
<1>2. Total(f, S, max) = Total(h, S, max) + n
  <2>1. f[u] = h[u] + n /\ \A x \in S \ {u} : f[x] = h[x]
    OBVIOUS
  <2> HIDE DEF h
  <2> QED BY <1>1, <2>1, TotalAdd
<1>3. Total(g, S, max) = Total(h, S, max) + n
  <2>1. g[v] = h[v] + n /\ \A x \in S \ {v} : g[x] = h[x]
    OBVIOUS
  <2> HIDE DEF h
  <2> QED BY <1>1, <2>1, TotalAdd
<1> QED BY <1>2, <1>3

\* No single argument exceeds the total.
LEMMA TotalBound ==
    ASSUME NEW S, IsFiniteSet(S), NEW max \in Nat,
           NEW f \in [S -> 0..max], NEW u \in S
    PROVE  f[u] <= Total(f, S, max)
<1> DEFINE D == {u} \X ((0 + 1)..f[u])
<1>1. f[u] \in Nat /\ f[u] <= max
  OBVIOUS
<1>2. IsFiniteSet(D) /\ Cardinality(D) = f[u]
  <2>1. 0 \in Nat /\ 0 <= f[u] /\ f[u] - 0 = f[u]
    BY <1>1
  <2>2. IsFiniteSet(D) /\ Cardinality(D) = f[u] - 0
    BY <1>1, <2>1, ColumnCardinality
  <2> QED BY <2>1, <2>2
<1>3. D \in SUBSET UnitsOf(f, S, max)
  BY <1>1 DEF UnitsOf
<1> QED BY <1>2, <1>3, UnitsFinite, FS_Subset DEF Total

\* Nor do two arguments together.
LEMMA TotalBoundTwo ==
    ASSUME NEW S, IsFiniteSet(S), NEW max \in Nat,
           NEW f \in [S -> 0..max], NEW u \in S, NEW v \in S, u # v
    PROVE  f[u] + f[v] <= Total(f, S, max)
<1> DEFINE h == [f EXCEPT ![u] = 0]
<1>1. h \in [S -> 0..max] /\ f[u] \in Nat /\ h[v] = f[v] /\ f[v] \in Nat
  OBVIOUS
<1>2. f[u] = h[u] + f[u] /\ \A x \in S \ {u} : f[x] = h[x]
  OBVIOUS
<1> HIDE DEF h
<1>3. Total(f, S, max) = Total(h, S, max) + f[u]
  BY <1>1, <1>2, TotalAdd
<1>4. h[v] <= Total(h, S, max)
  BY <1>1, TotalBound
<1> QED BY <1>1, <1>3, <1>4, TotalType

\* A function that is zero everywhere has total zero.
LEMMA TotalZero ==
    ASSUME NEW S, NEW max \in Nat, NEW f, \A x \in S : f[x] = 0
    PROVE  Total(f, S, max) = 0
<1>1. UnitsOf(f, S, max) = {}
  BY DEF UnitsOf
<1> QED BY <1>1, FS_EmptySet DEF Total

-----------------------------------------------------------------------------
(* The token calls. *)

\* A transfer that the token program accepts keeps balances in range, moves
\* `amount` between two different accounts, and changes nothing else.
LEMMA TransferEffect ==
    ASSUME TypeOK, NEW from \in Holders, NEW to \in Holders,
           NEW amount \in U64, Transfer(from, to, amount)
    PROVE  /\ wxrp' \in [Holders -> U64]
           /\ from = to => wxrp' = wxrp
           /\ from # to => /\ wxrp'[from] = wxrp[from] - amount
                           /\ wxrp'[to] = wxrp[to] + amount
           /\ \A h \in Holders \ {from, to} : wxrp'[h] = wxrp[h]
  BY U64MaxAssumption DEF TypeOK, U64, Transfer, Moved

\* What mint_to does to balances and supply.
LEMMA MintEffect ==
    ASSUME TypeOK, NEW to \in Users, NEW amount \in U64, MintTo(to, amount)
    PROVE  /\ yxrp' \in [Users -> U64]
           /\ yxrpSupply' \in U64
           /\ yxrpSupply' = yxrpSupply + amount
  BY U64MaxAssumption DEF TypeOK, MintTo, U64

\* What burn does to them.
LEMMA BurnEffect ==
    ASSUME TypeOK, NEW from \in Users, NEW amount \in U64, Burn(from, amount)
    PROVE  /\ yxrp' \in [Users -> U64]
           /\ yxrpSupply' \in U64
           /\ yxrpSupply' = yxrpSupply - amount
  BY U64MaxAssumption DEF TypeOK, Burn, U64

\* The saturating operators within their range.
LEMMA Saturation ==
    ASSUME NEW x \in U64, NEW y \in U64
    PROVE  /\ SatAdd(x, y) \in U64 /\ SatSub(x, y) \in U64
           /\ x + y <= U64Max => SatAdd(x, y) = x + y
           /\ y <= x => SatSub(x, y) = x - y
  BY U64MaxAssumption DEF SatAdd, SatSub, U64

-----------------------------------------------------------------------------
(* Type correctness. *)

\* The accounts before initialize.
LEMMA InitType == Init => TypeOK
  BY U64MaxAssumption, VenuesAssumption, InitialWxrpAssumption, UsersAssumption
     DEF Init, TypeOK, U64, Holders, Positions, Configs

\* A deposit keeps the types.
LEMMA DepositType ==
    ASSUME TypeOK, NEW u \in Users, NEW to \in Users, NEW amount \in U64,
           NEW venue, NEW s, NEW ixs, Deposit(u, to, amount, venue, s, ixs)
    PROVE  TypeOK'
<1>1. u \in Holders /\ Vault \in Holders
  BY DEF Holders
<1>2. wxrp' \in [Holders -> U64]
  BY <1>1, TransferEffect DEF Deposit
<1>3. yxrp' \in [Users -> U64] /\ yxrpSupply' \in U64
  BY MintEffect DEF Deposit
<1>4. position' \in [Users -> Positions]
  <2> DEFINE p == position[u]
             q == [open |-> TRUE, venue |-> Kamino,
                   principal |-> SatAdd(p.principal, amount),
                   receipt_supply |-> SatAdd(p.receipt_supply, amount)]
  <2>1. p.principal \in U64 /\ p.receipt_supply \in U64
    BY DEF TypeOK, Positions
  <2>2. q \in Positions
    BY <2>1, Saturation, VenuesAssumption DEF Positions
  <2>3. position' = [position EXCEPT ![u] = q]
    BY DEF Deposit
  <2> QED BY <2>2, <2>3 DEF TypeOK
<1> QED BY <1>2, <1>3, <1>4 DEF Deposit, TypeOK

\* So does a withdrawal,
LEMMA WithdrawType ==
    ASSUME TypeOK, NEW u \in Users, NEW to \in Holders, NEW amount \in U64,
           Withdraw(u, to, amount)
    PROVE  TypeOK'
<1>1. Vault \in Holders
  BY DEF Holders
<1>2. wxrp' \in [Holders -> U64]
  BY <1>1, TransferEffect DEF Withdraw
<1>3. yxrp' \in [Users -> U64] /\ yxrpSupply' \in U64
  BY BurnEffect DEF Withdraw
<1>4. position' \in [Users -> Positions]
  <2> DEFINE p == position[u]
             q == [p EXCEPT !.principal = SatSub(p.principal, amount),
                            !.receipt_supply = SatSub(p.receipt_supply, amount)]
  <2>1. p \in Positions /\ p.principal \in U64 /\ p.receipt_supply \in U64
    BY DEF TypeOK, Positions
  <2>2. q \in Positions
    BY <2>1, Saturation DEF Positions
  <2>3. position' = [position EXCEPT ![u] = q]
    BY <2>1 DEF Withdraw, Positions, TypeOK
  <2> QED BY <2>2, <2>3 DEF TypeOK
<1> QED BY <1>2, <1>3, <1>4 DEF Withdraw, TypeOK

\* whatever else a user does,
LEMMA UserStepType == TypeOK /\ UserStep => TypeOK'
<1> SUFFICES ASSUME TypeOK, NEW u \in Users,
       \/ \E to \in Users, amount \in U64, venue \in Venues, s \in 0..slot :
             \E ixs \in Transactions(venue, s) : Deposit(u, to, amount, venue, s, ixs)
       \/ \E to \in Holders, amount \in U64 : Withdraw(u, to, amount)
       \/ \E venue \in Venues, s \in 0..slot :
             \E ixs \in Transactions(venue, s) : Rebalance(u, venue, s, ixs)
             PROVE TypeOK'
  BY DEF UserStep
<1>1. ASSUME NEW venue \in Venues, NEW s, NEW ixs, Rebalance(u, venue, s, ixs)
      PROVE  TypeOK'
  BY <1>1 DEF Rebalance, TypeOK, tokens, Positions
<1> QED BY <1>1, DepositType, WithdrawType

\* an admin's instruction,
LEMMA AdminStepType == TypeOK /\ AdminStep => TypeOK'
<1> SUFFICES ASSUME TypeOK, NEW k \in Authorities,
       \/ \E a \in Attestors, m \in U64, s \in U64 : Initialize(k, a, m, s)
       \/ \E p \in BOOLEAN : SetPaused(k, p)
       \/ \E m \in U64, s \in U64 : SetCap(k, m, s)
       \/ \E a \in Attestors : RotateAttestor(k, a)
       \/ \E n \in Authorities : RotateAuthority(k, n)
             PROVE TypeOK'
  BY DEF AdminStep
<1>1. ASSUME NEW a \in Attestors, NEW m \in U64, NEW s \in U64,
             Initialize(k, a, m, s)
      PROVE  TypeOK'
  BY <1>1 DEF Initialize, TypeOK, tokens, Configs
<1>2. ASSUME NEW p \in BOOLEAN, SetPaused(k, p) PROVE TypeOK'
  BY <1>2 DEF SetPaused, Admin, TypeOK, tokens, Configs
<1>3. ASSUME NEW m \in U64, NEW s \in U64, SetCap(k, m, s) PROVE TypeOK'
  BY <1>3 DEF SetCap, Admin, TypeOK, tokens, Configs
<1>4. ASSUME NEW a \in Attestors, RotateAttestor(k, a) PROVE TypeOK'
  BY <1>4 DEF RotateAttestor, Admin, TypeOK, tokens, Configs
<1>5. ASSUME NEW n \in Authorities, RotateAuthority(k, n) PROVE TypeOK'
  BY <1>5 DEF RotateAuthority, Admin, TypeOK, tokens, Configs
<1> QED BY <1>1, <1>2, <1>3, <1>4, <1>5

\* a move of tokens,
LEMMA TokenStepType == TypeOK /\ TokenStep => TypeOK'
<1>1. ASSUME TypeOK, HandOverMint PROVE TypeOK'
  BY <1>1 DEF HandOverMint, TypeOK
<1>2. ASSUME TypeOK, NEW u \in Users, NEW to \in Holders, NEW amount \in U64,
             SendWxrp(u, to, amount)
      PROVE  TypeOK'
  <2>1. wxrp' \in [Holders -> U64]
    BY <1>2, TransferEffect DEF SendWxrp, Holders
  <2> QED BY <1>2, <2>1 DEF SendWxrp, TypeOK
<1>3. ASSUME TypeOK, NEW u \in Users, NEW to \in Users, NEW amount \in U64,
             SendYxrp(u, to, amount)
      PROVE  TypeOK'
  BY <1>3, U64MaxAssumption DEF SendYxrp, Moved, TypeOK, U64
<1>4. ASSUME TypeOK, NEW u \in Users, NEW amount \in U64, BurnYxrp(u, amount)
      PROVE  TypeOK'
  <2>1. yxrp' \in [Users -> U64] /\ yxrpSupply' \in U64
    BY <1>4, BurnEffect DEF BurnYxrp
  <2> QED BY <1>4, <2>1 DEF BurnYxrp, TypeOK
<1> QED BY <1>1, <1>2, <1>3, <1>4 DEF TokenStep

\* and thus every step.
LEMMA NextType == TypeOK /\ [Next]_vars => TypeOK'
<1>1. TypeOK /\ Tick => TypeOK'
  BY MaxSlotAssumption DEF Tick, TypeOK, tokens
<1>2. TypeOK /\ UNCHANGED vars => TypeOK'
  BY DEF vars, TypeOK
<1> QED BY <1>1, <1>2, UserStepType, AdminStepType, TokenStepType DEF Next

\* Balances, receipts and caps stay u64 values and positions well formed in
\* every reachable state.
THEOREM TypeCorrect == Spec => []TypeOK
<1> QED BY InitType, NextType, PTL DEF Spec

-----------------------------------------------------------------------------
(***************************************************************************)
(* The money.  Backing alone is not enough to show that a deposit never    *)
(* saturates, nor that a withdrawal always goes through: the inductive     *)
(* invariant also says that tokens are conserved, that the two fields of a *)
(* position agree, and that all receipts together are covered.             *)
(***************************************************************************)
IInv ==
    /\ TypeOK
    /\ Lockstep
    /\ Backing
    /\ ReceiptsCovered
    /\ TokensConserved

\* Users and the vault are finitely many.
LEMMA FiniteHolders == IsFiniteSet(Holders)
  BY UsersAssumption, FS_AddElement DEF Holders

\* Receipts are u64 amounts.
LEMMA ReceiptsType == TypeOK => Receipts \in [Users -> U64]
  BY DEF TypeOK, Receipts, Positions

\* Tokens moved between accounts leave every total as it was.
LEMMA TransferConserves ==
    ASSUME TypeOK, NEW from \in Holders, NEW to \in Holders,
           NEW amount \in U64, Transfer(from, to, amount)
    PROVE  Total(wxrp', Holders, U64Max) = Total(wxrp, Holders, U64Max)
<1> USE U64MaxAssumption DEF U64
<1>1. /\ wxrp \in [Holders -> 0..U64Max]
      /\ wxrp' \in [Holders -> 0..U64Max]
      /\ amount \in Nat
  BY TransferEffect DEF TypeOK
<1>2. CASE from = to
  BY <1>2, TransferEffect
<1>3. CASE from # to
  <2>1. /\ wxrp[from] = wxrp'[from] + amount
        /\ wxrp'[to] = wxrp[to] + amount
        /\ \A h \in Holders \ {from, to} : wxrp'[h] = wxrp[h]
    BY <1>1, <1>3, TransferEffect
  <2> QED BY <1>1, <1>3, <2>1, FiniteHolders, TotalMove, SMTT(30)
<1> QED BY <1>2, <1>3

\* After mint_to the balances still add up to the supply.
LEMMA MintConserves ==
    ASSUME TypeOK, NEW to \in Users, NEW amount \in U64, MintTo(to, amount),
           Total(yxrp, Users, U64Max) = yxrpSupply
    PROVE  Total(yxrp', Users, U64Max) = yxrpSupply'
<1> USE U64MaxAssumption DEF U64
<1>1. /\ yxrp \in [Users -> 0..U64Max] /\ yxrp' \in [Users -> 0..U64Max]
      /\ amount \in Nat
  BY MintEffect DEF TypeOK
<1>2. yxrp'[to] = yxrp[to] + amount /\ \A x \in Users \ {to} : yxrp'[x] = yxrp[x]
  BY DEF MintTo, TypeOK
<1>3. Total(yxrp', Users, U64Max) = Total(yxrp, Users, U64Max) + amount
  BY <1>1, <1>2, UsersAssumption, TotalAdd
<1> QED BY <1>3, MintEffect

\* So they do after a burn.
LEMMA BurnConserves ==
    ASSUME TypeOK, NEW from \in Users, NEW amount \in U64, Burn(from, amount),
           Total(yxrp, Users, U64Max) = yxrpSupply
    PROVE  Total(yxrp', Users, U64Max) = yxrpSupply'
<1> USE U64MaxAssumption DEF U64
<1>1. /\ yxrp \in [Users -> 0..U64Max] /\ yxrp' \in [Users -> 0..U64Max]
      /\ amount \in Nat
  BY BurnEffect DEF TypeOK
<1>2. yxrp[from] = yxrp'[from] + amount /\ \A x \in Users \ {from} : yxrp[x] = yxrp'[x]
  BY <1>1 DEF Burn
<1>3. Total(yxrp, Users, U64Max) = Total(yxrp', Users, U64Max) + amount
  BY <1>1, <1>2, UsersAssumption, TotalAdd
<1>4. Total(yxrp', Users, U64Max) \in Nat
  BY UsersAssumption, TotalType
<1> QED BY <1>1, <1>3, <1>4, BurnEffect

\* A position that gains or loses `n` changes the total of receipts by `n`.
LEMMA ReceiptsGain ==
    ASSUME TypeOK, TypeOK', NEW u \in Users, NEW n \in Nat,
           position'[u].receipt_supply = position[u].receipt_supply + n,
           \A x \in Users \ {u} : position'[x] = position[x]
    PROVE  TotalReceipts' = TotalReceipts + n
<1>1. /\ Receipts \in [Users -> 0..U64Max] /\ Receipts' \in [Users -> 0..U64Max]
      /\ Receipts'[u] = Receipts[u] + n
      /\ \A x \in Users \ {u} : Receipts'[x] = Receipts[x]
  BY DEF Receipts, TypeOK, Positions, U64
<1> QED BY <1>1, UsersAssumption, U64MaxAssumption, TotalAdd DEF TotalReceipts

\* If one user's receipts fall by n, so does their total.
LEMMA ReceiptsLose ==
    ASSUME TypeOK, TypeOK', NEW u \in Users, NEW n \in Nat,
           position[u].receipt_supply = position'[u].receipt_supply + n,
           \A x \in Users \ {u} : position'[x] = position[x]
    PROVE  TotalReceipts = TotalReceipts' + n
<1>1. /\ Receipts \in [Users -> 0..U64Max] /\ Receipts' \in [Users -> 0..U64Max]
      /\ Receipts[u] = Receipts'[u] + n
      /\ \A x \in Users \ {u} : Receipts[x] = Receipts'[x]
  BY DEF Receipts, TypeOK, Positions, U64
<1>2. \A f, g \in [Users -> 0..U64Max] :
         g[u] = f[u] + n /\ (\A x \in Users \ {u} : g[x] = f[x])
         => Total(g, Users, U64Max) = Total(f, Users, U64Max) + n
  BY UsersAssumption, U64MaxAssumption, TotalAdd
<1>3. Total(Receipts, Users, U64Max) = Total(Receipts', Users, U64Max) + n
  BY <1>1, <1>2
<1> QED BY <1>3 DEF TotalReceipts

\* The total of the receipts is a number.
LEMMA TotalReceiptsType == TotalReceipts \in Nat
  BY UsersAssumption, U64MaxAssumption, TotalType DEF TotalReceipts

-----------------------------------------------------------------------------
(* What one instruction does to a position and to the vault, exactly.      *)

\* saturating_add does not saturate: the user's receipts are covered by the
\* vault, and the vault's balance plus the amount fits a u64.
LEMMA DepositEffect ==
    ASSUME IInv, NEW u \in Users, NEW to \in Users, NEW amount \in U64,
           NEW venue, NEW s, NEW ixs, Deposit(u, to, amount, venue, s, ixs)
    PROVE  /\ position'[u].principal = position[u].principal + amount
           /\ position'[u].receipt_supply = position[u].receipt_supply + amount
           /\ \A x \in Users \ {u} : position'[x] = position[x]
           /\ VaultBalance' = VaultBalance + amount
           /\ yxrpSupply' = yxrpSupply + amount
<1> USE U64MaxAssumption DEF U64
<1>1. u \in Holders /\ Vault \in Holders /\ u # Vault
  BY UsersAssumption DEF Holders
<1>2. VaultBalance' = VaultBalance + amount /\ wxrp' \in [Holders -> 0..U64Max]
  BY <1>1, TransferEffect DEF Deposit, VaultBalance, IInv
<1>3. yxrpSupply' = yxrpSupply + amount
  BY MintEffect DEF Deposit, IInv
<1>4. position[u].receipt_supply <= TotalReceipts
  <2>1. Receipts \in [Users -> 0..U64Max] /\ Receipts[u] = position[u].receipt_supply
    BY ReceiptsType DEF IInv, Receipts
  <2>2. Receipts[u] <= TotalReceipts
    BY <2>1, UsersAssumption, TotalBound DEF TotalReceipts
  <2> QED BY <2>1, <2>2
<1>5. /\ position[u].receipt_supply \in 0..U64Max
      /\ position[u].principal = position[u].receipt_supply
      /\ VaultBalance \in 0..U64Max /\ VaultBalance' \in 0..U64Max
      /\ TotalReceipts <= VaultBalance
  BY <1>1, <1>2 DEF IInv, TypeOK, Positions, Lockstep, ReceiptsCovered, VaultBalance
<1>6. position[u].receipt_supply + amount <= U64Max
  BY <1>2, <1>4, <1>5, TotalReceiptsType
<1>7. /\ SatAdd(position[u].principal, amount) = position[u].principal + amount
      /\ SatAdd(position[u].receipt_supply, amount) = position[u].receipt_supply + amount
  BY <1>5, <1>6, Saturation
<1>8. position \in [Users -> Positions]
  BY DEF IInv, TypeOK
<1> QED BY <1>2, <1>3, <1>7, <1>8 DEF Deposit

\* A withdrawal takes the amount off principal, receipts and vault, nobody else's.
LEMMA WithdrawEffect ==
    ASSUME IInv, NEW u \in Users, NEW to \in Holders, NEW amount \in U64,
           Withdraw(u, to, amount)
    PROVE  /\ position[u].principal = position'[u].principal + amount
           /\ position[u].receipt_supply = position'[u].receipt_supply + amount
           /\ position'[u].venue = position[u].venue
           /\ \A x \in Users \ {u} : position'[x] = position[x]
           /\ VaultBalance' = IF to = Vault THEN VaultBalance ELSE VaultBalance - amount
           /\ yxrpSupply' = yxrpSupply - amount
<1> USE U64MaxAssumption DEF U64
<1>1. Vault \in Holders
  BY DEF Holders
<1>2. VaultBalance' = IF to = Vault THEN VaultBalance ELSE VaultBalance - amount
  BY <1>1, TransferEffect DEF Withdraw, VaultBalance, IInv
<1>3. yxrpSupply' = yxrpSupply - amount
  BY BurnEffect DEF Withdraw, IInv
<1>4. /\ position[u] \in Positions
      /\ position[u].receipt_supply \in 0..U64Max
      /\ position[u].principal = position[u].receipt_supply
      /\ amount <= position[u].receipt_supply
  BY DEF IInv, TypeOK, Positions, Lockstep, Withdraw
<1>5. /\ SatSub(position[u].principal, amount) = position[u].principal - amount
      /\ SatSub(position[u].receipt_supply, amount) = position[u].receipt_supply - amount
  BY <1>4, Saturation
<1>6. /\ position'[u] = [position[u] EXCEPT !.principal = position[u].principal - amount,
                                          !.receipt_supply = position[u].receipt_supply - amount]
      /\ \A x \in Users \ {u} : position'[x] = position[x]
  BY <1>4, <1>5 DEF Withdraw, IInv, TypeOK, Positions
<1> QED BY <1>2, <1>3, <1>4, <1>6 DEF Positions

-----------------------------------------------------------------------------
(* The invariant is inductive. *)

\* Before initialize nothing is held in the vault.
LEMMA InitIInv == Init => IInv
<1> USE U64MaxAssumption DEF U64
<1> SUFFICES ASSUME Init PROVE IInv
  OBVIOUS
<1>1. TypeOK
  BY InitType
<1>2. Lockstep /\ Backing
  BY DEF Init, Lockstep, Backing, VaultBalance, Holders
<1>3. \A x \in Users : Receipts[x] = 0 /\ yxrp[x] = 0
  BY DEF Init, Receipts
<1>4. TotalReceipts = 0 /\ Total(yxrp, Users, U64Max) = 0
  BY <1>3, TotalZero DEF TotalReceipts
<1>5. ReceiptsCovered /\ Total(yxrp, Users, U64Max) = yxrpSupply
  BY <1>1, <1>4 DEF Init, ReceiptsCovered, VaultBalance, Holders
<1>6. Total(wxrp, Holders, U64Max) = Total(InitialWxrp, Users, U64Max)
  <2>1. UnitsOf(wxrp, Holders, U64Max) = UnitsOf(InitialWxrp, Users, U64Max)
    <3>1. wxrp[Vault] = 0 /\ \A u \in Users : u \in Holders /\ wxrp[u] = InitialWxrp[u]
      BY UsersAssumption DEF Init, Holders
    <3> QED BY <3>1, InitialWxrpAssumption DEF UnitsOf, Holders
  <2> QED BY <2>1 DEF Total
<1> QED BY <1>1, <1>2, <1>5, <1>6 DEF IInv, TokensConserved

\* A deposit keeps the invariant.
LEMMA DepositIInv ==
    ASSUME IInv, NEW u \in Users, NEW to \in Users, NEW amount \in U64,
           NEW venue, NEW s, NEW ixs, Deposit(u, to, amount, venue, s, ixs)
    PROVE  IInv'
<1>1. TypeOK /\ TypeOK'
  BY DepositType DEF IInv
<1>2. Vault \in Holders /\ u \in Holders
  BY DEF Holders
<1>3. Lockstep'
  BY DepositEffect DEF IInv, Lockstep
<1>4. Backing' /\ VaultBalance' = VaultBalance + amount
  BY <1>1, <1>2, DepositEffect DEF IInv, Backing, TypeOK, VaultBalance, U64
<1>5. ReceiptsCovered'
  <2>1. TotalReceipts' = TotalReceipts + amount
    BY <1>1, DepositEffect, ReceiptsGain, U64MaxAssumption DEF U64
  <2> QED BY <1>1, <1>2, <1>4, <2>1, TotalReceiptsType
          DEF IInv, ReceiptsCovered, TypeOK, VaultBalance, U64
<1>6. TokensConserved'
  BY <1>1, <1>2, TransferConserves, MintConserves DEF Deposit, IInv, TokensConserved
<1> QED BY <1>1, <1>3, <1>4, <1>5, <1>6 DEF IInv

\* So does a withdrawal,
LEMMA WithdrawIInv ==
    ASSUME IInv, NEW u \in Users, NEW to \in Holders, NEW amount \in U64,
           Withdraw(u, to, amount)
    PROVE  IInv'
<1>1. TypeOK /\ TypeOK'
  BY WithdrawType DEF IInv
<1>2. Vault \in Holders
  BY DEF Holders
<1>3. Lockstep'
  <2>1. /\ position'[u] \in Positions
        /\ position'[u].principal \in U64 /\ position'[u].receipt_supply \in U64
    BY <1>1 DEF TypeOK, Positions
  <2>2. position'[u].principal + amount = position'[u].receipt_supply + amount
    BY WithdrawEffect DEF IInv, Lockstep
  <2>3. position'[u].principal = position'[u].receipt_supply
    BY <2>1, <2>2, U64MaxAssumption DEF U64
  <2> QED BY <2>3, WithdrawEffect DEF IInv, Lockstep
<1>4. Backing'
  BY <1>1, <1>2, WithdrawEffect DEF IInv, Backing, TypeOK, VaultBalance, U64
<1>5. ReceiptsCovered'
  <2>1. TotalReceipts = TotalReceipts' + amount /\ TotalReceipts' \in Nat
    BY <1>1, WithdrawEffect, ReceiptsLose, TotalReceiptsType, U64MaxAssumption,
       UsersAssumption, TotalType
       DEF U64, TotalReceipts
  <2> QED BY <1>1, <1>2, <2>1, WithdrawEffect
          DEF IInv, ReceiptsCovered, TypeOK, VaultBalance, U64
<1>6. TokensConserved'
  BY <1>1, <1>2, TransferConserves, BurnConserves DEF Withdraw, IInv, TokensConserved
<1> QED BY <1>1, <1>3, <1>4, <1>5, <1>6 DEF IInv

\* Steps that touch neither the money nor a receipt.
LEMMA QuietIInv ==
    ASSUME IInv, TypeOK', UNCHANGED <<wxrp, yxrp, yxrpSupply>>,
           \A u \in Users : /\ position'[u].principal = position[u].principal
                            /\ position'[u].receipt_supply = position[u].receipt_supply
    PROVE  IInv'
<1>1. Receipts' = Receipts
  BY DEF Receipts
<1>2. VaultBalance' = VaultBalance /\ TotalReceipts' = TotalReceipts
  BY <1>1 DEF VaultBalance, TotalReceipts
<1> QED BY <1>2 DEF IInv, Lockstep, Backing, ReceiptsCovered, TokensConserved

\* whatever else a user does,
LEMMA UserStepIInv == IInv /\ UserStep => IInv'
<1> SUFFICES ASSUME IInv, NEW u \in Users,
       \/ \E to \in Users, amount \in U64, venue \in Venues, s \in 0..slot :
             \E ixs \in Transactions(venue, s) : Deposit(u, to, amount, venue, s, ixs)
       \/ \E to \in Holders, amount \in U64 : Withdraw(u, to, amount)
       \/ \E venue \in Venues, s \in 0..slot :
             \E ixs \in Transactions(venue, s) : Rebalance(u, venue, s, ixs)
             PROVE IInv'
  BY DEF UserStep
<1>1. ASSUME NEW venue \in Venues, NEW s \in 0..slot,
             NEW ixs \in Transactions(venue, s), Rebalance(u, venue, s, ixs)
      PROVE  IInv'
  <2>1. TypeOK'
    BY <1>1, UserStepType DEF UserStep, IInv
  <2>2. \A x \in Users : /\ position'[x].principal = position[x].principal
                         /\ position'[x].receipt_supply = position[x].receipt_supply
    BY <1>1 DEF Rebalance, IInv, TypeOK, Positions
  <2> QED BY <1>1, <2>1, <2>2, QuietIInv DEF Rebalance, tokens
<1> QED BY <1>1, DepositIInv, WithdrawIInv

\* an admin's instruction, which moves no tokens,
LEMMA AdminStepIInv == IInv /\ AdminStep => IInv'
<1> SUFFICES ASSUME IInv, AdminStep PROVE IInv'
  OBVIOUS
<1>1. TypeOK'
  BY AdminStepType DEF IInv
<1>2. UNCHANGED <<wxrp, yxrp, yxrpSupply, position>>
  BY DEF AdminStep, Initialize, SetPaused, SetCap, RotateAttestor, RotateAuthority, tokens
<1> QED BY <1>1, <1>2, QuietIInv

\* a move of tokens: a donation to the vault, a burn, a transfer,
LEMMA TokenStepIInv == IInv /\ TokenStep => IInv'
<1> USE U64MaxAssumption DEF U64
<1> SUFFICES ASSUME IInv, TokenStep PROVE IInv'
  OBVIOUS
<1>1. TypeOK /\ TypeOK'
  BY TokenStepType DEF IInv
<1>2. Receipts' = Receipts /\ TotalReceipts' = TotalReceipts
  BY DEF TokenStep, HandOverMint, SendWxrp, SendYxrp, BurnYxrp, Receipts, TotalReceipts
<1>3. Vault \in Holders /\ VaultBalance \in Nat /\ VaultBalance' \in Nat
  BY <1>1 DEF Holders, VaultBalance, TypeOK
<1>4. CASE HandOverMint
  BY <1>1, <1>4, QuietIInv DEF HandOverMint
<1>5. ASSUME NEW u \in Users, NEW to \in Holders, NEW amount \in U64,
             SendWxrp(u, to, amount)
      PROVE  IInv'
  <2>1. u \in Holders /\ u # Vault
    BY UsersAssumption DEF Holders
  <2>2. VaultBalance' >= VaultBalance
    BY <1>1, <1>3, <1>5, <2>1, TransferEffect DEF SendWxrp, VaultBalance
  <2>3. TokensConserved'
    BY <1>1, <1>5, <2>1, TransferConserves DEF SendWxrp, IInv, TokensConserved
  <2>4. Backing' /\ ReceiptsCovered'
    BY <1>1, <1>2, <1>3, <1>5, <2>2, TotalReceiptsType
       DEF SendWxrp, IInv, Backing, ReceiptsCovered, TypeOK
  <2> QED BY <1>1, <1>5, <2>3, <2>4 DEF SendWxrp, IInv, Lockstep
<1>6. ASSUME NEW u \in Users, NEW to \in Users, NEW amount \in U64,
             SendYxrp(u, to, amount)
      PROVE  IInv'
  <2>1. Total(yxrp', Users, U64Max) = Total(yxrp, Users, U64Max)
    <3>1. CASE u = to
      BY <1>6, <3>1 DEF SendYxrp, Moved
    <3>2. CASE u # to
      <4>1. /\ yxrp \in [Users -> 0..U64Max] /\ yxrp' \in [Users -> 0..U64Max]
            /\ amount \in Nat
        BY <1>1 DEF TypeOK
      <4>2. /\ yxrp[u] = yxrp'[u] + amount
            /\ yxrp'[to] = yxrp[to] + amount
            /\ \A x \in Users \ {u, to} : yxrp'[x] = yxrp[x]
        BY <1>6, <3>2, <4>1 DEF SendYxrp, Moved
      <4> QED BY <3>2, <4>1, <4>2, UsersAssumption, TotalMove
    <3> QED BY <3>1, <3>2
  <2>2. TokensConserved'
    BY <1>6, <2>1 DEF SendYxrp, IInv, TokensConserved
  <2> QED BY <1>1, <1>2, <1>6, <2>2
          DEF SendYxrp, IInv, Lockstep, Backing, ReceiptsCovered, VaultBalance
<1>7. ASSUME NEW u \in Users, NEW amount \in U64, BurnYxrp(u, amount)
      PROVE  IInv'
  <2>1. Backing'
    BY <1>1, <1>3, <1>7, BurnEffect
       DEF BurnYxrp, IInv, Backing, TypeOK, VaultBalance
  <2>2. TokensConserved'
    BY <1>1, <1>7, BurnConserves DEF BurnYxrp, IInv, TokensConserved
  <2> QED BY <1>1, <1>2, <1>7, <2>1, <2>2
          DEF BurnYxrp, IInv, Lockstep, ReceiptsCovered, VaultBalance
<1> QED BY <1>4, <1>5, <1>6, <1>7 DEF TokenStep

\* and thus every step.
LEMMA NextIInv == IInv /\ [Next]_vars => IInv'
<1>1. ASSUME IInv, Tick \/ UNCHANGED vars PROVE IInv'
  <2>1. TypeOK'
    BY <1>1, NextType DEF IInv, Next
  <2> QED BY <1>1, <2>1, QuietIInv DEF Tick, tokens, vars
<1> QED BY <1>1, UserStepIInv, AdminStepIInv, TokenStepIInv DEF Next

\* So it always holds.
LEMMA Invariance == Spec => []IInv
<1> QED BY InitIInv, NextIInv, PTL DEF Spec

\* The vault always holds at least the yXRP in existence.
THEOREM BackingHolds == Spec => []Backing
<1>1. IInv => Backing
  BY DEF IInv
<1> QED BY <1>1, Invariance, PTL

\* principal = receipt_supply in every position, always.
THEOREM LockstepHolds == Spec => []Lockstep
<1>1. IInv => Lockstep
  BY DEF IInv
<1> QED BY <1>1, Invariance, PTL

\* All receipts of all positions together never exceed the vault.
THEOREM ReceiptsCoveredHolds == Spec => []ReceiptsCovered
<1>1. IInv => ReceiptsCovered
  BY DEF IInv
<1> QED BY <1>1, Invariance, PTL

\* The vault covers the yXRP in existence and the receipts of all positions.
THEOREM CoveredHolds == Spec => []Covered
<1>1. IInv => Covered
  BY DEF IInv, Covered
<1> QED BY <1>1, Invariance, PTL

\* No wXRP is created or lost; the yXRP held is the yXRP in existence.
THEOREM TokensConservedHolds == Spec => []TokensConserved
<1>1. IInv => TokensConserved
  BY DEF IInv
<1> QED BY <1>1, Invariance, PTL

\* The accounts agree with each other, as the run checks it in one invariant.
THEOREM ConsistentHolds == Spec => []Consistent
<1>1. IInv => Consistent
  BY DEF IInv, Consistent
<1> QED BY <1>1, Invariance, PTL

-----------------------------------------------------------------------------
(* What a step may do. *)

\* Every check and token call of a withdrawal of `amount` by u into its own
\* wallet: what ExitAlwaysOpen asks TLC with ENABLED.
WithdrawalGoesThrough(u, amount) ==
    /\ amount <= yxrpSupply
    /\ VaultBalance >= amount
    /\ wxrp[u] + amount <= U64Max

ExitOpen ==
    \A u \in Users, amount \in U64 :
        amount <= position[u].receipt_supply /\ amount <= yxrp[u]
        => WithdrawalGoesThrough(u, amount)

\* Whoever has a receipt and the yXRP for it can withdraw, paused or not: the
\* mint's supply, the vault's balance and the wallet's capacity all allow it.
THEOREM ExitOpenHolds == Spec => []ExitOpen
<1> USE U64MaxAssumption DEF U64
<1>1. IInv => ExitOpen
  <2> SUFFICES ASSUME IInv, NEW u \in Users, NEW amount \in U64,
                      amount <= position[u].receipt_supply, amount <= yxrp[u]
               PROVE  WithdrawalGoesThrough(u, amount)
    BY DEF ExitOpen
  <2>1. /\ yxrp \in [Users -> 0..U64Max] /\ wxrp \in [Holders -> 0..U64Max]
        /\ yxrpSupply \in 0..U64Max
        /\ u \in Holders /\ Vault \in Holders /\ u # Vault
    BY UsersAssumption DEF IInv, TypeOK, Holders
  <2>2. yxrp[u] <= Total(yxrp, Users, U64Max)
    BY <2>1, UsersAssumption, TotalBound
  <2>3. amount <= yxrpSupply
    BY <2>1, <2>2 DEF IInv, TokensConserved
  <2>4. VaultBalance >= amount
    BY <2>1, <2>3 DEF IInv, Backing, VaultBalance
  <2>5. wxrp[u] + wxrp[Vault] <= Total(wxrp, Holders, U64Max)
    BY <2>1, FiniteHolders, TotalBoundTwo
  <2>6. Total(wxrp, Holders, U64Max) <= U64Max
    BY InitialWxrpAssumption DEF IInv, TokensConserved
  <2>7. Total(wxrp, Holders, U64Max) \in Nat
    BY FiniteHolders, TotalType
  <2>8. wxrp[u] + amount <= U64Max
    BY <2>1, <2>4, <2>5, <2>6, <2>7 DEF VaultBalance
  <2> QED BY <2>3, <2>4, <2>8 DEF WithdrawalGoesThrough
<1> QED BY <1>1, Invariance, PTL

\* While the program is paused no receipt is issued, no yXRP minted, and no
\* position changes venue.
THEOREM PauseFreezesHolds == Spec => PauseFreezes
<1>1. ASSUME IInv, [Next]_vars, Paused PROVE FrozenStep
  <2> USE DEF FrozenStep
  <2> USE U64MaxAssumption DEF U64
  <2>1. /\ yxrpSupply \in 0..U64Max
        /\ \A u \in Users : position[u].receipt_supply \in 0..U64Max
        /\ TypeOK
    BY <1>1 DEF IInv, TypeOK, Positions
  <2>2. TypeOK' /\ \A u \in Users : position'[u].receipt_supply \in 0..U64Max
    BY <1>1, NextType DEF IInv, TypeOK, Positions
  <2>3. CASE UNCHANGED <<position, yxrpSupply>>
    BY <2>1, <2>3
  <2>4. CASE AdminStep \/ Tick \/ UNCHANGED vars
    BY <2>3, <2>4 DEF AdminStep, Initialize, SetPaused, SetCap, RotateAttestor,
                      RotateAuthority, tokens, Tick, vars
  <2>5. CASE TokenStep
    <3>1. ASSUME NEW u \in Users, NEW amount \in U64, BurnYxrp(u, amount)
          PROVE  FrozenStep
      BY <2>1, <3>1, BurnEffect DEF BurnYxrp
    <3> QED BY <2>3, <2>5, <3>1 DEF TokenStep, HandOverMint, SendWxrp, SendYxrp
  <2>6. CASE UserStep
    <3>1. PICK u \in Users, to \in Holders, amount \in U64 : Withdraw(u, to, amount)
      BY <1>1, <2>6 DEF UserStep, Deposit, Rebalance, Paused
    <3>2. yxrpSupply' = yxrpSupply - amount
      BY <1>1, <3>1, WithdrawEffect
    <3>3. /\ position[u].receipt_supply = position'[u].receipt_supply + amount
          /\ position'[u].venue = position[u].venue
          /\ \A x \in Users \ {u} : position'[x] = position[x]
      BY <1>1, <3>1, WithdrawEffect
    <3> QED BY <2>1, <2>2, <3>2, <3>3
  <2> QED BY <1>1, <2>4, <2>5, <2>6 DEF Next
<1> QED BY <1>1, Invariance, PTL DEF Spec, PauseFreezes

\* Receipts change together with the yXRP supply and the vault, by the same
\* amount.
THEOREM OneToOneHolds == Spec => OneToOne
<1> DEFINE Exact(u) ==
      LET was == position[u].receipt_supply
          is  == position'[u].receipt_supply
      IN  /\ is > was => /\ yxrpSupply' = yxrpSupply + (is - was)
                         /\ VaultBalance' = VaultBalance + (is - was)
          /\ is < was => /\ yxrpSupply = yxrpSupply' + (was - is)
                         /\ VaultBalance <= VaultBalance' + (was - is)
<1>1. ASSUME IInv, [Next]_vars, NEW u \in Users PROVE Exact(u)
  <2> USE U64MaxAssumption DEF U64
  <2>1. /\ yxrpSupply \in 0..U64Max /\ yxrpSupply' \in 0..U64Max
        /\ VaultBalance \in 0..U64Max /\ VaultBalance' \in 0..U64Max
        /\ \A x \in Users : /\ position[x].receipt_supply \in 0..U64Max
                            /\ position'[x].receipt_supply \in 0..U64Max
        /\ TypeOK
    BY <1>1, NextType DEF IInv, TypeOK, Positions, VaultBalance, Holders
  <2>2. CASE position'[u].receipt_supply = position[u].receipt_supply
    BY <2>1, <2>2
  <2>3. CASE AdminStep \/ TokenStep \/ Tick \/ UNCHANGED vars
    BY <2>2, <2>3 DEF AdminStep, Initialize, SetPaused, SetCap, RotateAttestor,
                      RotateAuthority, TokenStep, HandOverMint, SendWxrp, SendYxrp,
                      BurnYxrp, Tick, vars
  <2>4. CASE UserStep
    <3>1. ASSUME NEW v \in Users, NEW to \in Users, NEW amount \in U64,
                 NEW venue, NEW s, NEW ixs, Deposit(v, to, amount, venue, s, ixs)
          PROVE  Exact(u)
      <4>1. /\ position'[v].receipt_supply = position[v].receipt_supply + amount
            /\ \A x \in Users \ {v} : position'[x] = position[x]
            /\ VaultBalance' = VaultBalance + amount
            /\ yxrpSupply' = yxrpSupply + amount
        BY <1>1, <3>1, DepositEffect
      <4> QED BY <2>1, <2>2, <4>1
    <3>2. ASSUME NEW v \in Users, NEW to \in Holders, NEW amount \in U64,
                 Withdraw(v, to, amount)
          PROVE  Exact(u)
      <4>1. /\ position[v].receipt_supply = position'[v].receipt_supply + amount
            /\ \A x \in Users \ {v} : position'[x] = position[x]
            /\ VaultBalance' = IF to = Vault THEN VaultBalance ELSE VaultBalance - amount
            /\ yxrpSupply' = yxrpSupply - amount
        BY <1>1, <3>2, WithdrawEffect
      <4> QED BY <2>1, <2>2, <4>1
    <3>3. ASSUME NEW v \in Users, NEW venue, NEW s, NEW ixs,
                 Rebalance(v, venue, s, ixs)
          PROVE  Exact(u)
      BY <2>1, <2>2, <3>3 DEF Rebalance, TypeOK, Positions
    <3> QED BY <2>4, <3>1, <3>2, <3>3 DEF UserStep
  <2> QED BY <1>1, <2>3, <2>4 DEF Next
<1>2. IInv /\ [Next]_vars => OneToOneStep
  BY <1>1 DEF OneToOneStep
<1> QED BY <1>2, Invariance, PTL DEF Spec, OneToOne

\* Slots only pass.
LEMMA SlotsGrow ==
    ASSUME TypeOK, [Next]_vars
    PROVE  slot' \in Nat /\ slot <= slot'
<1>1. slot \in Nat
  BY DEF TypeOK
<1>2. CASE UserStep
  <2>1. ASSUME NEW u, NEW to, NEW amount, NEW venue, NEW s, NEW ixs,
               Deposit(u, to, amount, venue, s, ixs)
        PROVE  slot' = slot
    BY <2>1 DEF Deposit
  <2>2. ASSUME NEW u, NEW to, NEW amount, Withdraw(u, to, amount)
        PROVE  slot' = slot
    BY <2>2 DEF Withdraw
  <2>3. ASSUME NEW u, NEW venue, NEW s, NEW ixs, Rebalance(u, venue, s, ixs)
        PROVE  slot' = slot
    BY <2>3 DEF Rebalance
  <2> QED BY <1>1, <1>2, <2>1, <2>2, <2>3 DEF UserStep
<1>3. CASE AdminStep
  <2>1. ASSUME NEW k, NEW a, NEW m, NEW s, Initialize(k, a, m, s)
        PROVE  slot' = slot
    BY <2>1 DEF Initialize
  <2>2. \A k, m, s : SetCap(k, m, s) => slot' = slot
    BY DEF SetCap
  <2>3. \A k, x : SetPaused(k, x) \/ RotateAttestor(k, x) \/ RotateAuthority(k, x)
                    => slot' = slot
    BY DEF SetPaused, RotateAttestor, RotateAuthority
  <2> QED BY <1>1, <1>3, <2>1, <2>2, <2>3 DEF AdminStep
<1>4. CASE TokenStep
  BY <1>1, <1>4 DEF TokenStep, HandOverMint, SendWxrp, SendYxrp, BurnYxrp
<1>5. CASE Tick \/ UNCHANGED vars
  BY <1>1, <1>5 DEF Tick, vars
<1> QED BY <1>2, <1>3, <1>4, <1>5 DEF Next

\* An attestation that is refused becomes acceptable only when an admin instruction
\* changes the Config: passing slots just make it older.
THEOREM OnlyAdminRevivesHolds == Spec => OnlyAdminRevives
<1> DEFINE Revived == \A key \in Attestors, venue \in Venues, s \in 0..slot :
               ~Accepted(key, venue, s) /\ Accepted(key, venue, s)' => config' # config
<1>1. ASSUME IInv, [Next]_vars PROVE Revived
  <2> SUFFICES ASSUME NEW key \in Attestors, NEW venue \in Venues, NEW s \in 0..slot,
                      Accepted(key, venue, s)', config' = config
               PROVE  Accepted(key, venue, s)
    OBVIOUS
  <2> DEFINE ixs == <<Ed25519Ix(key, venue, s)>>
  <2>1. slot \in Nat /\ slot' \in Nat /\ slot <= slot'
    BY <1>1, SlotsGrow DEF IInv, TypeOK
  <2>2. config # NoConfig /\ config.staleness_slots \in Nat
    BY <1>1 DEF IInv, TypeOK, Configs, Accepted, U64
  <2>3. Verified(ixs, config.attestor, venue, s, config.staleness_slots, slot')
    BY DEF Accepted, Attested
  <2>4. Fresh(s, config.staleness_slots, slot') => Fresh(s, config.staleness_slots, slot)
    BY <2>1, <2>2, U64MaxAssumption DEF Fresh, SatAdd
  <2>5. Verified(ixs, config.attestor, venue, s, config.staleness_slots, slot)
    BY <2>3, <2>4 DEF Verified
  <2> QED BY <2>2, <2>5 DEF Accepted, Attested
<1> QED BY <1>1, Invariance, PTL DEF Spec, OnlyAdminRevives

-----------------------------------------------------------------------------
(* Refinement of the abstract wrapper. *)

\* The program before initialize is an empty wrapper.
LEMMA InitRefines == Init => Wrapper!Init
  BY DEF Init, Wrapper!Init, Paused, Holders

\* Every step of the program is one of the wrapper, or none.
LEMMA NextRefines == IInv /\ [Next]_vars => [Wrapper!Next]_(Wrapper!vars)
<1> USE U64MaxAssumption DEF U64, Wrapper!vars
<1> SUFFICES ASSUME IInv, [Next]_vars
             PROVE  [Wrapper!Next]_(Wrapper!vars)
  OBVIOUS
<1>1. /\ TypeOK /\ TypeOK'
      /\ Vault \in Holders
      /\ yxrpSupply \in 0..U64Max /\ yxrpSupply' \in 0..U64Max
      /\ wxrp[Vault] \in 0..U64Max /\ wxrp'[Vault] \in 0..U64Max
  BY NextType DEF IInv, TypeOK, Holders
<1>2. ASSUME NEW u \in Users, NEW to \in Users, NEW amount \in U64,
             NEW venue, NEW s, NEW ixs, Deposit(u, to, amount, venue, s, ixs)
      PROVE  [Wrapper!Next]_(Wrapper!vars)
  <2>1. /\ wxrp'[Vault] = wxrp[Vault] + amount
        /\ yxrpSupply' = yxrpSupply + amount
    BY <1>2, DepositEffect DEF VaultBalance
  <2>2. ~Paused /\ UNCHANGED Paused
    BY <1>2 DEF Deposit, Paused
  <2>3. CASE amount = 0
    BY <1>1, <2>1, <2>2, <2>3
  <2>4. CASE amount # 0
    <3>1. amount \in 1..wxrp'[Vault]
      BY <1>1, <2>1, <2>4
    <3> QED BY <2>1, <2>2, <3>1 DEF Wrapper!Next, Wrapper!Wrap
  <2> QED BY <2>3, <2>4
<1>3. ASSUME NEW u \in Users, NEW to \in Holders, NEW amount \in U64,
             Withdraw(u, to, amount)
      PROVE  [Wrapper!Next]_(Wrapper!vars)
  <2>1. /\ wxrp'[Vault] = IF to = Vault THEN wxrp[Vault] ELSE wxrp[Vault] - amount
        /\ yxrpSupply' = yxrpSupply - amount
    BY <1>3, WithdrawEffect DEF VaultBalance
  <2>2. UNCHANGED Paused
    BY <1>3 DEF Withdraw, Paused
  <2>3. CASE amount = 0
    BY <1>1, <2>1, <2>2, <2>3
  <2>4. CASE amount # 0 /\ to = Vault
    <3>1. yxrpSupply' < yxrpSupply /\ wxrp'[Vault] = wxrp[Vault]
      BY <1>1, <2>1, <2>4
    <3> QED BY <2>2, <3>1 DEF Wrapper!Next, Wrapper!DestroyReceipts
  <2>5. CASE amount # 0 /\ to # Vault
    <3>1. amount \in 1..yxrpSupply
      BY <1>1, <2>1, <2>5
    <3> QED BY <2>1, <2>2, <2>5, <3>1 DEF Wrapper!Next, Wrapper!Unwrap
  <2> QED BY <2>3, <2>4, <2>5
<1>4. CASE AdminStep
  <2>1. UNCHANGED <<wxrp, yxrpSupply>> /\ Paused' \in BOOLEAN
    BY <1>4 DEF AdminStep, Initialize, SetPaused, SetCap, RotateAttestor,
                RotateAuthority, tokens, Admin, Paused, IInv, TypeOK, Configs
  <2> QED BY <2>1 DEF Wrapper!Next, Wrapper!Switch
<1>5. ASSUME NEW u \in Users, NEW to \in Holders, NEW amount \in U64,
             SendWxrp(u, to, amount)
      PROVE  [Wrapper!Next]_(Wrapper!vars)
  <2>1. u \in Holders /\ u # Vault
    BY UsersAssumption DEF Holders
  <2>2. UNCHANGED <<Paused, yxrpSupply>>
    BY <1>5 DEF SendWxrp, Paused
  <2>3. wxrp'[Vault] >= wxrp[Vault]
    BY <1>1, <1>5, <2>1, TransferEffect DEF SendWxrp
  <2>4. CASE wxrp'[Vault] = wxrp[Vault]
    BY <2>2, <2>4
  <2>5. CASE wxrp'[Vault] # wxrp[Vault]
    <3>1. wxrp'[Vault] > wxrp[Vault]
      BY <1>1, <2>3, <2>5
    <3> QED BY <2>2, <3>1 DEF Wrapper!Next, Wrapper!AddReserve
  <2> QED BY <2>4, <2>5
<1>6. ASSUME NEW u \in Users, NEW amount \in U64, BurnYxrp(u, amount)
      PROVE  [Wrapper!Next]_(Wrapper!vars)
  <2>1. yxrpSupply' = yxrpSupply - amount /\ UNCHANGED <<Paused, wxrp>>
    BY <1>1, <1>6, BurnEffect DEF BurnYxrp, Paused
  <2>2. CASE amount = 0
    BY <1>1, <2>1, <2>2
  <2>3. CASE amount # 0
    <3>1. yxrpSupply' < yxrpSupply
      BY <1>1, <2>1, <2>3
    <3> QED BY <2>1, <3>1 DEF Wrapper!Next, Wrapper!DestroyReceipts
  <2> QED BY <2>2, <2>3
<1>7. CASE UNCHANGED <<wxrp, yxrpSupply, config>>
  BY <1>7 DEF Paused
<1> QED BY <1>2, <1>3, <1>4, <1>5, <1>6, <1>7
        DEF Next, UserStep, TokenStep, Rebalance, HandOverMint, SendYxrp, Tick,
            tokens, vars

\* The program, its holders and its admin together implement the 1:1 wrapper.
THEOREM ImplementsWrapperHolds == Spec => ImplementsWrapper
<1> QED BY InitRefines, NextRefines, Invariance, PTL
        DEF Spec, ImplementsWrapper, Wrapper!Spec

-----------------------------------------------------------------------------
(* AttestScan: verify's loop and its checks. *)


Passed ==
    /\ pc \in {"key", "venue", "slot", "age"} => edIx # NotFound /\ Ed.complete
    /\ pc \in {"venue", "slot", "age"} => Ed.key = call.attestor
    /\ pc \in {"slot", "age"} => Ed.venue = call.venue
    /\ pc = "age" => Ed.slot = call.slot

Scanned ==
    /\ pc = "scan" => /\ edIx = NotFound
                      /\ i <= Len(call.ixs)
                      /\ \A j \in 1..i : call.ixs[j].program # "ed25519"
    /\ pc # "scan" => IF edIx = NotFound THEN Ed25519Positions(call.ixs) = {}
                      ELSE IsFirstEd25519(call.ixs, edIx + 1)

ScanInv ==
    /\ VerifyTypeOK
    /\ Scanned
    /\ Passed
    /\ pc # "done" => result = "none"
    /\ AcceptsExactly
    /\ ErrorNamesFirstFailure

\* The scan has not looked at anything.
LEMMA ScanInit == VerifyInit => ScanInv
  BY ScanLimitAssumption, CallsAssumption
     DEF VerifyInit, ScanInv, VerifyTypeOK, Scanned, Passed, AcceptsExactly,
         ErrorNamesFirstFailure, NotFound, Checks, Errors

\* There is one first ed25519 instruction, so Accepts is about the one found.
LEMMA FirstIsUnique ==
    ASSUME VerifyTypeOK, NEW m, NEW n,
           IsFirstEd25519(call.ixs, m), IsFirstEd25519(call.ixs, n)
    PROVE  m = n
<1>1. DOMAIN call.ixs \subseteq Nat
  BY CallsAssumption DEF VerifyTypeOK
<1>2. m \in Nat /\ n \in Nat /\ m <= n /\ n <= m
  BY <1>1 DEF IsFirstEd25519, Ed25519Positions
<1> QED BY <1>2

\* Accepts, said of the instruction that was found.
LEMMA AcceptsFound ==
    ASSUME VerifyTypeOK, IsFirstEd25519(call.ixs, edIx + 1)
    PROVE  Accepts <=> /\ Ed.complete
                       /\ Ed.key = call.attestor
                       /\ Ed.venue = call.venue
                       /\ Ed.slot = call.slot
                       /\ Fresh(call.slot, call.staleness, call.now)
<1>1. edIx + 1 \in DOMAIN call.ixs
  BY DEF IsFirstEd25519, Ed25519Positions
<1> QED BY <1>1, FirstIsUnique DEF Accepts, Verified, Ed

\* Without an ed25519 instruction nothing is accepted.
LEMMA AcceptsNotFound ==
    ASSUME Ed25519Positions(call.ixs) = {}
    PROVE  ~Accepts /\ \A n : ~IsFirstEd25519(call.ixs, n)
  BY DEF Accepts, Verified, IsFirstEd25519

\* The loop: an instruction found, passed over, or none left.
LEMMA ScanSteps ==
    ASSUME ScanInv, ScanHit \/ ScanNext \/ ScanEnd
    PROVE  ScanInv'
<1>1. /\ pc = "scan" /\ edIx = NotFound /\ result = "none" /\ call \in Calls
      /\ i \in 0..ScanLimit /\ i <= Len(call.ixs)
      /\ \A j \in 1..i : call.ixs[j].program # "ed25519"
      /\ Len(call.ixs) \in Nat /\ DOMAIN call.ixs = 1..Len(call.ixs)
      /\ ScanLimit \in Nat /\ call' = call /\ result' = result
  BY CallsAssumption, ScanLimitAssumption
     DEF ScanInv, Scanned, VerifyTypeOK, ScanHit, ScanNext, ScanEnd
<1>2. CASE ScanHit
  <2>1. IsFirstEd25519(call.ixs, i + 1)
    BY <1>1, <1>2 DEF ScanHit, Loaded, IsEd25519, IsFirstEd25519, Ed25519Positions
  <2>2. pc' = "found" /\ edIx' = i /\ i' = i /\ edIx' # NotFound
    BY <1>1, <1>2 DEF ScanHit, NotFound
  <2>3. VerifyTypeOK'
    BY <1>1, <2>2 DEF VerifyTypeOK, Checks, NotFound
  <2> QED BY <1>1, <2>1, <2>2, <2>3
          DEF ScanInv, Scanned, Passed, AcceptsExactly, ErrorNamesFirstFailure
<1>3. CASE ScanNext
  <2>1. /\ i' = i + 1 /\ i' \in 0..ScanLimit /\ i' <= Len(call.ixs)
        /\ call.ixs[i + 1].program # "ed25519"
        /\ UNCHANGED <<pc, edIx>>
    BY <1>1, <1>3 DEF ScanNext, Loaded, IsEd25519
  <2>2. \A j \in 1..(i + 1) : call.ixs[j].program # "ed25519"
    BY <1>1, <2>1
  <2>3. VerifyTypeOK'
    BY <1>1, <2>1 DEF ScanInv, VerifyTypeOK
  <2> QED BY <1>1, <2>1, <2>2, <2>3
          DEF ScanInv, Scanned, Passed, AcceptsExactly, ErrorNamesFirstFailure
<1>4. CASE ScanEnd
  <2>1. Ed25519Positions(call.ixs) = {}
    BY <1>1, <1>4 DEF ScanEnd, Loaded, Ed25519Positions
  <2>2. pc' = "found" /\ UNCHANGED <<edIx, i>>
    BY <1>4 DEF ScanEnd
  <2>3. VerifyTypeOK'
    BY <1>1, <2>2 DEF ScanInv, VerifyTypeOK, Checks
  <2> QED BY <1>1, <2>1, <2>2, <2>3
          DEF ScanInv, Scanned, Passed, AcceptsExactly, ErrorNamesFirstFailure
<1> QED BY <1>2, <1>3, <1>4

\* The checks, each after those before it have passed.
LEMMA CheckSteps ==
    ASSUME ScanInv, CheckFound \/ CheckKey \/ CheckVenue \/ CheckSlot \/ CheckAge
    PROVE  ScanInv'
<1>1. /\ UNCHANGED <<call, i, edIx>> /\ pc # "scan" /\ pc' # "scan"
      /\ result = "none" /\ VerifyTypeOK
  BY DEF ScanInv, CheckFound, CheckKey, CheckVenue, CheckSlot, CheckAge, Require
<1>2. VerifyTypeOK'
  BY <1>1 DEF VerifyTypeOK, Checks, Errors, CheckFound, CheckKey, CheckVenue,
              CheckSlot, CheckAge, Require
<1>3. Scanned'
  BY <1>1 DEF ScanInv, Scanned
<1>4. Ed' = Ed /\ (Accepts' <=> Accepts)
  BY <1>1 DEF Ed, Accepts
<1>5. CASE edIx = NotFound
  <2>1. Ed25519Positions(call.ixs) = {} /\ CheckFound
    BY <1>1, <1>5 DEF ScanInv, Scanned, Passed, CheckFound, CheckKey, CheckVenue,
                      CheckSlot, CheckAge, Require
  <2>2. pc' = "done" /\ result' = "BadAttestIx"
    BY <1>5, <2>1 DEF CheckFound, Require
  <2> QED BY <1>1, <1>2, <1>3, <1>4, <2>1, <2>2, AcceptsNotFound
          DEF ScanInv, Passed, AcceptsExactly, ErrorNamesFirstFailure
<1>6. CASE edIx # NotFound
  <2>1. IsFirstEd25519(call.ixs, edIx + 1)
    BY <1>1, <1>6 DEF ScanInv, Scanned
  <2>2. edIx + 1 \in DOMAIN call.ixs
    BY <2>1 DEF IsFirstEd25519, Ed25519Positions
  <2>3. Accepts <=> /\ Ed.complete
                    /\ Ed.key = call.attestor
                    /\ Ed.venue = call.venue
                    /\ Ed.slot = call.slot
                    /\ Fresh(call.slot, call.staleness, call.now)
    BY <1>1, <2>1, AcceptsFound
  <2>4. \A n : IsFirstEd25519(call.ixs, n) => n = edIx + 1
    BY <1>1, <2>1, FirstIsUnique
  <2>5. (Passed /\ (pc # "done" => result = "none") /\ AcceptsExactly)'
    <3>1. /\ (Passed /\ (pc # "done" => result = "none"))'
          /\ (pc = "done" => (result = "ok" <=> Accepts))'
      BY <1>1, <1>4, <1>6, <2>3
         DEF ScanInv, Passed, AcceptsExactly, CheckFound, CheckKey, CheckVenue,
             CheckSlot, CheckAge, Require, Fresh
    <3>2. Accepts /\ OfClients(Ed) => <<call.attestor, call.venue, call.slot>> \in Ed.signed
      BY <2>3 DEF OfClients
    <3> QED BY <1>1, <1>4, <3>1, <3>2 DEF AcceptsExactly
  <2>6. result' = "BadAttestIx" => ~Ed.complete
    BY <1>1, <1>6 DEF CheckFound, CheckKey, CheckVenue, CheckSlot, CheckAge, Require
  <2>7. result' = "AttestationStale" => Ed.key = call.attestor /\ Ed.venue = call.venue
    BY <1>1, <1>6 DEF ScanInv, Passed, CheckFound, CheckKey, CheckVenue, CheckSlot,
                      CheckAge, Require
  <2>8. ErrorNamesFirstFailure'
    BY <1>1, <2>1, <2>2, <2>4, <2>6, <2>7 DEF ErrorNamesFirstFailure, Ed
  <2> QED BY <1>2, <1>3, <2>5, <2>8 DEF ScanInv
<1> QED BY <1>5, <1>6

\* So it holds of every call.
LEMMA ScanInvariance == VerifySpec => []ScanInv
<1>1. ScanInv /\ [VerifyNext]_verifyVars => ScanInv'
  <2>1. ScanInv /\ UNCHANGED verifyVars => ScanInv'
    BY DEF verifyVars, ScanInv, VerifyTypeOK, Scanned, Passed, Ed, AcceptsExactly, Accepts,
           ErrorNamesFirstFailure
  <2> QED BY <2>1, ScanSteps, CheckSteps DEF VerifyNext
<1> QED BY <1>1, ScanInit, PTL DEF VerifySpec

\* The loop index stays within the scan limit, and the result is one of verify's.
THEOREM ScanTypeCorrect == VerifySpec => []VerifyTypeOK
<1>1. ScanInv => VerifyTypeOK
  BY DEF ScanInv
<1> QED BY <1>1, ScanInvariance, PTL

\* verify returns Ok exactly when the first ed25519 instruction among the first
\* ScanLimit has the attestor's key, the venue and the slot, still fresh, at the
\* places it reads; and if it is laid out as clients do, the attestor signed them.
THEOREM AcceptsExactlyHolds == VerifySpec => []AcceptsExactly
<1>1. ScanInv => AcceptsExactly
  BY DEF ScanInv
<1> QED BY <1>1, ScanInvariance, PTL

\* The error returned is that of the first check that fails.
THEOREM ErrorNamesFirstFailureHolds == VerifySpec => []ErrorNamesFirstFailure
<1>1. ScanInv => ErrorNamesFirstFailure
  BY DEF ScanInv
<1> QED BY <1>1, ScanInvariance, PTL
=============================================================================
