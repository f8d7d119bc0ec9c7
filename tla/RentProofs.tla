----------------------------- MODULE RentProofs -----------------------------
(***************************************************************************)
(* Proofs about RentLedger, for every choice of its constants: what the    *)
(* accounts hold, what the wallets hold, whose deposits they are, and      *)
(* that payment and the way out do not get stuck.                          *)
(***************************************************************************)
EXTENDS RentLedger, EscrowProofs, FiniteSums

LEMMA AddressesFinite ==
  /\ IsFiniteSet(Addresses) /\ IsFiniteSet(Wallets)
  /\ \A U \in SUBSET Addresses : IsFiniteSet(U)
<1>1. IsFiniteSet(Singletons)
  <2>1. Singletons = {"plan"} \cup {"subscription"} \cup {"vault"}
                       \cup {"graced"} \cup {"paused"}
    BY DEF Singletons
  <2>2. QED
    BY <2>1, FS_Singleton, FS_Union
<1>2. IsFiniteSet(Wallets)
  <2>1. Wallets = {"subscriber"} \cup {"merchant"} \cup {"keeper"}
    BY DEF Wallets
  <2>2. QED
    BY <2>1, FS_Singleton, FS_Union
<1>3. IsFiniteSet(Addresses)
  BY <1>1, SessionAssumption, FS_Union DEF Addresses
<1>4. QED
  BY <1>2, <1>3, FS_Subset

LEMMA RentNumbers == \A a \in Addresses : RentOf[a] \in Nat
BY RentAssumption DEF RentOf, Addresses

\* The accounts of one funder.
Owned(f, w) == {a \in Addresses : f[a] = w}

-----------------------------------------------------------------------------
(***************************************************************************)
(* The arithmetic of deposits, for the accounts U that a step opens or     *)
(* closes: g and h are the balances before and after it, f and k the       *)
(* funders.                                                                *)
(***************************************************************************)
\* Accounts that held nothing get their rent from p; accounts lose all.
Opens(g, h, f, k, U, p) ==
  /\ U \in SUBSET Addresses /\ \A a \in Addresses : g[a] \in Nat
  /\ \A a \in U : g[a] = 0 /\ h[a] = RentOf[a] /\ k[a] = p
  /\ \A a \in Addresses \ U : h[a] = g[a] /\ k[a] = f[a]
Closes(g, h, f, k, U) ==
  /\ U \in SUBSET Addresses /\ \A a \in Addresses : g[a] \in Nat
  /\ \A a \in U : h[a] = 0 /\ k[a] = "nobody"
  /\ \A a \in Addresses \ U : h[a] = g[a] /\ k[a] = f[a]

\* Opening adds the rent of the new accounts to all that accounts hold ...
LEMMA OpenedSum ==
  ASSUME NEW g, NEW h, NEW f, NEW k, NEW U, NEW p, Opens(g, h, f, k, U, p)
  PROVE  /\ SumOver(h, Addresses) = SumOver(g, Addresses) + SumOver(RentOf, U)
         /\ SumOver(g, Addresses) \in Nat /\ SumOver(RentOf, U) \in Nat
<1> USE DEF Opens
<1>1. /\ IsFiniteSet(U) /\ IsFiniteSet(Addresses \ U) /\ IsFiniteSet(Addresses)
      /\ \A a \in Addresses : h[a] \in Nat
  BY AddressesFinite, RentNumbers
<1>2. /\ SumOver(h, Addresses) = SumOver(h, U) + SumOver(h, Addresses \ U)
      /\ SumOver(g, Addresses) = SumOver(g, U) + SumOver(g, Addresses \ U)
  BY <1>1, SumSplit
<1>3. SumOver(h, U) = SumOver(RentOf, U)
  BY <1>1, SumSame
<1>4. SumOver(h, Addresses \ U) = SumOver(g, Addresses \ U)
  BY <1>1, SumSame
<1>5. SumOver(g, U) = 0
  BY <1>1, SumZero
<1>6. SumOver(RentOf, U) \in Nat /\ SumOver(g, Addresses \ U) \in Nat
  BY <1>1, RentNumbers, SumNat
<1>7. QED
  BY <1>2, <1>3, <1>4, <1>5, <1>6

\* ... and to what the payer has lying in accounts, nobody else's.
LEMMA OpenedFor ==
  ASSUME NEW g, NEW h, NEW f, NEW k, NEW U, NEW p, Opens(g, h, f, k, U, p),
         NEW w
  PROVE  /\ SumOver(h, Owned(k, w))
              = SumOver(g, Owned(f, w))
                  + IF w = p THEN SumOver(RentOf, U) ELSE 0
         /\ SumOver(g, Owned(f, w)) \in Nat
<1> USE DEF Opens
<1> DEFINE F == Owned(f, w)
           K == Owned(k, w)
<1>1. /\ \A V \in SUBSET Addresses : IsFiniteSet(V)
      /\ \A a \in Addresses : h[a] \in Nat
  BY AddressesFinite, RentNumbers
<1>2. /\ F \in SUBSET Addresses /\ K \in SUBSET Addresses /\ K \ U = F \ U
      /\ K \cap U = IF w = p THEN U ELSE {}
      /\ K \cap U \in SUBSET K /\ F \cap U \in SUBSET F
      /\ K \ (K \cap U) = K \ U /\ F \ (F \cap U) = F \ U
  BY DEF Owned
<1> HIDE DEF F, K
<1>3. /\ SumOver(h, K) = SumOver(h, K \cap U) + SumOver(h, K \ U)
      /\ SumOver(g, F) = SumOver(g, F \cap U) + SumOver(g, F \ U)
  BY <1>1, <1>2, SumSplit
<1>4. SumOver(h, K \ U) = SumOver(g, F \ U)
  BY <1>1, <1>2, SumSame
<1>5. SumOver(g, F \cap U) = 0
  BY <1>1, <1>2, SumZero
<1>6. SumOver(h, K \cap U) = IF w = p THEN SumOver(RentOf, U) ELSE 0
  <2>1. CASE w = p
    BY <1>1, <1>2, <2>1, SumSame
  <2>2. CASE w # p
    BY <1>2, <2>2, SumEmpty
  <2>3. QED
    BY <2>1, <2>2
<1>7. SumOver(RentOf, U) \in Nat /\ SumOver(g, F \ U) \in Nat
  BY <1>1, <1>2, RentNumbers, SumNat
<1>8. /\ SumOver(h, K) = SumOver(g, F) + IF w = p THEN SumOver(RentOf, U) ELSE 0
      /\ SumOver(g, F) \in Nat
  BY <1>3, <1>4, <1>5, <1>6, <1>7
<1>9. QED
  BY <1>8 DEF F, K

\* Closing takes all that the accounts hold ...
LEMMA ClosedSum ==
  ASSUME NEW g, NEW h, NEW f, NEW k, NEW U, Closes(g, h, f, k, U)
  PROVE  /\ SumOver(g, Addresses) = SumOver(h, Addresses) + SumOver(g, U)
         /\ SumOver(h, Addresses) \in Nat /\ SumOver(g, U) \in Nat
<1> USE DEF Closes
<1>1. /\ IsFiniteSet(U) /\ IsFiniteSet(Addresses \ U) /\ IsFiniteSet(Addresses)
      /\ \A a \in Addresses : h[a] \in Nat
  BY AddressesFinite
<1>2. /\ SumOver(h, Addresses) = SumOver(h, U) + SumOver(h, Addresses \ U)
      /\ SumOver(g, Addresses) = SumOver(g, U) + SumOver(g, Addresses \ U)
  BY <1>1, SumSplit
<1>3. SumOver(h, U) = 0
  BY <1>1, SumZero
<1>4. SumOver(h, Addresses \ U) = SumOver(g, Addresses \ U)
  BY <1>1, SumSame
<1>5. SumOver(g, U) \in Nat /\ SumOver(g, Addresses \ U) \in Nat
  BY <1>1, SumNat
<1>6. QED
  BY <1>2, <1>3, <1>4, <1>5

\* ... and takes from each wallet what it had lying in them.
LEMMA ClosedFor ==
  ASSUME NEW g, NEW h, NEW f, NEW k, NEW U, Closes(g, h, f, k, U),
         NEW w, w # "nobody"
  PROVE  \E mine \in Nat, others \in Nat :
           /\ SumOver(g, Owned(f, w))
                = SumOver(h, Owned(k, w)) + mine
           /\ SumOver(h, Owned(k, w)) \in Nat
           /\ SumOver(g, U) = mine + others
           /\ (\A a \in U : f[a] = w \/ g[a] = 0) => others = 0
           /\ (\A a \in U : f[a] # w \/ g[a] = 0) => mine = 0
<1> USE DEF Closes
<1> DEFINE F == Owned(f, w)
           K == Owned(k, w)
           mine == SumOver(g, F \cap U)
           others == SumOver(g, U \ F)
<1>1. \A V \in SUBSET Addresses : IsFiniteSet(V)
  BY AddressesFinite
<1>2. /\ F \in SUBSET Addresses /\ K \in SUBSET Addresses /\ K = F \ U
      /\ F \cap U \in SUBSET F /\ F \cap U \in SUBSET U
      /\ F \ (F \cap U) = F \ U /\ U \ (F \cap U) = U \ F
      /\ \A a \in U \ F : f[a] # w
      /\ \A a \in F \cap U : f[a] = w
  BY DEF Owned
<1> HIDE DEF F, K
<1>3. /\ SumOver(g, F) = SumOver(g, F \cap U) + SumOver(g, F \ U)
      /\ SumOver(g, U) = SumOver(g, F \cap U) + SumOver(g, U \ F)
  BY <1>1, <1>2, SumSplit
<1>4. SumOver(h, K) = SumOver(g, F \ U)
  BY <1>1, <1>2, SumSame
<1>5. mine \in Nat /\ others \in Nat /\ SumOver(g, F \ U) \in Nat
  BY <1>1, <1>2, SumNat
<1>6. (\A a \in U : f[a] = w \/ g[a] = 0) => others = 0
  BY <1>1, <1>2, SumZero
<1>7. (\A a \in U : f[a] # w \/ g[a] = 0) => mine = 0
  BY <1>1, <1>2, SumZero
<1>8. SumOver(g, F) = SumOver(h, K) + mine
  BY <1>3, <1>4, <1>5
<1>9. QED
  <2>1. SumOver(h, K) \in Nat /\ SumOver(g, U) = mine + others
    BY <1>3, <1>4, <1>5
  <2> HIDE DEF mine, others
  <2>2. QED
    BY <1>5, <1>6, <1>7, <1>8, <2>1 DEF F, K

-----------------------------------------------------------------------------
(***************************************************************************)
(* The ledger under Fund and Release.                                      *)
(***************************************************************************)
LedgerTypes ==
  /\ lamports \in [Wallets -> Nat]
  /\ balance \in [Addresses -> Nat]
  /\ funder \in [Addresses -> Wallets \cup {"nobody"}]

\* The first half of RentExact, and the second.
Backed == \A a \in Addresses : balance[a] = IF Exists(a) THEN RentOf[a] ELSE 0
Money == SumOver(balance, Addresses) + SumOver(lamports, Wallets)
Conserved == Money = SumOver(Lamports, Wallets)

\* The pause satellite is the merchant's: its rent goes back to the merchant
\* at resume, which must be no gain.
PausedIsMerchants == pausedAt # Absent => funder["paused"] = "merchant"

\* What a wallet has lying in accounts.
Deposits(w) == SumOver(balance, Owned(funder, w))

LEMMA NextSums ==
  /\ Money' = SumOver(balance', Addresses) + SumOver(lamports', Wallets)
  /\ \A w \in Wallets :
       Deposits(w)' = SumOver(balance', Owned(funder', w))
BY DEF Money, Deposits, Owned, SumOver, MapThenSumSet, MapThenFoldSet

LEMMA PositionIs ==
  \A w \in Wallets : Position(w) = lamports[w] + Deposits(w)
BY DEF Position, Held, Deposits, Owned, SumOver

LEMMA NextPositionIs ==
  \A w \in Wallets : Position(w)' = lamports'[w] + Deposits(w)'
BY DEF Position, Held, Deposits, Owned, SumOver, MapThenSumSet, MapThenFoldSet

LEMMA DepositNumbers ==
  ASSUME LedgerTypes
  PROVE  \A w \in Wallets : Deposits(w) \in Nat /\ lamports[w] \in Nat
<1>1. \A w \in Wallets : Owned(funder, w) \in SUBSET Addresses
  BY DEF Owned
<1>2. QED
  BY <1>1, AddressesFinite, SumNat DEF LedgerTypes, Deposits

LEMMA NextPositionNumbers ==
  ASSUME LedgerTypes'
  PROVE  \A w \in Wallets : Position(w)' \in Nat
<1>1. ASSUME NEW w \in Wallets
      PROVE  Deposits(w)' \in Nat
  <2>1. Owned(funder', w) \in SUBSET Addresses
    BY DEF Owned
  <2>2. IsFiniteSet(Owned(funder', w)) /\ \A a \in Owned(funder', w) : balance'[a] \in Nat
    BY <2>1, AddressesFinite DEF LedgerTypes
  <2>3. SumOver(balance', Owned(funder', w)) \in Nat
    BY <2>2, SumNat
  <2>4. QED
    BY <2>3, NextSums
<1>2. \A w \in Wallets : lamports'[w] \in Nat
  BY DEF LedgerTypes
<1>3. QED
  BY <1>1, <1>2, NextPositionIs

\* A deposit comes out of the payer's wallet and stays the payer's.
LEMMA FundSums ==
  ASSUME LedgerTypes, NEW p \in Wallets, NEW U \in SUBSET Addresses,
         Fund(p, U), \A a \in U : balance[a] = 0
  PROVE  /\ LedgerTypes' /\ Money' = Money
         /\ \A w \in Wallets : Position(w)' = Position(w)
<1> DEFINE t == SumOver(RentOf, U)
<1>1. /\ lamports[p] >= t
      /\ lamports' = [lamports EXCEPT ![p] = lamports[p] - t]
  BY DEF Fund, TotalRent, SumOver
<1>2. Opens(balance, balance', funder, funder', U, p)
  BY DEF Opens, Fund, LedgerTypes
<1>3. /\ SumOver(balance', Addresses) = SumOver(balance, Addresses) + t
      /\ SumOver(balance, Addresses) \in Nat /\ t \in Nat
  BY <1>2, OpenedSum
<1>4. ASSUME NEW w \in Wallets
      PROVE  Deposits(w)' = Deposits(w) + IF w = p THEN t ELSE 0
  <2>1. SumOver(balance', Owned(funder', w))
          = SumOver(balance, Owned(funder, w))
              + IF w = p THEN t ELSE 0
    BY <1>2, OpenedFor
  <2>2. QED
    BY <2>1, NextSums DEF Deposits
<1> HIDE DEF t
<1>5. LedgerTypes'
  BY <1>1, <1>3, RentNumbers DEF LedgerTypes, Fund
<1>6. Money' = Money
  <2>1. ASSUME NEW l, NEW m, \A w \in Wallets : l[w] \in Nat /\ m[w] \in Nat,
               \A w \in Wallets \ {p} : m[w] = l[w]
        PROVE  /\ SumOver(l, Wallets) = l[p] + SumOver(l, Wallets \ {p})
               /\ SumOver(m, Wallets) = m[p] + SumOver(l, Wallets \ {p})
               /\ SumOver(l, Wallets \ {p}) \in Nat
    BY <2>1, SumChange, AddressesFinite
  <2>2. /\ \A w \in Wallets : lamports[w] \in Nat /\ lamports'[w] \in Nat
        /\ \A w \in Wallets \ {p} : lamports'[w] = lamports[w]
        /\ lamports'[p] = lamports[p] - t
    BY <1>1, <1>5 DEF LedgerTypes
  <2>3. /\ SumOver(lamports, Wallets) = lamports[p] + SumOver(lamports, Wallets \ {p})
        /\ SumOver(lamports', Wallets)
              = lamports'[p] + SumOver(lamports, Wallets \ {p})
        /\ SumOver(lamports, Wallets \ {p}) \in Nat
    BY <2>1, <2>2
  <2>4. \A b \in Nat, x \in Nat, r \in Nat : b + t + ((x - t) + r) = b + (x + r)
    BY <1>3
  <2>5. QED
    BY <1>3, <2>2, <2>3, <2>4, NextSums DEF Money
<1>7. ASSUME NEW w \in Wallets
      PROVE  Position(w)' = Position(w)
  <2>1. lamports'[w] = IF w = p THEN lamports[w] - t ELSE lamports[w]
    BY <1>1 DEF LedgerTypes
  <2>2. \A x \in Nat, d \in Nat : (x - t) + (d + t) = x + d /\ x + (d + 0) = x + d
    BY <1>3
  <2>3. Deposits(w) \in Nat /\ lamports[w] \in Nat
    BY DepositNumbers
  <2>4. QED
    BY <1>4, <2>1, <2>2, <2>3, PositionIs, NextPositionIs
<1>8. QED
  BY <1>5, <1>6, <1>7

\* What a close pays out is a gain only to its recipient, and no gain if the
\* recipient had paid it in.
LEMMA ReleaseSums ==
  ASSUME LedgerTypes, NEW v \in Wallets, NEW U \in SUBSET Addresses,
         Release(U, v)
  PROVE  /\ LedgerTypes' /\ Money' = Money
         /\ Position(v)' >= Position(v)
         /\ \A w \in Wallets \ {v} : Position(w)' <= Position(w)
         /\ (\A a \in U : funder[a] = v \/ balance[a] = 0) =>
              \A w \in Wallets : Position(w)' = Position(w)
<1> DEFINE t == SumOver(balance, U)
<1>1. lamports' = [lamports EXCEPT ![v] = lamports[v] + t]
  BY DEF Release, Held, SumOver
<1>2. Closes(balance, balance', funder, funder', U)
  BY DEF Closes, Release, LedgerTypes
<1>3. /\ SumOver(balance, Addresses) = SumOver(balance', Addresses) + t
      /\ SumOver(balance', Addresses) \in Nat /\ t \in Nat
  BY <1>2, ClosedSum
<1>4. ASSUME NEW w \in Wallets
      PROVE  \E mine \in Nat, others \in Nat :
               /\ Deposits(w) = Deposits(w)' + mine
               /\ Deposits(w)' \in Nat
               /\ t = mine + others
               /\ (\A a \in U : funder[a] = w \/ balance[a] = 0) => others = 0
               /\ (\A a \in U : funder[a] # w \/ balance[a] = 0) => mine = 0
  <2>1. w # "nobody"
    BY DEF Wallets
  <2>2. QED
    BY <1>2, <2>1, ClosedFor, NextSums DEF Deposits
<1> HIDE DEF t
<1>5. LedgerTypes'
  BY <1>1, <1>3 DEF LedgerTypes, Release
<1>6. Money' = Money
  <2>1. ASSUME NEW l, NEW m, \A w \in Wallets : l[w] \in Nat /\ m[w] \in Nat,
               \A w \in Wallets \ {v} : m[w] = l[w]
        PROVE  /\ SumOver(l, Wallets) = l[v] + SumOver(l, Wallets \ {v})
               /\ SumOver(m, Wallets) = m[v] + SumOver(l, Wallets \ {v})
               /\ SumOver(l, Wallets \ {v}) \in Nat
    BY <2>1, SumChange, AddressesFinite
  <2>2. /\ \A w \in Wallets : lamports[w] \in Nat /\ lamports'[w] \in Nat
        /\ \A w \in Wallets \ {v} : lamports'[w] = lamports[w]
        /\ lamports'[v] = lamports[v] + t
    BY <1>1, <1>5 DEF LedgerTypes
  <2>3. /\ SumOver(lamports, Wallets) = lamports[v] + SumOver(lamports, Wallets \ {v})
        /\ SumOver(lamports', Wallets)
              = lamports'[v] + SumOver(lamports, Wallets \ {v})
        /\ SumOver(lamports, Wallets \ {v}) \in Nat
    BY <2>1, <2>2
  <2>4. \A b \in Nat, x \in Nat, r \in Nat : b + ((x + t) + r) = (b + t) + (x + r)
    BY <1>3
  <2>5. QED
    BY <1>3, <2>2, <2>3, <2>4, NextSums DEF Money
<1>7. ASSUME NEW w \in Wallets
      PROVE  /\ w = v => Position(w)' >= Position(w)
             /\ w # v => Position(w)' <= Position(w)
             /\ (\A a \in U : funder[a] = v \/ balance[a] = 0) =>
                  Position(w)' = Position(w)
  <2>1. PICK mine \in Nat, others \in Nat :
               /\ Deposits(w) = Deposits(w)' + mine
               /\ Deposits(w)' \in Nat
               /\ t = mine + others
               /\ (\A a \in U : funder[a] = w \/ balance[a] = 0) => others = 0
               /\ (\A a \in U : funder[a] # w \/ balance[a] = 0) => mine = 0
    BY <1>4
  <2>2. lamports'[w] = IF w = v THEN lamports[w] + (mine + others) ELSE lamports[w]
    BY <1>1, <2>1 DEF LedgerTypes
  <2>3. lamports[w] \in Nat
    BY DepositNumbers
  <2>4. /\ Position(w) = lamports[w] + (Deposits(w)' + mine)
        /\ Position(w)' = lamports'[w] + Deposits(w)'
    BY <2>1, PositionIs, NextPositionIs
  <2>5. CASE w = v
    <3>1. \A x \in Nat, d \in Nat :
            /\ (x + (mine + others)) + d >= x + (d + mine)
            /\ others = 0 => (x + (mine + others)) + d = x + (d + mine)
      OBVIOUS
    <3>2. QED
      BY <2>1, <2>2, <2>3, <2>4, <2>5, <3>1
  <2>6. CASE w # v
    <3>1. \A x \in Nat, d \in Nat :
            /\ x + d <= x + (d + mine)
            /\ mine = 0 => x + d = x + (d + mine)
      OBVIOUS
    <3>2. QED
      BY <2>1, <2>2, <2>3, <2>4, <2>6, <3>1
  <2>7. QED
    BY <2>5, <2>6
<1>8. QED
  BY <1>5, <1>6, <1>7

-----------------------------------------------------------------------------
(***************************************************************************)
(* Which accounts the instructions open and close.                         *)
(***************************************************************************)
\* Exactly the accounts U come into being, or go.
Creates(U) ==
  /\ U \in SUBSET Addresses
  /\ \A a \in U : ~Exists(a) /\ Exists(a)'
  /\ \A a \in Addresses \ U : Exists(a)' <=> Exists(a)
Removes(U) ==
  /\ U \in SUBSET Addresses
  /\ \A a \in U : ~Exists(a)'
  /\ \A a \in Addresses \ U : Exists(a)' <=> Exists(a)

LEMMA ExistsIs ==
  /\ Exists("plan") <=> plan # NoPlan
  /\ Exists("subscription") <=> state # "None"
  /\ Exists("vault") <=> vault # Absent
  /\ Exists("graced") <=> enteredGraceAt # Absent
  /\ Exists("paused") <=> pausedAt # Absent
  /\ \A s \in SessionIds : Exists(s) <=> facilitator[s] # NoFacilitator
BY RentAssumption DEF Exists, Singletons

LEMMA NextExistsIs ==
  /\ Exists("plan")' <=> plan' # NoPlan
  /\ Exists("subscription")' <=> state' # "None"
  /\ Exists("vault")' <=> vault' # Absent
  /\ Exists("graced")' <=> enteredGraceAt' # Absent
  /\ Exists("paused")' <=> pausedAt' # Absent
  /\ \A s \in SessionIds : Exists(s)' <=> facilitator'[s] # NoFacilitator
BY RentAssumption DEF Exists, Singletons, Absent

LEMMA VaultExists ==
  ASSUME MoneyInv
  PROVE  vault # Absent <=> state \in Live
BY EscrowAssumption DEF MoneyInv, TypeOK, EscrowExact, Amount, Absent

LEMMA NextVaultExists ==
  ASSUME MoneyInv'
  PROVE  vault' # Absent <=> state' \in Live
<1>1. \A d \in Nat, w \in Nat, g \in Nat : w <= d => d - w + g # Absent
  BY DEF Absent
<1>2. /\ deposited' \in Nat /\ withdrawn' \in Nat /\ withdrawn' <= deposited'
      /\ gifts' \in Nat
      /\ vault' = IF state' \in Live THEN deposited' - withdrawn' + gifts'
                                     ELSE Absent
  BY EscrowAssumption DEF MoneyInv, TypeOK, EscrowExact, Amount, Live, Absent
<1>3. QED
  BY <1>1, <1>2

LEMMA CreatePlanCreates ==
  ASSUME NEW t \in Terms, CreatePlan(t)
  PROVE  Creates({"plan"})
BY EscrowAssumption, ExistsIs, NextExistsIs
DEF CreatePlan, tokens, satellites, graced, sessions, Creates, Addresses, Singletons

LEMMA SubscribeCreates ==
  ASSUME MoneyInv, MoneyInv', NEW n \in Periods, Subscribe(n)
  PROVE  Creates({"subscription", "vault"})
<1>1. vault' # Absent
  BY NextVaultExists DEF Subscribe, NewSubscription, Live
<1>2. QED
  BY <1>1, ExistsIs, NextExistsIs
  DEF Subscribe, SubscribeAccounts, NewSubscription, satellites, graced, sessions,
      Creates, Addresses, Singletons

LEMMA CleanupRemoves ==
  ASSUME Cleanup
  PROVE  Removes({"subscription"})
BY ExistsIs, NextExistsIs
DEF Cleanup, tokens, satellites, graced, sessions, Removes, Addresses, Singletons

LEMMA ChargeCreates ==
  ASSUME MoneyInv, MoneyInv', NEW attach \in BOOLEAN, Charge(attach)
  PROVE  Creates(GraceInits(attach))
<1>1. /\ plan' = plan /\ pausedAt' = pausedAt /\ facilitator' = facilitator
      /\ state = "Active" /\ state' \in {"Active", "GracePeriod"}
      /\ attach => enteredGraceAt = Absent /\ enteredGraceAt' = now
      /\ ~attach => enteredGraceAt' = enteredGraceAt
  BY DEF Charge, ChargeTail, ChargeAccounts, sessions, graced
<1>2. vault # Absent /\ vault' # Absent /\ now # Absent
  BY <1>1, VaultExists, NextVaultExists, EscrowAssumption
  DEF Live, MoneyInv, TypeOK, Absent
<1>3. QED
  BY <1>1, <1>2, ExistsIs, NextExistsIs
  DEF GraceInits, Creates, Addresses, Singletons

LEMMA TopUpRemoves ==
  ASSUME MoneyInv, MoneyInv', NEW a \in Amounts, NEW attach \in BOOLEAN,
         TopUp(a, attach)
  PROVE  Removes(GraceInits(attach))
<1>1. /\ plan' = plan /\ pausedAt' = pausedAt /\ facilitator' = facilitator
      /\ state \in Live /\ state' \in Live
      /\ attach => enteredGraceAt' = Absent
      /\ ~attach => enteredGraceAt' = enteredGraceAt
  BY DEF TopUp, TopUpTail, TopUpStates, Live, sessions, graced
<1>2. vault # Absent /\ vault' # Absent /\ state # "None" /\ state' # "None"
  BY <1>1, VaultExists, NextVaultExists DEF Live
<1>3. QED
  BY <1>1, <1>2, ExistsIs, NextExistsIs
  DEF GraceInits, Removes, Addresses, Singletons

LEMMA PauseCreates ==
  ASSUME MoneyInv, Pause
  PROVE  Creates({"paused"})
<1>1. now # Absent
  BY EscrowAssumption DEF MoneyInv, TypeOK, Absent
<1>2. QED
  BY <1>1, ExistsIs, NextExistsIs
  DEF Pause, PauseAccounts, tokens, graced, sessions, Creates, Addresses,
      Singletons

LEMMA ResumeRemoves ==
  ASSUME Resume
  PROVE  Removes({"paused"})
BY ExistsIs, NextExistsIs
DEF Resume, ResumeAccounts, tokens, graced, sessions, Removes, Addresses, Singletons

\* Whatever satellites the caller attaches, those and the vault go.
LEMMA CancelRemoves ==
  ASSUME NEW signer, NEW g \in BOOLEAN, NEW p \in BOOLEAN, Cancel(signer, g, p)
  PROVE  Removes(CancelCloses(g, p))
<1>1. /\ plan' = plan /\ facilitator' = facilitator /\ vault' = Absent
      /\ state # "None" /\ state' # "None"
      /\ enteredGraceAt' = IF g THEN Absent ELSE enteredGraceAt
      /\ pausedAt' = IF p THEN Absent ELSE pausedAt
  BY DEF Cancel, CancelGuards, Live, sessions, graced
<1>2. QED
  BY <1>1, ExistsIs, NextExistsIs DEF CancelCloses, Removes, Addresses, Singletons

LEMMA OpenSessionCreates ==
  ASSUME MoneyInv, NEW s \in SessionIds, NEW f \in Facilitators, NEW cap,
         OpenSession(s, f, cap)
  PROVE  Creates({s})
<1>1. /\ UNCHANGED <<plan, state, vault, enteredGraceAt, pausedAt>>
      /\ facilitator[s] = NoFacilitator /\ facilitator'[s] # NoFacilitator
      /\ \A x \in SessionIds \ {s} : facilitator'[x] = facilitator[x]
  BY EscrowAssumption
  DEF OpenSession, OpenSessionAccounts, tokens, satellites, graced, MoneyInv, TypeOK
<1>2. QED
  BY <1>1, RentAssumption, ExistsIs, NextExistsIs DEF Creates, Addresses, Singletons

LEMMA CloseSessionRemoves ==
  ASSUME MoneyInv, NEW s \in SessionIds, CloseSession(s)
  PROVE  Removes({s})
<1>1. /\ UNCHANGED <<plan, state, vault, enteredGraceAt, pausedAt>>
      /\ facilitator'[s] = NoFacilitator
      /\ \A x \in SessionIds \ {s} : facilitator'[x] = facilitator[x]
  BY DEF CloseSession, tokens, satellites, graced, MoneyInv, TypeOK
<1>2. QED
  BY <1>1, RentAssumption, ExistsIs, NextExistsIs DEF Removes, Addresses, Singletons

\* settle_usage, the clock and the token program open and close nothing.
LEMMA SameAccounts ==
  ASSUME MoneyInv, MoneyInv',
         FacilitatorStep \/ Tick \/ TokenStep \/ UNCHANGED vars
  PROVE  \A a \in Addresses : Exists(a)' <=> Exists(a)
<1>1. UNCHANGED <<plan, state, enteredGraceAt, pausedAt, facilitator>>
  BY DEF FacilitatorStep, SettleUsage, Tick, TokenStep, Gift, CloseMerchantAta,
         ReopenMerchantAta, vars, satellites, graced, sessions
<1>2. vault' # Absent <=> vault # Absent
  BY <1>1, VaultExists, NextVaultExists DEF Live
<1>3. QED
  BY <1>1, <1>2, ExistsIs, NextExistsIs DEF Addresses, Singletons

-----------------------------------------------------------------------------
(***************************************************************************)
(* The invariant.                                                          *)
(***************************************************************************)
RentInv ==
  /\ MoneyInv
  /\ LedgerTypes /\ Backed /\ Conserved
  /\ PausedIsMerchants
  /\ RentFlows

\* A step that opens the accounts U at the expense of p.
LEMMA FundKeeps ==
  ASSUME RentInv, MoneyInv', NEW p \in Wallets, NEW U, Creates(U), Fund(p, U),
         "paused" \in U => p = "merchant"
  PROVE  RentInv'
<1>1. U \in SUBSET Addresses /\ \A a \in U : balance[a] = 0
  BY DEF RentInv, Backed, Creates
<1>2. /\ LedgerTypes' /\ Money' = Money
      /\ \A w \in Wallets : Position(w)' = Position(w)
  BY <1>1, FundSums DEF RentInv
<1>3. Backed'
  <2>1. ASSUME NEW a \in Addresses
        PROVE  balance'[a] = IF Exists(a)' THEN RentOf[a] ELSE 0
    BY DEF RentInv, Backed, Creates, Fund
  <2>2. QED
    BY <2>1 DEF Backed
<1>4. Conserved'
  BY <1>2 DEF RentInv, Conserved
<1>5. PausedIsMerchants'
  <2>1. "paused" \in Addresses
    BY DEF Addresses, Singletons
  <2>2. funder'["paused"] = IF "paused" \in U THEN p ELSE funder["paused"]
    BY <2>1 DEF Fund
  <2>3. "paused" \notin U => (pausedAt' # Absent => pausedAt # Absent)
    BY <2>1, ExistsIs, NextExistsIs DEF Creates
  <2>4. QED
    BY <2>2, <2>3 DEF RentInv, PausedIsMerchants, Absent
<1>6. RentFlows'
  BY <1>2 DEF RentInv, RentFlows, Wallets
<1>7. QED
  BY <1>2, <1>3, <1>4, <1>5, <1>6 DEF RentInv

\* A step that closes the accounts U to v: the subscriber, or whoever paid.
LEMMA ReleaseKeeps ==
  ASSUME RentInv, MoneyInv', NEW v \in Wallets, NEW U, Removes(U), Release(U, v),
         v = "subscriber" \/ \A a \in U : funder[a] = v \/ balance[a] = 0
  PROVE  RentInv'
<1>1. U \in SUBSET Addresses
  BY DEF Removes
<1>2. /\ LedgerTypes' /\ Money' = Money
      /\ Position(v)' >= Position(v)
      /\ \A w \in Wallets \ {v} : Position(w)' <= Position(w)
      /\ (\A a \in U : funder[a] = v \/ balance[a] = 0) =>
           \A w \in Wallets : Position(w)' = Position(w)
  BY <1>1, ReleaseSums DEF RentInv
<1>3. Backed'
  <2>1. ASSUME NEW a \in Addresses
        PROVE  balance'[a] = IF Exists(a)' THEN RentOf[a] ELSE 0
    BY DEF RentInv, Backed, Removes, Release
  <2>2. QED
    BY <2>1 DEF Backed
<1>4. Conserved'
  BY <1>2 DEF RentInv, Conserved
<1>5. PausedIsMerchants'
  <2>1. "paused" \in Addresses
    BY DEF Addresses, Singletons
  <2>2. "paused" \notin U => funder'["paused"] = funder["paused"]
    BY <2>1 DEF Release
  <2>3. pausedAt' # Absent => "paused" \notin U /\ pausedAt # Absent
    BY <2>1, ExistsIs, NextExistsIs DEF Removes
  <2>4. QED
    BY <2>2, <2>3 DEF RentInv, PausedIsMerchants, Absent
<1>6. RentFlows'
  <2>1. CASE \A a \in U : funder[a] = v \/ balance[a] = 0
    BY <1>2, <2>1 DEF RentInv, RentFlows, Wallets
  <2>2. CASE v = "subscriber"
    <3>1. \A w \in Wallets :
            /\ Position(w) \in Int /\ Position(w)' \in Int /\ Lamports[w] \in Int
      <4>1. \A w \in Wallets : Position(w) \in Int /\ Lamports[w] \in Int
        BY PositionIs, DepositNumbers, RentAssumption DEF RentInv
      <4>2. QED
        BY <4>1, <1>2, NextPositionNumbers
    <3>2. \A x \in Int, y \in Int, z \in Int :
            (x >= y /\ y >= z => x >= z) /\ (x <= y /\ y <= z => x <= z)
      OBVIOUS
    <3>3. Position("subscriber") >= Lamports["subscriber"]
           /\ \A w \in Wallets \ {"subscriber"} : Position(w) <= Lamports[w]
      BY DEF RentInv, RentFlows
    <3>4. "subscriber" \in Wallets
      BY DEF Wallets
    <3>5. /\ Position("subscriber")' >= Lamports["subscriber"]
          /\ \A w \in Wallets \ {"subscriber"} : Position(w)' <= Lamports[w]
      BY <1>2, <2>2, <3>1, <3>2, <3>3, <3>4
    <3>6. QED
      BY <3>5 DEF RentFlows, Wallets
  <2>3. QED
    BY <2>1, <2>2
<1>7. QED
  BY <1>2, <1>3, <1>4, <1>5, <1>6 DEF RentInv

\* A step that moves no lamport.
LEMMA LamportsUntouched ==
  ASSUME RentInv, MoneyInv', UNCHANGED lvars,
         \A a \in Addresses : Exists(a)' <=> Exists(a)
  PROVE  RentInv'
<1>1. UNCHANGED <<lamports, balance, funder>>
  BY DEF lvars
<1>2. LedgerTypes' /\ Conserved' /\ RentFlows'
  <2>1. LedgerTypes'
    BY <1>1 DEF RentInv, LedgerTypes, Wallets
  <2>2. Money' = Money /\ \A w \in Wallets : Deposits(w)' = Deposits(w)
    BY <1>1, NextSums DEF Money, Deposits
  <2>3. \A w \in Wallets : Position(w)' = Position(w)
    BY <1>1, <2>2, PositionIs, NextPositionIs
  <2>4. QED
    BY <2>1, <2>2, <2>3 DEF RentInv, Conserved, RentFlows, Wallets
<1>3. Backed'
  <2>1. ASSUME NEW a \in Addresses
        PROVE  balance'[a] = IF Exists(a)' THEN RentOf[a] ELSE 0
    BY <1>1 DEF RentInv, Backed
  <2>2. QED
    BY <2>1 DEF Backed
<1>4. PausedIsMerchants'
  <2>1. "paused" \in Addresses
    BY DEF Addresses, Singletons
  <2>2. QED
    BY <1>1, <2>1, ExistsIs, NextExistsIs DEF RentInv, PausedIsMerchants, Absent
<1>5. QED
  BY <1>2, <1>3, <1>4 DEF RentInv

LEMMA RentStep == RentInv /\ [RentNext]_rentVars => RentInv'
<1> SUFFICES ASSUME RentInv, [RentNext]_rentVars
             PROVE  RentInv'
  OBVIOUS
<1> USE DEF RentInv
<1>1. ASSUME Next \/ UNCHANGED vars
      PROVE  MoneyInv'
  BY <1>1, MoneyStep DEF DriftNext
<1>2. /\ "subscriber" \in Wallets /\ "merchant" \in Wallets /\ "keeper" \in Wallets
      /\ Payers \subseteq Wallets
      /\ "paused" \in Addresses /\ "paused" \notin SessionIds
  BY RentAssumption DEF Wallets, Addresses, Singletons
<1>3. ASSUME NEW t \in Terms, PaidCreatePlan(t)
      PROVE  RentInv'
  <2>1. MoneyInv'
    BY <1>1, <1>3 DEF PaidCreatePlan, Next, UseNext, MerchantStep
  <2>2. QED
    BY <1>2, <1>3, <2>1, CreatePlanCreates, FundKeeps DEF PaidCreatePlan
<1>4. ASSUME NEW n \in Periods, PaidSubscribe(n)
      PROVE  RentInv'
  <2>1. MoneyInv'
    BY <1>1, <1>4 DEF PaidSubscribe, Next, AccountStep
  <2>2. QED
    BY <1>2, <1>4, <2>1, SubscribeCreates, FundKeeps DEF PaidSubscribe
<1>5. ASSUME RefundedCleanup
      PROVE  RentInv'
  <2>1. MoneyInv'
    BY <1>1, <1>5 DEF RefundedCleanup, Next, AccountStep
  <2>2. QED
    BY <1>2, <1>5, <2>1, CleanupRemoves, ReleaseKeeps DEF RefundedCleanup
<1>6. ASSUME NEW payer \in Payers, NEW attach \in BOOLEAN, PaidCharge(payer, attach)
      PROVE  RentInv'
  <2>1. MoneyInv'
    BY <1>1, <1>6 DEF PaidCharge, Next, UseNext, KeeperStep
  <2>2. "paused" \notin GraceInits(attach)
    BY DEF GraceInits
  <2>3. QED
    BY <1>2, <1>6, <2>1, <2>2, ChargeCreates, FundKeeps DEF PaidCharge
<1>7. ASSUME NEW a \in Amounts, NEW attach \in BOOLEAN, RefundedTopUp(a, attach)
      PROVE  RentInv'
  <2>1. MoneyInv'
    BY <1>1, <1>7 DEF RefundedTopUp, Next, UseNext, SubscriberStep
  <2>2. QED
    BY <1>2, <1>7, <2>1, TopUpRemoves, ReleaseKeeps DEF RefundedTopUp
<1>8. ASSUME PaidPause
      PROVE  RentInv'
  <2>1. MoneyInv'
    BY <1>1, <1>8 DEF PaidPause, Next, UseNext, MerchantStep
  <2>2. QED
    BY <1>2, <1>8, <2>1, PauseCreates, FundKeeps DEF PaidPause
<1>9. ASSUME RefundedResume
      PROVE  RentInv'
  <2>1. MoneyInv'
    BY <1>1, <1>9 DEF RefundedResume, Next, UseNext, MerchantStep
  <2>2. \A a \in {"paused"} : funder[a] = "merchant" \/ balance[a] = 0
    BY <1>9 DEF RefundedResume, Resume, ResumeAccounts, PausedIsMerchants
  <2>3. QED
    BY <1>2, <1>9, <2>1, <2>2, ResumeRemoves, ReleaseKeeps DEF RefundedResume
<1>10. ASSUME NEW signer,
              NEW g \in BOOLEAN, NEW p \in BOOLEAN, RefundedCancel(signer, g, p)
       PROVE  RentInv'
  <2>1. MoneyInv'
    BY <1>10, MoneyCancel DEF RefundedCancel
  <2>2. CancelRentRecipient(signer) = "subscriber"
    BY DEF CancelRentRecipient
  <2>3. QED
    BY <1>2, <1>10, <2>1, <2>2, CancelRemoves, ReleaseKeeps DEF RefundedCancel
<1>11. ASSUME NEW s \in SessionIds, NEW f \in Facilitators,
              NEW cap \in Amounts \cup {0}, PaidOpenSession(s, f, cap)
       PROVE  RentInv'
  <2>1. MoneyInv'
    BY <1>1, <1>11 DEF PaidOpenSession, Next, UseNext, SubscriberStep
  <2>2. "paused" \notin {s}
    BY <1>2
  <2>3. QED
    BY <1>2, <1>11, <2>1, <2>2, OpenSessionCreates, FundKeeps DEF PaidOpenSession
<1>12. ASSUME NEW s \in SessionIds, RefundedCloseSession(s)
       PROVE  RentInv'
  <2>1. MoneyInv'
    BY <1>1, <1>12 DEF RefundedCloseSession, Next, UseNext, SubscriberStep
  <2>2. QED
    BY <1>2, <1>12, <2>1, CloseSessionRemoves, ReleaseKeeps
    DEF RefundedCloseSession
<1>13. ASSUME FacilitatorStep \/ Tick \/ TokenStep \/ UNCHANGED vars,
              UNCHANGED lvars
       PROVE  RentInv'
  <2>1. MoneyInv'
    BY <1>1, <1>13 DEF Next, UseNext
  <2>2. QED
    BY <1>13, <2>1, SameAccounts, LamportsUntouched
<1>14. CASE Leave \/ UNCHANGED rentVars
  BY <1>13, <1>14 DEF Leave, rentVars
<1>15. CASE LeaverStep
  BY <1>4, <1>5, <1>10, <1>12, <1>15
  DEF LeaverStep, LeaverSubscribe, LeaverCancel, LeaverClose, LeaverCleanup
<1>16. CASE StayerStep
  BY <1>4, <1>5, <1>7, <1>11, <1>12, <1>16 DEF StayerStep
<1>17. CASE OtherStep
  BY <1>3, <1>6, <1>8, <1>9, <1>10, <1>13, <1>17 DEF OtherStep, PayerStep
<1>18. QED
  BY <1>14, <1>15, <1>16, <1>17 DEF RentNext

LEMMA RentStart == RentInit => RentInv
<1> SUFFICES ASSUME RentInit PROVE RentInv
  OBVIOUS
<1>1. MoneyInv /\ LedgerTypes
  BY MoneyInit, RentAssumption DEF RentInit, LedgerTypes
<1>2. Backed
  BY ExistsIs DEF RentInit, Init, Backed, Addresses, Singletons
<1>3. \A U \in SUBSET Addresses : SumOver(balance, U) = 0
  BY AddressesFinite, SumZero DEF RentInit
<1>4. Addresses \in SUBSET Addresses
      /\ \A w \in Wallets : Owned(funder, w) \in SUBSET Addresses
  BY DEF Owned
<1>5. Conserved
  <2>1. SumOver(Lamports, Wallets) \in Nat
    BY RentAssumption, AddressesFinite, SumNat
  <2>2. QED
    BY <1>3, <1>4, <2>1 DEF RentInit, Conserved, Money
<1>6. \A w \in Wallets : Position(w) = Lamports[w] /\ Lamports[w] \in Nat
  BY <1>3, <1>4, PositionIs, RentAssumption DEF Deposits, RentInit
<1>7. RentFlows /\ PausedIsMerchants
  BY <1>6 DEF RentFlows, Wallets, PausedIsMerchants, RentInit, Init
<1>8. QED
  BY <1>1, <1>2, <1>5, <1>7 DEF RentInv

LEMMA RentInvHolds == RentSpec => []RentInv
BY RentStart, RentStep, PTL DEF RentSpec

\* Every account that exists holds its rent, nothing is left at the address of
\* one that was closed, and no lamport is made or lost, for any deposits,
\* wallets and number of sessions and whatever satellites the callers of
\* charge, top_up and cancel attach.
THEOREM RentIsExact == RentSpec => []RentExact
<1>1. RentInv => RentExact
  BY DEF RentInv, Backed, Conserved, Money, RentExact, Held, SumOver
<1>2. QED
  BY <1>1, RentInvHolds, PTL

\* The subscriber never loses a lamport of rent and neither the merchant nor a
\* keeper ever ends up with more than it put in, whoever signs the cancel,
\* pays for the grace satellite or orphans a session.
THEOREM RentFlowsSafe == RentSpec => []RentFlows
<1>1. RentInv => RentFlows
  BY DEF RentInv
<1>2. QED
  BY <1>1, RentInvHolds, PTL

-----------------------------------------------------------------------------
(***************************************************************************)
(* Whose deposits come back.                                               *)
(***************************************************************************)
\* Who has paid for an account: only the grace satellite has no fixed payer.
PayerOf(a) == IF a \in {"plan", "paused"} THEN "merchant" ELSE "subscriber"
KnownPayers ==
  \A a \in Addresses \ {"graced"} : funder[a] \in {"nobody", PayerOf(a)}

LEMMA FundPayers ==
  ASSUME LedgerTypes, KnownPayers, NEW p \in Wallets, NEW U, Fund(p, U),
         \A a \in U : a = "graced" \/ p = PayerOf(a)
  PROVE  /\ KnownPayers'
         /\ \A a \in Addresses : funder'[a] = "nobody" => funder[a] = "nobody"
<1>1. p # "nobody"
  BY DEF Wallets
<1>2. funder' = [a \in Addresses |-> IF a \in U THEN p ELSE funder[a]]
  BY DEF Fund
<1>3. QED
  BY <1>1, <1>2 DEF KnownPayers, PayerOf

LEMMA ReleasePayers ==
  ASSUME LedgerTypes, KnownPayers, NEW v \in Wallets, NEW U \in SUBSET Addresses,
         Release(U, v)
  PROVE  /\ KnownPayers'
         /\ \A a \in Addresses : funder[a] # "nobody" /\ funder'[a] = "nobody" =>
              a \in U
         /\ \A a \in U : lamports'[v] >= lamports[v] + balance[a]
<1>1. /\ funder' = [a \in Addresses |-> IF a \in U THEN "nobody" ELSE funder[a]]
      /\ lamports' = [lamports EXCEPT ![v] = lamports[v] + SumOver(balance, U)]
  BY DEF Release, Held, SumOver
<1>2. ASSUME NEW a \in U
      PROVE  lamports'[v] >= lamports[v] + balance[a]
  <2>1. IsFiniteSet(U) /\ IsFiniteSet(U \ {a}) /\ \A x \in U : balance[x] \in Nat
    BY AddressesFinite DEF LedgerTypes
  <2>2. /\ SumOver(balance, U) = balance[a] + SumOver(balance, U \ {a})
        /\ SumOver(balance, U \ {a}) \in Nat
    BY <2>1, SumRemove, SumNat
  <2>3. lamports[v] \in Nat /\ lamports'[v] = lamports[v] + SumOver(balance, U)
    BY <1>1 DEF LedgerTypes
  <2>4. \A l \in Nat, b \in Nat, r \in Nat : l + (b + r) >= l + b
    OBVIOUS
  <2>5. QED
    BY <2>1, <2>2, <2>3, <2>4
<1>3. QED
  BY <1>1, <1>2 DEF KnownPayers, PayerOf

LEMMA PayersStep ==
  ASSUME LedgerTypes, KnownPayers, [RentNext]_rentVars
  PROVE  /\ KnownPayers'
         /\ \A a \in Addresses :
              funder[a] # "nobody" /\ funder'[a] = "nobody" /\ ~Strays(a) =>
                lamports'[funder[a]] >= lamports[funder[a]] + balance[a]
<1> DEFINE Goal ==
      /\ KnownPayers'
      /\ \A a \in Addresses :
           funder[a] # "nobody" /\ funder'[a] = "nobody" /\ ~Strays(a) =>
             lamports'[funder[a]] >= lamports[funder[a]] + balance[a]
<1> SUFFICES Goal
  OBVIOUS
<1>1. /\ "subscriber" \in Wallets /\ "merchant" \in Wallets
      /\ Payers \subseteq Wallets
      /\ {"plan"} \in SUBSET Addresses /\ {"subscription", "vault"} \in SUBSET Addresses
      /\ {"graced"} \in SUBSET Addresses /\ {"paused"} \in SUBSET Addresses
      /\ {"subscription"} \in SUBSET Addresses /\ {"vault"} \in SUBSET Addresses
      /\ \A s \in SessionIds : s \in Addresses /\ s \notin {"plan", "paused", "graced"}
  BY RentAssumption DEF Wallets, Addresses, Singletons
<1>2. ASSUME NEW p \in Wallets, NEW U, Fund(p, U),
             \A a \in U : a = "graced" \/ p = PayerOf(a)
      PROVE  Goal
  BY <1>2, FundPayers
<1>3. ASSUME NEW v \in Wallets, NEW U \in SUBSET Addresses, Release(U, v),
             \A a \in U : Strays(a) \/ v = PayerOf(a)
      PROVE  Goal
  <2>1. /\ KnownPayers'
        /\ \A a \in Addresses : funder[a] # "nobody" /\ funder'[a] = "nobody" =>
             a \in U
        /\ \A a \in U : lamports'[v] >= lamports[v] + balance[a]
    BY <1>3, ReleasePayers
  <2>2. \A a \in U : funder[a] # "nobody" /\ ~Strays(a) => funder[a] = v
    BY <1>3 DEF KnownPayers, Strays
  <2>3. QED
    BY <2>1, <2>2
<1>4. ASSUME UNCHANGED lvars
      PROVE  Goal
  BY <1>4 DEF lvars, KnownPayers, PayerOf
<1> HIDE DEF Goal
<1>5. ASSUME NEW t \in Terms, PaidCreatePlan(t)
      PROVE  Goal
  BY <1>1, <1>2, <1>5 DEF PaidCreatePlan, PayerOf
<1>6. ASSUME NEW n \in Periods, PaidSubscribe(n)
      PROVE  Goal
  BY <1>1, <1>2, <1>6 DEF PaidSubscribe, PayerOf
<1>7. ASSUME RefundedCleanup
      PROVE  Goal
  BY <1>1, <1>3, <1>7 DEF RefundedCleanup, PayerOf
<1>8. ASSUME NEW payer \in Payers, NEW attach \in BOOLEAN, PaidCharge(payer, attach)
      PROVE  Goal
  BY <1>1, <1>2, <1>8 DEF PaidCharge, GraceInits
<1>9. ASSUME NEW a \in Amounts, NEW attach \in BOOLEAN, RefundedTopUp(a, attach)
      PROVE  Goal
  <2>1. /\ GraceInits(attach) \in SUBSET Addresses
        /\ \A x \in GraceInits(attach) : Strays(x)
    BY <1>1 DEF GraceInits, Strays
  <2>2. QED
    BY <1>1, <1>3, <1>9, <2>1 DEF RefundedTopUp
<1>10. ASSUME PaidPause
       PROVE  Goal
  BY <1>1, <1>2, <1>10 DEF PaidPause, PayerOf
<1>11. ASSUME RefundedResume
       PROVE  Goal
  BY <1>1, <1>3, <1>11 DEF RefundedResume, PayerOf
<1>12. ASSUME NEW signer, NEW g \in BOOLEAN, NEW p \in BOOLEAN,
              RefundedCancel(signer, g, p)
       PROVE  Goal
  <2>1. /\ CancelCloses(g, p) \in SUBSET Addresses
        /\ \A x \in CancelCloses(g, p) : x \in {"vault", "graced", "paused"}
    BY <1>1 DEF CancelCloses
  <2>2. state' = "Cancelled" /\ Release(CancelCloses(g, p), "subscriber")
    BY <1>12 DEF RefundedCancel, Cancel, CancelRentRecipient
  <2>3. \A x \in CancelCloses(g, p) : Strays(x) \/ "subscriber" = PayerOf(x)
    BY <2>1, <2>2 DEF Strays, PayerOf
  <2>4. QED
    BY <1>1, <1>3, <2>1, <2>2, <2>3
<1>13. ASSUME NEW s \in SessionIds, NEW f \in Facilitators,
              NEW cap \in Amounts \cup {0}, PaidOpenSession(s, f, cap)
       PROVE  Goal
  BY <1>1, <1>2, <1>13 DEF PaidOpenSession, PayerOf
<1>14. ASSUME NEW s \in SessionIds, RefundedCloseSession(s)
       PROVE  Goal
  <2>1. {s} \in SUBSET Addresses /\ \A x \in {s} : "subscriber" = PayerOf(x)
    BY <1>1 DEF PayerOf
  <2>2. QED
    BY <1>1, <1>3, <1>14, <2>1 DEF RefundedCloseSession
<1>15. CASE LeaverStep
  BY <1>6, <1>7, <1>12, <1>14, <1>15
  DEF LeaverStep, LeaverSubscribe, LeaverCancel, LeaverClose, LeaverCleanup
<1>16. CASE StayerStep
  BY <1>6, <1>7, <1>9, <1>13, <1>14, <1>16 DEF StayerStep
<1>17. CASE OtherStep
  BY <1>4, <1>5, <1>8, <1>10, <1>11, <1>12, <1>17 DEF OtherStep, PayerStep
<1>18. CASE Leave \/ UNCHANGED rentVars
  BY <1>4, <1>18 DEF Leave, rentVars
<1>19. QED
  BY <1>15, <1>16, <1>17, <1>18 DEF RentNext

LEMMA KnownPayersHolds == RentSpec => []KnownPayers
<1>1. RentInit => KnownPayers
  BY DEF RentInit, KnownPayers
<1>2. RentInv => LedgerTypes
  BY DEF RentInv
<1>3. LedgerTypes /\ KnownPayers /\ [RentNext]_rentVars => KnownPayers'
  BY PayersStep
<1>4. QED
  BY <1>1, <1>2, <1>3, RentInvHolds, PTL DEF RentSpec

\* README: "satellites and vault close back to their payers".  True of the
\* Subscription, the vault, every session and, at resume, the pause satellite;
\* the grace satellite and the pause satellite at a cancel are the exceptions.
THEOREM OnlySatellitesStray == RentSpec => ClosesToPayerButStrays
<1>1. RentInv => LedgerTypes
  BY DEF RentInv
<1>2. LedgerTypes /\ KnownPayers /\ [RentNext]_rentVars =>
        \A a \in Addresses :
          funder[a] # "nobody" /\ funder'[a] = "nobody" /\ ~Strays(a) =>
            lamports'[funder[a]] >= lamports[funder[a]] + balance[a]
  BY PayersStep
<1>3. QED
  BY <1>1, <1>2, RentInvHolds, KnownPayersHolds, PTL
  DEF RentSpec, ClosesToPayerButStrays

\* A subscriber with neither a Subscription nor a session has nothing lying in
\* the accounts: what it paid for is closed, and what exists the merchant paid.
LEMMA NothingLeft ==
  ASSUME RentInv, KnownPayers, Gone
  PROVE  Deposits("subscriber") = 0
<1>1. vault = Absent /\ enteredGraceAt = Absent /\ pausedAt = Absent
  BY DEF Gone, RentInv, MoneyInv, EscrowExact, SatelliteIff, Live
<1>2. \A s \in SessionIds : facilitator[s] = NoFacilitator
  BY DEF Gone, OpenSessions
<1>3. \A a \in Addresses : Exists(a) => a = "plan"
  BY <1>1, <1>2, ExistsIs DEF Gone, Addresses, Singletons
<1>4. funder["plan"] # "subscriber"
  BY DEF KnownPayers, PayerOf, Addresses, Singletons
<1>5. /\ Owned(funder, "subscriber") \in SUBSET Addresses
      /\ \A a \in Owned(funder, "subscriber") : balance[a] = 0
  BY <1>3, <1>4 DEF Owned, RentInv, Backed
<1>6. SumOver(balance, Owned(funder, "subscriber")) = 0
  BY <1>5, AddressesFinite, SumZero
<1>7. QED
  BY <1>6 DEF Deposits

\* However a subscriber gets rid of its Subscription and its sessions (its own
\* or the merchant's cancel, from grace or pause, sessions orphaned and
\* reached again), it has every lamport of rent back.
THEOREM GoneSafe == RentSpec => []GoneIsWhole
<1>1. RentInv /\ KnownPayers => GoneIsWhole
  <2> SUFFICES ASSUME RentInv, KnownPayers, Gone
               PROVE  lamports["subscriber"] >= Lamports["subscriber"]
    BY DEF GoneIsWhole
  <2>1. "subscriber" \in Wallets
    BY DEF Wallets
  <2>2. Position("subscriber") = lamports["subscriber"]
    BY <2>1, PositionIs, NothingLeft DEF RentInv, LedgerTypes
  <2>3. QED
    BY <2>2 DEF RentInv, RentFlows
<1>2. QED
  BY <1>1, RentInvHolds, KnownPayersHolds, PTL

-----------------------------------------------------------------------------
(***************************************************************************)
(* Progress.  The prover takes ENABLED as it stands, so each theorem       *)
(* assumes of the fair step it needs that it is possible whenever every    *)
(* guard of its instruction is open; that the guards are open, that        *)
(* nothing but the goal ends the wait and that the step reaches the goal   *)
(* is proved.                                                              *)
(***************************************************************************)
\* The steps of the ledger, as the program sees them.
LEMMA RentMoves ==
  ASSUME [RentNext]_rentVars
  PROVE  \/ [Next]_vars
         \/ \E g \in BOOLEAN, p \in BOOLEAN : Cancel("subscriber", g, p)
<1>1. CASE LeaverStep
  BY <1>1
  DEF LeaverStep, LeaverSubscribe, LeaverCancel, LeaverClose, LeaverCleanup,
      PaidSubscribe, RefundedCancel, RefundedCloseSession, RefundedCleanup,
      Next, AccountStep, UseNext, SubscriberStep
<1>2. CASE StayerStep
  BY <1>2
  DEF StayerStep, PaidSubscribe, RefundedCleanup, RefundedTopUp,
      PaidOpenSession, RefundedCloseSession, Next, AccountStep, UseNext,
      SubscriberStep
<1>3. CASE OtherStep
  BY <1>3
  DEF OtherStep, PaidCreatePlan, PaidPause, RefundedResume, PayerStep,
      PaidCharge, RefundedCancel, Next, UseNext, MerchantStep, PartyCancel,
      KeeperStep
<1>4. CASE Leave \/ UNCHANGED rentVars
  BY <1>4 DEF Leave, rentVars
<1>5. QED
  BY <1>1, <1>2, <1>3, <1>4 DEF RentNext

\* The streams of the ledger are those of the escrow, and their terms those of
\* some plan.
KnownPeriod == period = 0 \/ \E t \in Terms : period = t.period
StreamInv == IInv /\ GraceWindow /\ KnownPeriod

LEMMA StreamStep == StreamInv /\ [RentNext]_rentVars => StreamInv'
<1> SUFFICES ASSUME StreamInv, [RentNext]_rentVars
             PROVE  StreamInv'
  OBVIOUS
<1>1. CASE [Next]_vars
  <2>1. IInv' /\ GraceWindow'
    BY <1>1, IInvStep, GraceWindowStep DEF StreamInv, DriftNext
  <2>2. plan \in Terms \cup {NoPlan}
    BY DEF StreamInv, IInv, MoneyInv, TypeOK
  <2>3. KnownPeriod'
    BY <1>1, <2>2
    DEF StreamInv, KnownPeriod, Next, AccountStep, UseNext, SubscriberStep,
        MerchantStep, PartyCancel, KeeperStep, FacilitatorStep, CreatePlan,
        Subscribe, SubscribeAccounts, NewSubscription, Cleanup, Charge, TopUp,
        Pause, Resume, Cancel, OpenSession, SettleUsage, CloseSession, Tick,
        HandBack, TokenStep, Gift, CloseMerchantAta, ReopenMerchantAta, terms,
        vars
  <2>4. QED
    BY <2>1, <2>3 DEF StreamInv
<1>2. ASSUME NEW g \in BOOLEAN, NEW p \in BOOLEAN, Cancel("subscriber", g, p)
      PROVE  StreamInv'
  <2>1. MoneyInv'
    BY <1>2, MoneyCancel DEF StreamInv, IInv
  <2>2. TimeInv'
    BY <1>2
    DEF Cancel, TimeInv, EarnedOnly, GraceIsExhausted, HintNeverLate, Live
  <2>3. GraceWindow' /\ KnownPeriod'
    BY <1>2
    DEF StreamInv, Cancel, GraceWindow, KnownPeriod, graced, terms, Absent
  <2>4. QED
    BY <2>1, <2>2, <2>3 DEF StreamInv, IInv
<1>3. QED
  BY <1>1, <1>2, RentMoves

LEMMA StreamHolds == RentSpec => []StreamInv
<1>1. RentInit => StreamInv
  BY MoneyInit, TimeInit, FreezeInit
  DEF RentInit, Init, StreamInv, IInv, FreezeInv, KnownPeriod
<1>2. QED
  BY <1>1, StreamStep, PTL DEF RentSpec

\* A leaver that has no session, in the three stages of its way out.
Bare == leaving /\ OpenSessions = {}
Cleanable == state \in {"Cancelled", "Exhausted"}

CancelPossible ==
  leaving /\ CancelGuards("subscriber", NeedsGraced, NeedsPaused)
    => ENABLED <<Leaving(LeaverCancel)>>_rentVars
CleanupPossible == Bare /\ Cleanable => ENABLED <<Leaving(LeaverCleanup)>>_rentVars

LEMMA BareStages ==
  ASSUME StreamInv
  PROVE  /\ state \in Live \/ Cleanable \/ state = "None"
         /\ state \in Live /\ ~Shut =>
              CancelGuards("subscriber", NeedsGraced, NeedsPaused)
<1>1. state \in SubscriptionState \cup {"None"}
  BY DEF StreamInv, IInv, MoneyInv, TypeOK
<1>2. QED
  BY <1>1, CancelIsOpen
  DEF StreamInv, SubscriptionState, Live, Cleanable, CancelAuthority

\* Nobody opens a session for a leaver.
LEMMA BareSessions ==
  ASSUME Bare, [RentNext]_rentVars
  PROVE  Bare'
<1> USE DEF Bare, OpenSessions
<1>1. leaving' = TRUE
  BY DEF RentNext, Leave, rentVars
<1>2. CASE LeaverStep
  BY <1>1, <1>2
  DEF LeaverStep, LeaverSubscribe, LeaverCancel, LeaverClose, LeaverCleanup,
      PaidSubscribe, RefundedCancel, RefundedCloseSession, RefundedCleanup,
      Cancel, CloseSession, CloseSessionAccounts, Cleanup, sessions
<1>3. CASE OtherStep
  BY <1>1, <1>3
  DEF OtherStep, PaidCreatePlan, CreatePlan, PaidPause, Pause, RefundedResume,
      Resume, PayerStep, PaidCharge, Charge, RefundedCancel, Cancel,
      FacilitatorStep, SettleUsage, Tick, TokenStep, Gift, CloseMerchantAta,
      ReopenMerchantAta, sessions
<1>4. CASE UNCHANGED rentVars
  BY <1>4 DEF rentVars, vars
<1>5. QED
  BY <1>2, <1>3, <1>4 DEF RentNext, Leave, StayerStep

\* Without a session a leaver only moves on.
LEMMA BareStep ==
  ASSUME Bare, [RentNext]_rentVars
  PROVE  /\ Cleanable => Cleanable' \/ state' = "None"
         /\ state = "None" => state' = "None"
<1> USE DEF Bare, Cleanable
<1>1. CASE LeaverStep
  BY <1>1
  DEF LeaverStep, LeaverSubscribe, LeaverCancel, LeaverClose, LeaverCleanup,
      RefundedCancel, RefundedCloseSession, RefundedCleanup, Cancel,
      CancelGuards, CloseSession, Cleanup, Live
<1>2. CASE OtherStep
  BY <1>2
  DEF OtherStep, PaidCreatePlan, CreatePlan, PaidPause, Pause, RefundedResume,
      Resume, PayerStep, PaidCharge, Charge, RefundedCancel, Cancel,
      CancelGuards, FacilitatorStep, SettleUsage, Tick, TokenStep, Gift,
      CloseMerchantAta, ReopenMerchantAta, Live
<1>3. CASE UNCHANGED rentVars
  BY <1>3 DEF rentVars, vars
<1>4. QED
  BY <1>1, <1>2, <1>3 DEF RentNext, Leave, StayerStep

\* A subscriber that leaves without a session open gets rid of its Subscription
\* and has all its rent back, from every state, or finds cancel shut from
\* outside; when cancel does not stay shut and is not shut again and again, it
\* gets out.  Nothing else holds it up: no pause, grace, charge or settlement of
\* the others.  This is LeaverIsWhole up to the sessions, which it would close
\* one by one.
THEOREM BareLeaverIsWhole ==
  RentSpec /\ []CancelPossible /\ []CleanupPossible =>
    /\ Bare ~> (Shut \/ (Gone /\ lamports["subscriber"] >= Lamports["subscriber"]))
    /\ <>[]~Shut =>
         (Bare ~> (Gone /\ lamports["subscriber"] >= Lamports["subscriber"]))
<1> DEFINE Holding == state \in Live
           Out == state = "None"
           Open == CancelGuards("subscriber", NeedsGraced, NeedsPaused)
           Whole == Gone /\ lamports["subscriber"] >= Lamports["subscriber"]
           CanCancel == ENABLED <<Leaving(LeaverCancel)>>_rentVars
           CanClean == ENABLED <<Leaving(LeaverCleanup)>>_rentVars
<1>1. StreamInv => (Holding \/ Cleanable \/ Out) /\ (Holding /\ ~Shut => Open)
  BY BareStages
<1>2. Bare /\ [RentNext]_rentVars =>
        Bare' /\ (Cleanable => Cleanable' \/ Out') /\ (Out => Out')
  BY BareSessions, BareStep
<1>3. <<Leaving(LeaverCancel)>>_rentVars => Cleanable'
  BY DEF Leaving, LeaverCancel, RefundedCancel, Cancel, Cleanable
<1>4. <<Leaving(LeaverCleanup)>>_rentVars => Out'
  BY DEF Leaving, LeaverCleanup, RefundedCleanup, Cleanup
<1>5. Bare /\ Out /\ GoneIsWhole => Whole
  BY DEF Bare, Gone, GoneIsWhole
<1>6. CancelPossible /\ Bare /\ Open => CanCancel
  BY DEF Bare, CancelPossible
<1>7. CleanupPossible /\ Bare /\ Cleanable => CanClean
  BY DEF CleanupPossible
<1> HIDE DEF Holding, Out, Open, Whole
<1>8. RentSpec /\ []CancelPossible =>
        (Bare ~> (Shut \/ (Bare /\ (Cleanable \/ Out))))
  BY <1>1, <1>2, <1>3, <1>6, StreamHolds, PTL DEF RentSpec
<1>9. RentSpec /\ []CleanupPossible => ((Bare /\ Cleanable) ~> (Bare /\ Out))
  BY <1>2, <1>4, <1>7, PTL DEF RentSpec
<1>10. RentSpec /\ []CancelPossible /\ []CleanupPossible =>
         (Bare ~> (Shut \/ Whole))
  BY <1>5, <1>8, <1>9, GoneSafe, PTL
<1>11. RentSpec /\ []CancelPossible /\ []CleanupPossible =>
         (<>[]~Shut => (Bare ~> Whole))
  BY <1>2, <1>10, PTL DEF RentSpec
<1>12. QED
  BY <1>10, <1>11 DEF Whole

\* Something is owed that the keeper can and, once the hint is due, will pay.
Owed ==
  /\ state = "Active" /\ ClaimableAt(now) > 0 /\ nextChargeAt <= MaxTime
  /\ lamports["keeper"] >= Rent["graced"]
Settled == state # "Active" \/ ClaimableAt(now) = 0 \/ ~merchantAtaOpen

ChargePossible ==
  (/\ nextChargeAt <= now /\ ChargeGuards(ChargeTotal = deposited)
   /\ lamports["keeper"] >= Rent["graced"])
    => ENABLED <<DueCharge>>_rentVars

\* One more period and one grace fit the clock's type (i64 seconds).
Headroom ==
  /\ FitsI64(MaxTime + GraceDuration)
  /\ \A t \in Terms : FitsI64(MaxTime + t.period)

\* A charge leaves nothing to claim.
LEMMA ChargeSettles ==
  ASSUME StreamInv, NEW attach \in BOOLEAN, Charge(attach)
  PROVE  Settled'
<1>1. /\ state = "Active" /\ now >= streamStart
      /\ withdrawn' = withdrawn + ClaimableAt(now)
      /\ UNCHANGED <<now, price, period, deposited, streamStart>>
  BY DEF Charge, PayMerchant, terms
<1>2. MoneyInv /\ state \in Live /\ now \in Int /\ withdrawn \in Nat
  BY <1>1, LiveNumbers DEF StreamInv, IInv, Live
<1>3. UnlockedAt(now) \in Nat /\ ClaimableAt(now) = UnlockedAt(now) - withdrawn
  BY <1>1, <1>2, ClaimBounds
<1>4. withdrawn' = UnlockedAt(now)
  BY <1>1, <1>2, <1>3
<1>5. UnlockedAt(now)' = UnlockedAt(now)
  BY <1>1 DEF UnlockedAt
<1>6. ClaimableAt(now)' = 0
  BY <1>3, <1>4, <1>5 DEF ClaimableAt
<1>7. QED
  BY <1>6 DEF Settled

\* No other step on an Active stream touches the hint, or the keeper's purse.
LEMMA OthersLeaveHint ==
  ASSUME LedgerTypes, state = "Active", state' = "Active", [RentNext]_rentVars,
         ~ \E attach \in BOOLEAN : Charge(attach)
  PROVE  nextChargeAt' = nextChargeAt /\ lamports'["keeper"] = lamports["keeper"]
<1>1. \A U : \A w \in {"subscriber", "merchant"} :
        Fund(w, U) \/ Release(U, w) => lamports'["keeper"] = lamports["keeper"]
  BY DEF Fund, Release, LedgerTypes, Wallets
<1>2. ~PaidPause /\ ~RefundedResume /\ ~RefundedCleanup
      /\ \A n \in Periods : ~PaidSubscribe(n)
  BY DEF PaidPause, Pause, RefundedResume, Resume, RefundedCleanup, Cleanup,
         PaidSubscribe, Subscribe, SubscribeAccounts
<1>3. \A signer, g, p : ~RefundedCancel(signer, g, p)
  BY DEF RefundedCancel, Cancel
<1>4. CASE LeaverStep
  BY <1>1, <1>2, <1>3, <1>4
  DEF LeaverStep, LeaverSubscribe, LeaverCancel, LeaverClose, LeaverCleanup,
      RefundedCloseSession, CloseSession, hint
<1>5. CASE StayerStep
  BY <1>1, <1>2, <1>5
  DEF StayerStep, RefundedTopUp, TopUp, PaidOpenSession, OpenSession,
      RefundedCloseSession, CloseSession, hint
<1>6. CASE OtherStep
  BY <1>1, <1>2, <1>3, <1>6
  DEF OtherStep, PaidCreatePlan, CreatePlan, PayerStep, PaidCharge,
      FacilitatorStep, SettleUsage, Tick, TokenStep, Gift, CloseMerchantAta,
      ReopenMerchantAta, hint, lvars
<1>7. CASE Leave \/ UNCHANGED rentVars
  BY <1>7 DEF Leave, rentVars, vars, lvars
<1>8. QED
  BY <1>4, <1>5, <1>6, <1>7 DEF RentNext

\* What is claimable on an Active stream is a natural number.
LEMMA NextClaim ==
  ASSUME StreamInv', state' = "Active"
  PROVE  ClaimableAt(now)' \in Nat
<1>1. /\ price' \in Nat /\ period' \in Nat \ {0} /\ deposited' \in Nat
      /\ withdrawn' \in Nat /\ now' \in Nat /\ streamStart' \in Nat
  BY EscrowAssumption
  DEF StreamInv, IInv, MoneyInv, TypeOK, PositiveTerms, Live, Amount, Timestamp
<1>2. Metered' = now' - streamStart'
  BY DEF Metered, ServiceEnd
<1>3. withdrawn' <= Unlocked(now' - streamStart', price', period', deposited')
  BY <1>2 DEF StreamInv, IInv, TimeInv, EarnedOnly, Live
<1>4. Unlocked(now' - streamStart', price', period', deposited') \in Nat
  <2>1. streamStart' <= now'
    BY DEF StreamInv, IInv, TimeInv, EarnedOnly, Live, ServiceEnd
  <2>2. now' - streamStart' \in Nat
    <3>1. now' \in Nat /\ streamStart' \in Nat
      BY <1>1
    <3>2. \A m \in Nat, n \in Nat : m <= n => n - m \in Nat
      OBVIOUS
    <3>3. QED
      BY <2>1, <3>1, <3>2
  <2>3. QED
    BY <1>1, <2>2, UnlockedBounds
<1>5. ClaimableAt(now)' = Unlocked(now' - streamStart', price', period', deposited')
                            - withdrawn'
  BY DEF ClaimableAt, UnlockedAt
<1>6. QED
  BY <1>1, <1>3, <1>4, <1>5

\* A debt stays until it is settled.
LEMMA OwedStays ==
  ASSUME StreamInv, StreamInv', LedgerTypes, Owed, [RentNext]_rentVars
  PROVE  Owed' \/ Settled'
<1>1. CASE \E attach \in BOOLEAN : Charge(attach)
  BY <1>1, ChargeSettles
<1>2. CASE state' # "Active"
  BY <1>2 DEF Settled
<1>3. CASE state' = "Active" /\ ~ \E attach \in BOOLEAN : Charge(attach)
  <2>1. nextChargeAt' = nextChargeAt /\ lamports'["keeper"] = lamports["keeper"]
    BY <1>3, OthersLeaveHint DEF Owed
  <2>2. ClaimableAt(now)' \in Nat
    BY <1>3, NextClaim
  <2>3. ClaimableAt(now)' = 0 \/ ClaimableAt(now)' > 0
    BY <2>2
  <2>4. QED
    BY <1>3, <2>1, <2>3 DEF Owed, Settled
<1>4. QED
  BY <1>1, <1>2, <1>3

\* The clock that has come to its bound stays there.
LEMMA ClockStays ==
  ASSUME StreamInv, StreamInv', now = MaxTime, [RentNext]_rentVars
  PROVE  now' = MaxTime
<1>1. ~Tick
  BY EscrowAssumption DEF Tick
<1>2. CASE [Next]_vars
  BY <1>1, <1>2
  DEF Next, AccountStep, UseNext, SubscriberStep, MerchantStep, PartyCancel,
      KeeperStep, FacilitatorStep, CreatePlan, Subscribe, NewSubscription,
      Cleanup, Charge, TopUp, Pause, Resume, Cancel, OpenSession, SettleUsage,
      CloseSession, HandBack, TokenStep, Gift, CloseMerchantAta,
      ReopenMerchantAta, vars
<1>3. QED
  BY <1>2, RentMoves DEF Cancel

\* Then every guard of the keeper's charge is open.
LEMMA OwedIsOpen ==
  ASSUME Headroom, StreamInv, Owed, merchantAtaOpen, now = MaxTime
  PROVE  nextChargeAt <= now /\ ChargeGuards(ChargeTotal = deposited)
<1>1. /\ MoneyInv /\ state \in Live /\ state = "Active" /\ ClaimableAt(now) > 0
      /\ now = ServiceEnd /\ streamStart <= ServiceEnd /\ now \in Nat
      /\ streamStart \in Nat
  BY LiveNumbers DEF StreamInv, IInv, TimeInv, EarnedOnly, Owed, Live
<1>2. FitsI64(now + period) /\ FitsI64(now + GraceDuration)
  <2>1. CASE period = 0
    BY <1>1, <2>1, LiveNumbers
  <2>2. CASE \E t \in Terms : period = t.period
    BY <2>2 DEF Headroom
  <2>3. QED
    BY <2>1, <2>2 DEF StreamInv, KnownPeriod, Headroom
<1>3. QED
  BY <1>1, <1>2, ChargeIsOpen DEF Owed

\* What an Active stream owes is paid, or the stream stops being Active or the
\* merchant closes its own account, by a keeper that charges when the hint is
\* due and can afford the rent of a grace satellite, once the clock reaches the
\* hint's second: neither the other parties nor the caller's choice of
\* satellites can hold the payment up.
THEOREM EarnedGetsPaid ==
  ASSUME Headroom
  PROVE  RentSpec /\ []ChargePossible /\ <>(now = MaxTime) => EarnedIsPaid
<1> DEFINE Late == now = MaxTime
           Due == nextChargeAt <= now /\ ChargeGuards(ChargeTotal = deposited)
           CanCharge == ENABLED <<DueCharge>>_rentVars
<1>1. StreamInv /\ Owed /\ Late => Due \/ Settled
  BY OwedIsOpen DEF Settled
<1>2. StreamInv /\ StreamInv' /\ LedgerTypes /\ Owed /\ [RentNext]_rentVars
        => Owed' \/ Settled'
  BY OwedStays
<1>3. StreamInv /\ StreamInv' /\ Late /\ [RentNext]_rentVars => Late'
  BY ClockStays
<1>4. StreamInv /\ <<DueCharge>>_rentVars => Settled'
  BY ChargeSettles DEF DueCharge, PaidCharge
<1>5. ChargePossible /\ Due /\ Owed => CanCharge
  BY DEF ChargePossible, Owed
<1>6. RentInv => LedgerTypes
  BY DEF RentInv
<1> HIDE DEF Late, Due
<1>7. RentSpec /\ []ChargePossible /\ <>Late => (Owed ~> Settled)
  BY <1>1, <1>2, <1>3, <1>4, <1>5, <1>6, StreamHolds, RentInvHolds, PTL
  DEF RentSpec
<1>8. QED
  BY <1>7 DEF Late, Owed, Settled, EarnedIsPaid

=============================================================================
