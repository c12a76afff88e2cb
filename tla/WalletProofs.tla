----------------------------- MODULE WalletProofs -----------------------------
(* Proofs about Wallet: what the adds that came one at a time can rely on.        *)
EXTENDS Wallet, TLAPS

USE DEF Go, Fail, Truncate

(* As long as no add began while another was under way and no write was cut short: *)
(* one add at most is between its load and its end, and while it writes, the file   *)
(* is empty.                                                                     *)
Alone == \A a, b \in Adder : Busy(a) /\ Busy(b) => a = b

OneAtATime ==
    ~overlapped /\ ~torn =>
      /\ Alone
      /\ file # "garbled"
      /\ \A a \in Adder : pc[a] = "opened" => entries = Empty

IInv == TypeOK /\ OneAtATime

LEMMA AliasType == ASSUME NEW a \in Adder PROVE WalletAlias(a) \in Alias
  BY WalletAssumption DEF WalletAlias

LEMMA EmptyType == Empty \in Wallets /\ DOMAIN Empty = {}
  <1>1. {} \in SUBSET Alias /\ Empty \in [{} -> Adder] BY DEF Empty
  <1> QED BY <1>1 DEF Wallets, Empty

LEMMA InsertType == ASSUME NEW w \in Wallets, NEW a \in Adder
                    PROVE  Insert(w, a) \in Wallets
  <1>1. PICK S \in SUBSET Alias : w \in [S -> Adder] BY DEF Wallets
  <1>2. S \union {WalletAlias(a)} \in SUBSET Alias BY AliasType
  <1>3. Insert(w, a) \in [S \union {WalletAlias(a)} -> Adder] BY <1>1 DEF Insert
  <1> QED BY <1>2, <1>3 DEF Wallets

LEMMA UpToType == ASSUME NEW w \in Wallets, NEW k PROVE UpTo(w, k) \in Wallets
  <1>1. PICK S \in SUBSET Alias : w \in [S -> Adder] BY DEF Wallets
  <1>2. {x \in S : x <= k} \in SUBSET Alias OBVIOUS
  <1>3. UpTo(w, k) \in [{x \in S : x <= k} -> Adder] BY <1>1 DEF UpTo, Restrict
  <1> QED BY <1>2, <1>3 DEF Wallets

(* A text written over another: all of its own entries, and of the others no new one. *)
LEMMA OverType ==
    ASSUME entries \in Wallets, NEW w \in Wallets, NEW v \in WrittenOver(w)
    PROVE  /\ v \in Wallets
           /\ \A x \in DOMAIN w : x \in DOMAIN v /\ v[x] = w[x]
           /\ \A x \in DOMAIN v \ DOMAIN w : x \in DOMAIN entries /\ v[x] = entries[x]
<1>1. PICK S \in SUBSET Alias : w \in [S -> Adder]
  BY DEF Wallets
<1>2. PICK T \in SUBSET Alias : entries \in [T -> Adder]
  BY DEF Wallets
<1>3. CASE v = w
  BY <1>3
<1>4. CASE v # w
  <2>1. PICK k \in Alias : v = [x \in S \union Left(k) |-> IF x \in S THEN w[x] ELSE entries[x]]
    BY <1>1, <1>4 DEF WrittenOver
  <2>2. Left(k) \subseteq T
    BY <1>2 DEF Left
  <2>3. v \in [S \union Left(k) -> Adder] /\ S \union Left(k) \in SUBSET Alias
    BY <1>1, <1>2, <2>1, <2>2
  <2> QED BY <1>1, <1>2, <2>1, <2>2, <2>3 DEF Wallets
<1> QED BY <1>3, <1>4

LEMMA OverEmpty == ASSUME entries = Empty, NEW w \in Wallets, NEW v \in WrittenOver(w)
                   PROVE  v = w
<1>1. PICK S \in SUBSET Alias : w \in [S -> Adder]
  BY DEF Wallets
<1>2. \A k : Left(k) = {}
  BY EmptyType DEF Left
<1> QED BY <1>1, <1>2 DEF WrittenOver

LEMMA InitIInv == Init => IInv
  BY EmptyType DEF Init, IInv, TypeOK, OneAtATime, Alone, Busy

LEMMA AddKeepsIInv == ASSUME IInv, NEW a \in Adder, Add(a)
                      PROVE  IInv'
<1> USE DEF IInv, TypeOK
<1>1. CASE Load(a)
  <2>1. Insert(entries, a) \in Wallets BY InsertType
  <2>2. TypeOK' BY <1>1, <2>1 DEF Load
  <2>3. ASSUME ~overlapped', NEW b \in Adder, Busy(b)' PROVE b = a
    BY <1>1, <2>3 DEF Load, Busy
  <2>4. OneAtATime'
    BY <1>1, <2>3 DEF Load, OneAtATime, Alone, Busy
  <2> QED BY <2>2, <2>4
<1>2. CASE LoadFails(a)
  BY <1>2, SMT DEF LoadFails, OneAtATime, Alone, Busy
<1>3. CASE Open(a)
  <2>1. TypeOK' BY <1>3, EmptyType DEF Open
  <2>2. OneAtATime' BY <1>3, SMT DEF Open, OneAtATime, Alone, Busy
  <2> QED BY <2>1, <2>2
<1>4. CASE OpenFails(a)
  BY <1>4, SMT DEF OpenFails, OneAtATime, Alone, Busy
<1>5. CASE Write(a)
  <2>1. TypeOK' BY <1>5, EmptyType, OverType DEF Write
  <2>2. OneAtATime' BY <1>5, SMT DEF Write, OneAtATime, Alone, Busy
  <2> QED BY <2>1, <2>2
<1>6. CASE WriteStops(a)
  <2>1. \A k \in Alias : \A v \in WrittenOver(UpTo(wallet[a], k)) : v \in Wallets
    BY UpToType, OverType
  <2>2. TypeOK' BY <1>6, <2>1, EmptyType DEF WriteStops
  <2>3. OneAtATime' BY <1>6 DEF WriteStops, OneAtATime
  <2> QED BY <2>2, <2>3
<1> QED BY <1>1, <1>2, <1>3, <1>4, <1>5, <1>6 DEF Add

LEMMA NextKeepsIInv == IInv /\ [Next]_vars => IInv'
  <1>1. CASE UNCHANGED vars
    BY <1>1 DEF vars, IInv, TypeOK, OneAtATime, Alone, Busy
  <1> QED BY <1>1, AddKeepsIInv DEF Next

-----------------------------------------------------------------------------
(* A wallet in which whoever was told "stored" has its alias, and everybody in it   *)
(* was told so, but for those in "own".                                           *)
Sound(w, own) ==
    /\ \A a \in Adder : pc[a] = "stored" => WalletAlias(a) \in DOMAIN w
    /\ \A x \in DOMAIN w : /\ w[x] \in Adder /\ WalletAlias(w[x]) = x
                           /\ pc[w[x]] = "stored" \/ w[x] \in own

StoredInv ==
    ~overlapped /\ ~torn =>
      /\ Opened = {} => Sound(entries, {})
      /\ \A a \in Adder : Busy(a) =>
            Sound(wallet[a], {a}) /\ WalletAlias(a) \in DOMAIN wallet[a]

LEMMA AddKeepsStoredInv == ASSUME IInv, StoredInv, NEW a \in Adder, Add(a)
                           PROVE  StoredInv'
<1> SUFFICES ASSUME ~overlapped', ~torn'
             PROVE  /\ (Opened = {} => Sound(entries, {}))'
                    /\ \A b \in Adder : Busy(b)' =>
                          Sound(wallet[b], {b})' /\ WalletAlias(b) \in DOMAIN wallet'[b]
  BY DEF StoredInv, WalletAlias
<1> USE DEF IInv, TypeOK
<1>1. ~overlapped /\ ~torn
  BY DEF Add, Load, LoadFails, Open, OpenFails, Write, WriteStops
<1>2. Alone /\ file # "garbled" /\ \A b \in Adder : pc[b] = "opened" => entries = Empty
  BY <1>1 DEF OneAtATime
<1>3. /\ Opened = {} => Sound(entries, {})
      /\ \A b \in Adder : Busy(b) =>
            Sound(wallet[b], {b}) /\ WalletAlias(b) \in DOMAIN wallet[b]
  BY <1>1 DEF StoredInv
<1>4. CASE Load(a)
  <2>1. \A b \in Adder : ~Busy(b)
    BY <1>4 DEF Load
  <2>2. Sound(entries, {})
    BY <1>3, <2>1 DEF Opened, Busy
  <2>3. \A b \in Adder : pc'[b] = "stored" <=> pc[b] = "stored"
    BY <1>4 DEF Load
  <2>4. Sound(entries, {})'
    BY <1>4, <2>2, <2>3 DEF Load, Sound, WalletAlias
  <2>5. wallet'[a] = Insert(entries, a)
    BY <1>4 DEF Load
  <2>6. Sound(wallet[a], {a})' /\ WalletAlias(a) \in DOMAIN wallet'[a]
    BY <2>2, <2>3, <2>5 DEF Sound, Insert, WalletAlias
  <2>7. \A b \in Adder : Busy(b)' => b = a
    BY <1>4, <2>1 DEF Load, Busy
  <2> QED BY <2>4, <2>6, <2>7
<1>5. CASE Open(a)
  <2>1. a \in Opened'
    BY <1>5 DEF Open, Opened
  <2>2. \A b \in Adder : (pc'[b] = "stored" <=> pc[b] = "stored") /\ (Busy(b)' <=> Busy(b))
    BY <1>5 DEF Open, Busy
  <2>3. wallet' = wallet
    BY <1>5 DEF Open
  <2> QED BY <1>3, <2>1, <2>2, <2>3 DEF Sound, WalletAlias
<1>6. CASE LoadFails(a) \/ OpenFails(a)
  <2>1. UNCHANGED <<entries, wallet>>
    BY <1>6 DEF LoadFails, OpenFails
  <2>2. \A b \in Adder : /\ pc'[b] = "stored" <=> pc[b] = "stored"
                         /\ pc'[b] = "opened" <=> pc[b] = "opened"
                         /\ Busy(b)' => Busy(b)
    BY <1>6 DEF LoadFails, OpenFails, Busy
  <2> QED BY <1>3, <2>1, <2>2 DEF Sound, Opened, WalletAlias
<1>7. CASE Write(a)
  <2>1. Busy(a) /\ entries = Empty
    BY <1>2, <1>7 DEF Write, Busy
  <2>2. entries' = wallet[a]
    BY <1>2, <1>7, <2>1, OverEmpty DEF Write
  <2>3. \A b \in Adder : pc'[b] = "stored" <=> pc[b] = "stored" \/ b = a
    BY <1>7 DEF Write
  <2>4. Sound(entries, {})'
    BY <1>3, <2>1, <2>2, <2>3 DEF Sound, WalletAlias
  <2>5. \A b \in Adder : ~Busy(b)'
    BY <1>2, <1>7, <2>1 DEF Write, Alone, Busy
  <2> QED BY <2>4, <2>5
<1>8. CASE WriteStops(a)
  BY <1>8 DEF WriteStops
<1> QED BY <1>4, <1>5, <1>6, <1>7, <1>8 DEF Add

LEMMA NextKeepsStoredInv == IInv /\ StoredInv /\ [Next]_vars => StoredInv'
  <1>1. CASE UNCHANGED vars
    BY <1>1 DEF vars, StoredInv, Opened, Sound, Busy, WalletAlias
  <1> QED BY <1>1, AddKeepsStoredInv DEF Next

-----------------------------------------------------------------------------
(* Whoever is about to write has put its own entry into its copy. *)
OwnEntry == \A a \in Adder : Busy(a) => /\ WalletAlias(a) \in DOMAIN wallet[a]
                                       /\ wallet[a][WalletAlias(a)] = a

LastInv == OwnEntry /\ LastWriteCounts

LEMMA AddKeepsLastInv == ASSUME IInv, LastInv, NEW a \in Adder, Add(a)
                         PROVE  LastInv'
<1> USE DEF IInv, TypeOK
<1>1. CASE Load(a)
  <2>1. wallet' = [wallet EXCEPT ![a] = Insert(entries, a)]
    BY <1>1 DEF Load
  <2>2. OwnEntry'
    BY <1>1, <2>1 DEF Load, LastInv, OwnEntry, Busy, Insert, WalletAlias
  <2>3. LastWriteCounts'
    BY <1>1 DEF Load, LastInv, LastWriteCounts, Opened, Has, WalletAlias
  <2> QED BY <2>2, <2>3 DEF LastInv
<1>2. CASE LoadFails(a) \/ OpenFails(a)
  BY <1>2 DEF LoadFails, OpenFails, LastInv, OwnEntry, Busy, LastWriteCounts, Opened, Has, WalletAlias
<1>3. CASE Open(a)
  <2>1. OwnEntry' BY <1>3 DEF Open, LastInv, OwnEntry, Busy, WalletAlias
  <2>2. a \in Opened' BY <1>3 DEF Open, Opened
  <2> QED BY <2>1, <2>2 DEF LastInv, LastWriteCounts
<1>4. CASE Write(a)
  <2>1. OwnEntry' BY <1>4 DEF Write, LastInv, OwnEntry, Busy, WalletAlias
  <2>2. ASSUME file' # "garbled" PROVE pc'[a] = "stored" /\ Has(a)'
    BY <1>4, <2>2, OverType DEF Write, LastInv, OwnEntry, Busy, Has, WalletAlias
  <2> QED BY <2>1, <2>2 DEF LastInv, LastWriteCounts
<1>5. CASE WriteStops(a)
  BY <1>5 DEF WriteStops, LastInv, OwnEntry, Busy, LastWriteCounts, WalletAlias
<1> QED BY <1>1, <1>2, <1>3, <1>4, <1>5 DEF Add

LEMMA NextKeepsLastInv == IInv /\ LastInv /\ [Next]_vars => LastInv'
  <1>1. CASE UNCHANGED vars
    BY <1>1 DEF vars, LastInv, OwnEntry, Busy, LastWriteCounts, Opened, Has, WalletAlias
  <1> QED BY <1>1, AddKeepsLastInv DEF Next

-----------------------------------------------------------------------------
(* Every value has its type at every moment. *)
THEOREM TypeCorrect == Spec => []TypeOK
  <1>1. IInv => TypeOK BY DEF IInv
  <1> QED BY InitIInv, NextKeepsIInv, <1>1, PTL DEF Spec

(* Adds one at a time that are not cut short never leave a file that the next one    *)
(* fails to read, for any number of pairings and any labels.                       *)
THEOREM ReadableAlone == Spec => []ReadableUnlessDisturbed
  <1>1. IInv => ReadableUnlessDisturbed BY DEF IInv, OneAtATime, ReadableUnlessDisturbed
  <1> QED BY InitIInv, NextKeepsIInv, <1>1, PTL DEF Spec

(* An owner who was told "stored" finds the entry, or the one that took its alias,   *)
(* whatever was paired before and after, as long as adds came one at a time and      *)
(* none was cut short.                                                             *)
THEOREM StoredAlone == Spec => []StoredStays
  <1>1. Init => StoredInv
    BY EmptyType DEF Init, StoredInv, Sound, Busy
  <1>2. StoredInv => StoredStays
    <2>1. SUFFICES ASSUME StoredInv, ~overlapped, ~torn, Opened = {}, NEW a \in Adder, pc[a] = "stored"
                   PROVE  \E b \in Adder : pc[b] = "stored" /\ WalletAlias(b) = WalletAlias(a) /\ Has(b)
      BY DEF StoredStays
    <2>2. Sound(entries, {})
      BY <2>1 DEF StoredInv
    <2>3. /\ WalletAlias(a) \in DOMAIN entries
          /\ entries[WalletAlias(a)] \in Adder
      BY <2>1, <2>2 DEF Sound
    <2> QED BY <2>1, <2>2, <2>3 DEF Sound, Has
  <1> QED BY InitIInv, NextKeepsIInv, NextKeepsStoredInv, <1>1, <1>2, PTL DEF Spec

(* However many adds overlap, once nobody writes a readable file holds an entry of   *)
(* one that was told "stored": they lose each other's entries, never all.           *)
THEOREM LastOneStays == Spec => []LastWriteCounts
  <1>1. Init => LastInv
    BY DEF Init, LastInv, OwnEntry, Busy, LastWriteCounts
  <1>2. LastInv => LastWriteCounts BY DEF LastInv
  <1> QED BY InitIInv, NextKeepsIInv, NextKeepsLastInv, <1>1, <1>2, PTL DEF Spec
=============================================================================
