---------------------------- MODULE AccountProofs ----------------------------
(***************************************************************************)
(* Proofs about AccountCalls, for every schedule, every plan of epochs and *)
(* every number of accounts: its types, that rewards are conserved, that   *)
(* no call makes gas, and what storage and a user name cost.               *)
(***************************************************************************)
EXTENDS AccountCalls, SumTheorems

-----------------------------------------------------------------------------
(* Words and prices *)

(* What AsWord gives, and that a word is a number.                         *)
LEMMA WordProperties ==
  /\ Word \subseteq Nat
  /\ \A n \in Int :
       /\ AsWord(n) \in Word
       /\ n \in Word => AsWord(n) = n
       /\ n >= 0 => AsWord(n) <= n
       /\ n < 2 ^ WordSize => AsWord(n) >= n
<1> DEFINE M == 2 ^ WordSize
<1>1. M \in Nat \ {0}
  BY AccountAssumption
<1> HIDE DEF M
<1>2. \A n \in Int : n % M \in 0..(M - 1)
  BY <1>1
<1>3. ASSUME NEW n \in Int, n \in 0..(M - 1) PROVE n % M = n
  BY <1>1, <1>3
<1>4. ASSUME NEW n \in Int, n >= 0 PROVE n % M <= n
  BY <1>1, <1>4
<1>5. ASSUME NEW n \in Int, n < M PROVE n % M >= n
  BY <1>1, <1>5
<1> QED
  BY <1>1, <1>2, <1>3, <1>4, <1>5 DEF Word, AsWord, M

LEMMA AsWordType ==
  ASSUME NEW n \in Int
  PROVE  AsWord(n) \in Word /\ AsWord(n) \in Int
<1>1. AsWord(n) \in Word /\ Word \subseteq Nat
  BY WordProperties
<1>2. AsWord(n) \in Nat
  BY <1>1
<1> QED
  BY <1>1, <1>2

(* A number has one quotient and one remainder.                           *)
LEMMA ModUnique ==
  ASSUME NEW M \in Nat \ {0}, NEW q \in Int, NEW t \in 0..(M - 1)
  PROVE  (M * q + t) % M = t
<1> DEFINE n == M * q + t
           k == n \div M
           r == n % M
<1>1. n \in Int /\ M * q \in Int
  OBVIOUS
<1>2. k \in Int /\ r \in 0..(M - 1) /\ n = M * k + r
  <2> HIDE DEF n
  <2> QED
    BY <1>1
<1>3. n = M * q + t
  OBVIOUS
<1> HIDE DEF n, k, r
<1>4. \A a, b \in Int : a >= b + 1 => M * a >= M * b + M
  <2> SUFFICES ASSUME NEW a \in Int, NEW b \in Int, a >= b + 1 PROVE M * a >= M * b + M
    OBVIOUS
  <2>1. PICK d \in Nat : a = b + 1 + d
    <3>1. a - b - 1 \in Nat /\ a = b + 1 + (a - b - 1)
      OBVIOUS
    <3> QED
      BY <3>1
  <2>2. M * a = M * b + M + M * d
    BY <2>1
  <2>3. M * d \in Nat /\ M * b \in Int
    OBVIOUS
  <2> QED
    BY <2>2, <2>3
<1>5. q = k
  <2>1. ~(q >= k + 1)
    <3> SUFFICES ASSUME q >= k + 1 PROVE FALSE
      OBVIOUS
    <3>1. M * q >= M * k + M
      BY <1>2, <1>4
    <3>2. M * k \in Int
      BY <1>2
    <3> QED
      BY <1>1, <1>2, <1>3, <3>1, <3>2
  <2>2. ~(k >= q + 1)
    <3> SUFFICES ASSUME k >= q + 1 PROVE FALSE
      OBVIOUS
    <3>1. M * k >= M * q + M
      BY <1>2, <1>4
    <3>2. M * k \in Int
      BY <1>2
    <3> QED
      BY <1>1, <1>2, <1>3, <3>1, <3>2
  <2> QED
    BY <1>2, <2>1, <2>2
<1>6. r = t
  BY <1>1, <1>2, <1>3, <1>5
<1> QED
  BY <1>6 DEF r, n

(* Multiples of the modulus do not count.                                  *)
LEMMA ModAdds ==
  ASSUME NEW M \in Nat \ {0}, NEW q \in Int, NEW c \in Int
  PROVE  (c + M * q) % M = c % M
<1> DEFINE k == c \div M
           t == c % M
<1>1. k \in Int /\ t \in 0..(M - 1) /\ c = M * k + t
  OBVIOUS
<1> HIDE DEF k, t
<1>2. c + M * q = M * (k + q) + t
  BY <1>1
<1>3. (M * (k + q) + t) % M = t
  BY <1>1, ModUnique
<1> QED
  BY <1>2, <1>3 DEF t

(* What a word wraps away, a difference of words takes back.               *)
LEMMA WordDifference ==
  ASSUME NEW a \in Int, NEW b \in Int, NEW g \in Int
  PROVE  AsWord(g - (AsWord(a + b) - a)) = AsWord(g - b)
<1> DEFINE M == 2 ^ WordSize
           k == (a + b) \div M
           r == (a + b) % M
<1>1. M \in Nat \ {0}
  BY AccountAssumption
<1> HIDE DEF M
<1>2. k \in Int /\ r \in 0..(M - 1) /\ a + b = M * k + r
  BY <1>1
<1> HIDE DEF k, r
<1>3. g - (r - a) = (g - b) + M * k
  BY <1>1, <1>2
<1>4. (g - (r - a)) % M = (g - b) % M
  <2>1. g - b \in Int
    OBVIOUS
  <2>2. ((g - b) + M * k) % M = (g - b) % M
    BY <1>1, <1>2, <2>1, ModAdds
  <2> QED
    BY <1>3, <2>2
<1> QED
  BY <1>4 DEF AsWord, r, M

(* The same for what is left of a word after a cost that may wrap it.      *)
LEMMA WordCost ==
  ASSUME NEW g \in Int, NEW c \in Int
  PROVE  AsWord(g - AsWord(g - c)) = AsWord(c)
<1> DEFINE M == 2 ^ WordSize
           k == (g - c) \div M
           r == (g - c) % M
<1>1. M \in Nat \ {0}
  BY AccountAssumption
<1> HIDE DEF M
<1>2. k \in Int /\ r \in 0..(M - 1) /\ g - c = M * k + r
  BY <1>1
<1> HIDE DEF k, r
<1>3. g - r = c + M * k
  BY <1>1, <1>2
<1>4. (c + M * k) % M = c % M
  BY <1>1, <1>2, ModAdds
<1> QED
  BY <1>3, <1>4 DEF AsWord, r, M

(* A function has a schedule, and the schedule prices all there is.        *)
LEMMA PriceType ==
  ASSUME schedule \in [Functions -> DOMAIN Schedules],
         NEW f \in Functions, NEW item \in Priced
  PROVE  /\ Price(f, item) \in Nat
         /\ Price(f, item) = Schedules[schedule[f]][item]
         /\ schedule[f] \in DOMAIN Schedules
<1>1. schedule[f] \in DOMAIN Schedules
  OBVIOUS
<1>2. Schedules[schedule[f]] \in [Priced -> Nat]
  BY <1>1, AccountAssumption
<1> QED
  BY <1>1, <1>2 DEF Price

LEMMA CostType ==
  ASSUME schedule \in [Functions -> DOMAIN Schedules], NEW f \in Functions
  PROVE  /\ Cost(f) \in Nat
         /\ Cost(f) = Schedules[schedule[f]][f]
         /\ schedule[f] \in DOMAIN Schedules
BY PriceType DEF Cost, Priced

-----------------------------------------------------------------------------
(* SaveKeyValue: what the pairs of a call leave in the storage. *)

Work == [ok: BOOLEAN, used: Nat, store: [Keys -> Values \cup {NoValue}]]

LEMMA SavePairType ==
  ASSUME TypeOK, NEW w \in Work, NEW pair \in Pair, NEW p \in Nat
  PROVE  SavePair(w, pair, p) \in Work
<1> DEFINE f == "SaveKeyValue"
           old == w.store[pair.key]
           growth == LengthOf[pair.value] - LengthOf[old]
           kept == AsWord(w.used + (1 + LengthOf[pair.value]) * Price(f, "PersistPerByte"))
           used == AsWord(kept + Price(f, "StorePerByte") * (IF growth > 0 THEN growth ELSE 0))
           may == pair.key \notin Protected
           storing == [ok |-> w.ok /\ may /\ p >= used, used |-> used,
                       store |-> [w.store EXCEPT ![pair.key] = pair.value]]
           same == [w EXCEPT !.ok = @ /\ may, !.used = kept]
<1>1. /\ pair.key \in Keys /\ pair.value \in Values \cup {NoValue}
      /\ w.store \in [Keys -> Values \cup {NoValue}] /\ w.used \in Nat
      /\ w = [ok |-> w.ok, used |-> w.used, store |-> w.store] /\ w.ok \in BOOLEAN
  BY DEF Work, Pair
<1>2. old \in Values \cup {NoValue}
  BY <1>1
<1>3. LengthOf[pair.value] \in Nat /\ LengthOf[old] \in Nat
  BY <1>1, <1>2, AccountAssumption
<1>4. Price(f, "PersistPerByte") \in Nat /\ Price(f, "StorePerByte") \in Nat
  <2>1. schedule \in [Functions -> DOMAIN Schedules] /\ f \in Functions
    BY DEF TypeOK, Functions
  <2> QED
    BY <2>1, PriceType DEF Priced
<1>5. kept \in Nat
  <2>1. w.used + (1 + LengthOf[pair.value]) * Price(f, "PersistPerByte") \in Int
    BY <1>1, <1>3, <1>4
  <2> QED
    BY <2>1, WordProperties
<1> HIDE DEF kept
<1>6. used \in Nat
  <2>1. kept + Price(f, "StorePerByte") * (IF growth > 0 THEN growth ELSE 0) \in Int
    BY <1>3, <1>4, <1>5
  <2> QED
    BY <2>1, WordProperties
<1> HIDE DEF used, growth
<1>7. storing \in Work
  <2>1. (w.ok /\ may /\ p >= used) \in BOOLEAN
    OBVIOUS
  <2>2. [w.store EXCEPT ![pair.key] = pair.value] \in [Keys -> Values \cup {NoValue}]
    BY <1>1
  <2> QED
    BY <1>6, <2>1, <2>2 DEF Work
<1>8. same \in Work
  <2>1. (w.ok /\ may) \in BOOLEAN
    OBVIOUS
  <2>2. \A b \in BOOLEAN : [w EXCEPT !.ok = b, !.used = kept] \in Work
    BY <1>5 DEF Work
  <2> QED
    BY <2>1, <2>2, Zenon
<1>9. SavePair(w, pair, p) = IF old = pair.value THEN same ELSE storing
  BY DEF SavePair, kept, used, growth
<1> QED
  BY <1>7, <1>8, <1>9

(* What a call has done before its first pair; then the work before each    *)
(* pair and after the last.                                                *)
Unsaved(a) == [ok |-> TRUE, used |-> Cost("SaveKeyValue"), store |-> store[a]]

LEMMA SavedPath ==
  ASSUME TypeOK, NEW a \in Savers, NEW pairs \in Seq(Pair), NEW p \in Nat
  PROVE  \E path \in [0..Len(pairs) -> Work] :
           /\ path[0] = Unsaved(a) /\ path[Len(pairs)] = Saved(a, pairs, p)
           /\ \A i \in 1..Len(pairs) : path[i] = SavePair(path[i - 1], pairs[i], p)
<1> DEFINE S == DOMAIN pairs
           base == Unsaved(a)
           F == [x \in Work \X S |-> SavePair(x[1], pairs[x[2]], p)]
           Folds(h) == h = [T \in SUBSET S |->
                 IF T = {} THEN base
                 ELSE SavePair(h[T \ {Max(T)}], pairs[Max(T)], p)]
           iter == CHOOSE h : Folds(h)
<1>1. IsFiniteSet(S) /\ S \subseteq Int /\ S = 1..Len(pairs) /\ Len(pairs) \in Nat
  <2>1. S = 1..Len(pairs) /\ Len(pairs) \in Nat
    OBVIOUS
  <2> QED
    BY <2>1, FS_Interval
<1>2. base \in Work
  <2>1. Cost("SaveKeyValue") \in Nat /\ store[a] \in [Keys -> Values \cup {NoValue}]
    BY CostType DEF TypeOK, Functions
  <2> QED
    BY <2>1 DEF Work, Unsaved
<1>3. \A T \in SUBSET S : T # {} => Max(T) \in T
  BY <1>1, FS_Subset, MaxProperties
<1>4. \A w \in Work, i \in S : SavePair(w, pairs[i], p) \in Work
  BY <1>1, SavePairType
<1>5. F \in [Work \X S -> Work]
  BY <1>4
<1> HIDE DEF base, S
<1>6. PICK g \in [SUBSET S -> Work] : IsFoldOver(g, F, base, S)
  <2> HIDE DEF F
  <2> QED
    BY <1>1, <1>2, <1>5, FoldExists
<1>7. \A w \in Work, i \in S : F[<<w, i>>] = SavePair(w, pairs[i], p)
  OBVIOUS
<1> HIDE DEF F
<1>8. Folds(g)
  <2>1. ASSUME NEW T \in SUBSET S, T # {}
        PROVE  F[<<g[T \ {Max(T)}], Max(T)>>]
                 = SavePair(g[T \ {Max(T)}], pairs[Max(T)], p)
    <3>1. Max(T) \in S /\ g[T \ {Max(T)}] \in Work
      BY <1>3, <2>1
    <3> QED
      BY <1>7, <3>1
  <2> QED
    BY <1>6, <2>1 DEF IsFoldOver
<1>9. Folds(iter)
  <2> HIDE DEF Folds
  <2> QED
    BY <1>8
<1>10. Saved(a, pairs, p) = iter[S]
  BY DEF Saved, FoldLeft, MapThenFoldSet, iter, Folds, base, Unsaved, S
<1> HIDE DEF iter
<1>11. FoldsBy(iter, F, base, Work, S)
  <2>1. iter[{}] = base
    BY <1>9
  <2>2. ASSUME NEW T \in SUBSET S, T # {}, iter[T \ {Max(T)}] \in Work
        PROVE  iter[T] = F[<<iter[T \ {Max(T)}], Max(T)>>]
    <3>1. Max(T) \in S
      BY <1>3, <2>2
    <3>2. iter[T] = SavePair(iter[T \ {Max(T)}], pairs[Max(T)], p)
      BY <1>9, <2>2
    <3> QED
      BY <1>7, <2>2, <3>1, <3>2
  <2> HIDE DEF Folds
  <2> QED
    BY <2>1, <2>2 DEF FoldsBy
<1> HIDE DEF Folds
<1>12. PICK path \in [0..Len(pairs) -> Work] :
        IsPath(path, F, base, Len(pairs)) /\ path[Len(pairs)] = iter[1..Len(pairs)]
  <2>1. FoldsTo(iter, F, base, Len(pairs), Work)
    BY <1>1, <1>5, <1>11 DEF FoldsTo
  <2> HIDE DEF iter, F, base
  <2>2. HasPath(F, base, Len(pairs), Work, iter[1..Len(pairs)])
    BY <1>1, <1>2, <2>1, FoldPath
  <2> QED
    BY <2>2 DEF HasPath
<1>13. path[0] = base /\ path[Len(pairs)] = Saved(a, pairs, p)
  BY <1>1, <1>10, <1>12 DEF IsPath
<1>14. ASSUME NEW i \in 1..Len(pairs) PROVE path[i] = SavePair(path[i - 1], pairs[i], p)
  <2>1. path[i] = F[<<path[i - 1], i>>]
    BY <1>12 DEF IsPath
  <2>2. i \in S /\ i - 1 \in 0..Len(pairs)
    BY <1>1
  <2>3. path[i - 1] \in Work
    BY <2>2
  <2> QED
    BY <1>7, <2>1, <2>2, <2>3
<1> QED
  BY <1>13, <1>14 DEF base

LEMMA SavedType ==
  ASSUME TypeOK, NEW a \in Savers, NEW pairs \in Seq(Pair), NEW p \in Nat
  PROVE  Saved(a, pairs, p) \in Work
<1>1. PICK path \in [0..Len(pairs) -> Work] : path[Len(pairs)] = Saved(a, pairs, p)
  BY SavedPath
<1>2. Len(pairs) \in 0..Len(pairs)
  OBVIOUS
<1> QED
  BY <1>1, <1>2

-----------------------------------------------------------------------------
(* Types.  TypeOK is not inductive: a name is set from the argument of a   *)
(* message, and the owner from that of another, so the invariant says what *)
(* a message carries by the function that it calls.                        *)

NameFunctions == {"SetUserName", "DeleteUserName"}

WellFormed(m) ==
  /\ m.function \in NameFunctions =>
       m.to \in Named /\ m.arg \in Names \cup {NoName} /\ ~m.carried
  /\ m.function = "ChangeOwnerAddress" => m.arg \in Owners
  /\ m.function # "Transfer" => m.value = 0

NetTyped(n) == n \in Seq(Message) /\ \A i \in DOMAIN n : WellFormed(n[i])

TypeInv == TypeOK /\ NetTyped(net)

LEMMA AccountSets ==
  /\ Named \subseteq Accounts /\ Owned \in Accounts /\ Owners \subseteq Accounts
  /\ \A f \in Functions : \A p \in Provided[f] : p \in Nat
  /\ 1 \in DOMAIN Schedules /\ 1 \in DOMAIN EpochFlags
  /\ DOMAIN EpochFlags = 1..Len(EpochFlags) /\ Len(EpochFlags) \in Nat
BY AccountAssumption

(* What is spent: a transaction never gets back more than it gave.         *)
LEMMA SpendType ==
  ASSUME TypeOK, NEW p \in Nat, NEW left \in 0..p, Spend(p, left)
  PROVE  /\ p \in Word /\ left \in Word /\ gas' \in Word
         /\ gas' = gas - p + left /\ gas' <= gas /\ p <= gas
<1>1. gas \in Word /\ p <= gas
  BY DEF TypeOK, Spend
<1>2. 2 ^ WordSize \in Nat \ {0}
  BY AccountAssumption
<1>3. p \in Word /\ left \in Word
  BY <1>1, <1>2 DEF Word
<1>4. gas - p + left \in Word /\ gas - p + left <= gas
  BY <1>1, <1>2 DEF Word
<1>5. gas' = AsWord(gas - p + left)
  BY DEF Spend
<1>6. gas - p + left \in Int
  BY <1>1, <1>2 DEF Word
<1> QED
  BY <1>1, <1>3, <1>4, <1>5, <1>6, WordProperties

LEMMA CallType ==
  ASSUME NEW f \in Functions \cup {"Transfer"}, NEW a \in Accounts, NEW b \in Accounts,
         NEW x \in Names \cup {NoName} \cup Accounts,
         NEW given \in Word, NEW g \in Word
  PROVE  Call(f, a, b, x, given, g) \in Message
BY DEF Call, Message

LEMMA NetAppended ==
  ASSUME NEW n, NetTyped(n), NEW m \in Message, WellFormed(m)
  PROVE  NetTyped(Append(n, m))
<1>1. n \in Seq(Message) /\ Len(n) \in Nat /\ DOMAIN n = 1..Len(n)
  BY DEF NetTyped
<1>2. /\ Append(n, m) \in Seq(Message)
      /\ DOMAIN Append(n, m) = 1..(Len(n) + 1)
      /\ Append(n, m)[Len(n) + 1] = m
      /\ \A i \in 1..Len(n) : Append(n, m)[i] = n[i]
  BY <1>1, AppendProperties
<1>3. ASSUME NEW i \in 1..(Len(n) + 1) PROVE WellFormed(Append(n, m)[i])
  <2>1. i = Len(n) + 1 \/ i \in 1..Len(n)
    BY <1>1
  <2> QED
    BY <1>1, <1>2, <2>1 DEF NetTyped
<1> QED
  BY <1>2, <1>3 DEF NetTyped

LEMMA NetRemoved ==
  ASSUME NEW n, NetTyped(n), NEW i \in DOMAIN n
  PROVE  NetTyped(RemoveAt(n, i)) /\ n[i] \in Message /\ WellFormed(n[i])
<1>1. /\ n \in Seq(Message) /\ Len(n) \in Nat /\ DOMAIN n = 1..Len(n)
      /\ i \in 1..Len(n) /\ n[i] \in Message
  BY DEF NetTyped
<1> DEFINE r == RemoveAt(n, i)
<1>2. /\ r \in Seq(Message) /\ Len(r) = Len(n) - 1
      /\ \A j \in 1..(Len(n) - 1) : r[j] = IF j < i THEN n[j] ELSE n[j + 1]
  BY <1>1, RemoveAtProperties
<1> HIDE DEF r
<1>3. ASSUME NEW j \in DOMAIN r PROVE WellFormed(r[j])
  <2>1. j \in 1..(Len(n) - 1)
    BY <1>2
  <2>2. j \in DOMAIN n /\ j + 1 \in DOMAIN n
    BY <1>1, <2>1
  <2> QED
    BY <1>2, <2>1, <2>2 DEF NetTyped
<1> QED
  BY <1>1, <1>2, <1>3 DEF NetTyped, r

(* What is left of the messages when one is delivered.                     *)
LEMMA NetDelivered ==
  ASSUME TypeInv, NEW i \in DOMAIN net, net' = RemoveAt(net, i) \o Emitted(net[i])
  PROVE  \/ /\ net[i].function # "ClaimDeveloperRewards"
            /\ net' = RemoveAt(net, i)
         \/ /\ net[i].function = "ClaimDeveloperRewards"
            /\ \E m \in Message :
                 /\ net' = Append(RemoveAt(net, i), m) /\ WellFormed(m)
                 /\ m.function = "Transfer" /\ m.value = rewards
                 /\ m.gas = 0 /\ m.to = net[i].from
<1> DEFINE r == RemoveAt(net, i)
           c == net[i]
<1>1. /\ r \in Seq(Message) /\ c \in Message
  BY NetRemoved DEF TypeInv, NetTyped
<1> HIDE DEF r
<1>2. CASE c.function # "ClaimDeveloperRewards"
  <2>1. net' = r \o <<>>
    BY <1>2 DEF Emitted, r
  <2>2. r \o <<>> = r
    BY <1>1
  <2> QED
    BY <1>2, <2>1, <2>2 DEF r
<1>3. CASE c.function = "ClaimDeveloperRewards"
  <2> DEFINE k == Call("Transfer", c.to, c.from, NoName, 0, 0)
             t == [k EXCEPT !.value = rewards]
  <2>2. net' = r \o <<t>>
    BY <1>3 DEF Emitted, r
  <2>3. 0 \in Word /\ rewards \in Nat
    BY AccountAssumption DEF Word, TypeInv, TypeOK
  <2>4. k \in Message /\ k.function = "Transfer" /\ k.to = c.from /\ k.gas = 0
    <3>1. c.to \in Accounts /\ c.from \in Accounts
      BY <1>1 DEF Message
    <3> QED
      BY <2>3, <3>1, CallType DEF Call
  <2> HIDE DEF k
  <2>5. t \in Message
    BY <2>3, <2>4 DEF Message
  <2>6. /\ t.function = "Transfer" /\ t.value = rewards
        /\ t.gas = 0 /\ t.to = c.from
    BY <2>4 DEF Message
  <2>1. WellFormed(t)
    BY <2>6 DEF WellFormed, NameFunctions
  <2> HIDE DEF t
  <2>7. r \o <<t>> = Append(r, t)
    BY <1>1, <2>5
  <2> QED
    BY <1>3, <2>2, <2>1, <2>5, <2>6, <2>7 DEF r
<1> QED
  BY <1>2, <1>3

LEMMA InitType == Init => TypeInv
<1> SUFFICES ASSUME Init PROVE TypeInv
  OBVIOUS
<1>1. NetTyped(net)
  BY DEF Init, NetTyped
<1>2. 1 \in DOMAIN Schedules /\ 1 \in DOMAIN EpochFlags /\ Budget \in Word
  BY AccountAssumption DEF Word
<1>3. net \in Seq(Message)
  BY <1>1 DEF NetTyped
<1> QED
  BY <1>1, <1>2, <1>3 DEF Init, TypeInv, TypeOK

LEMMA PairsAreSequences ==
  ASSUME NEW pairs \in Pairs
  PROVE  pairs \in Seq(Pair)
<1>1. PICK n \in 0..MaxPairs : pairs \in [1..n -> Pair]
  BY DEF Pairs, BoundedSeq, SeqOf
<1>2. n \in Nat
  OBVIOUS
<1> QED
  BY <1>1, <1>2, IsASeq

LEMMA SaveKeyValueType ==
  ASSUME TypeInv, NEW a \in Accounts, NEW p \in Nat, NEW pairs \in Seq(Pair),
         SaveKeyValue(a, pairs, p)
  PROVE  TypeInv'
<1> DEFINE saved == Saved(a, pairs, p)
<1>1. saved \in Work
  BY SavedType DEF SaveKeyValue, TypeInv
<1>2. /\ a \in Savers
      /\ store' = [store EXCEPT ![a] = saved.store]
      /\ Spend(p, AsWord(p - saved.used))
      /\ UNCHANGED <<nameVars, ownerVars, nodeVars, net>>
  BY DEF SaveKeyValue
<1> HIDE DEF saved
<1>3. saved.store \in [Keys -> Values \cup {NoValue}] /\ saved.used \in Nat
  BY <1>1 DEF Work
<1>4. store' \in [Savers -> [Keys -> Values \cup {NoValue}]]
  BY <1>2, <1>3 DEF TypeInv, TypeOK
<1>5. gas' \in Word
  <2>0. p - saved.used \in Int /\ gas \in Int
    BY <1>3, WordProperties DEF TypeInv, TypeOK
  <2>1. AsWord(p - saved.used) \in Int
    BY <2>0, AsWordType
  <2>2. gas - p + AsWord(p - saved.used) \in Int
    BY <2>0, <2>1
  <2> QED
    BY <1>2, <2>2, WordProperties DEF Spend
<1> QED
  BY <1>2, <1>4, <1>5 DEF TypeInv, TypeOK, nameVars, ownerVars, nodeVars

(* What the calls do to the gas and to the messages, apart from            *)
(* SaveKeyValue: what a message takes along is not left to the sender, and *)
(* a user name's message has paid for the call, or takes all it was given  *)
(* if it was sent before the flag.                                         *)

Weight == [m \in Message |-> IF m.carried THEN 0 ELSE m.gas]

Charged(m) ==
  m.function \in NameFunctions =>
    IF m.early
      THEN m.function = "SetUserName" /\ m.gas = m.given
      ELSE /\ m.function = "DeleteUserName" \/ ChangeUsername
           /\ \E s \in DOMAIN Schedules :
                m.given - m.gas = Schedules[s][m.function]

CallEffect ==
  /\ gas' \in Word
  /\ \/ net' = net /\ gas' <= gas
     \/ \E m \in Message :
          /\ net' = Append(net, m) /\ WellFormed(m) /\ Charged(m)
          /\ m.value = 0 /\ gas' + Weight[m] <= gas

LEMMA SetUserNameEffect ==
  ASSUME TypeInv, NEW d \in Accounts, NEW a \in Named, NEW n \in Names,
         NEW p \in Nat, SetUserName(d, a, n, p)
  PROVE  CallEffect
<1> DEFINE f == "SetUserName"
           cost == Cost(f)
           g == IF ChangeUsername THEN p - cost ELSE p
           call == Call(f, d, a, n, p, g)
<1>1. p >= cost
  BY DEF SetUserName
<1>2. /\ cost \in Nat /\ a \in Accounts
      /\ \E s \in DOMAIN Schedules : cost = Schedules[s][f]
  BY CostType, AccountSets DEF TypeInv, TypeOK, Functions
<1> HIDE DEF cost
<1>3. p - cost \in 0..p /\ 0 \in 0..p /\ g \in 0..p
  BY <1>1, <1>2
<1>4. CASE Spend(p, p - cost) /\ UNCHANGED net
  BY <1>3, <1>4, SpendType DEF TypeInv, CallEffect
<1>5. CASE Send(call) /\ Spend(p, 0)
  <2>1. gas' \in Word /\ p \in Word /\ gas \in Word /\ gas' = gas - p + 0
    BY <1>3, <1>5, SpendType DEF TypeInv, TypeOK
  <2>2. g \in Word /\ gas' + g <= gas
    BY <1>3, <2>1, AccountAssumption DEF Word
  <2>3. /\ call \in Message /\ call.value = 0 /\ call.gas = g /\ ~call.carried
        /\ call.given = p /\ call.function = f
        /\ call.early = ~ChangeUsername
    BY <1>2, <2>1, <2>2, CallType DEF Functions, Call
  <2>4. WellFormed(call)
    BY DEF WellFormed, Call
  <2>5. Charged(call)
    <3>1. CASE ChangeUsername
      <4>1. p - (p - cost) = cost /\ g = p - cost
        BY <1>2, <3>1
      <4> HIDE DEF call, g
      <4> QED
        BY <1>2, <2>3, <3>1, <4>1 DEF Charged
    <3>2. CASE ~ChangeUsername
      BY <2>3, <3>2 DEF Charged
    <3> QED
      BY <3>1, <3>2
  <2>6. Weight[call] = g
    BY <2>3 DEF Weight
  <2> HIDE DEF call, g
  <2> QED
    BY <1>5, <2>1, <2>2, <2>3, <2>4, <2>5, <2>6 DEF CallEffect, Send
<1> QED
  BY <1>4, <1>5 DEF SetUserName, cost

LEMMA DeleteUserNameEffect ==
  ASSUME TypeInv, NEW d \in Accounts, NEW a \in Named,
         NEW p \in Nat, DeleteUserName(d, a, p)
  PROVE  CallEffect
<1> DEFINE f == "DeleteUserName"
           cost == Cost(f)
           g == p - cost
           call == Call(f, d, a, NoName, p, g)
<1>1. p >= cost
  BY DEF DeleteUserName
<1>2. /\ cost \in Nat /\ a \in Accounts
      /\ \E s \in DOMAIN Schedules : cost = Schedules[s][f]
  BY CostType, AccountSets DEF TypeInv, TypeOK, Functions
<1> HIDE DEF cost
<1>3. g \in 0..p /\ 0 \in 0..p /\ p - g = cost
  BY <1>1, <1>2
<1>4. CASE Spend(p, p - cost) /\ UNCHANGED net
  BY <1>3, <1>4, SpendType DEF TypeInv, CallEffect
<1>5. CASE Send(call) /\ Spend(p, 0)
  <2>1. gas' \in Word /\ p \in Word /\ gas \in Word /\ gas' = gas - p + 0
    BY <1>3, <1>5, SpendType DEF TypeInv, TypeOK
  <2>2. g \in Word /\ gas' + g <= gas
    BY <1>3, <2>1, AccountAssumption DEF Word
  <2>3. /\ call \in Message /\ call.value = 0 /\ call.gas = g /\ ~call.carried
        /\ call.given = p /\ call.function = f /\ ~call.early
    BY <1>2, <2>1, <2>2, CallType DEF Functions, Call
  <2>4. WellFormed(call)
    BY DEF WellFormed, Call
  <2> HIDE DEF call, g
  <2>5. Charged(call)
    BY <1>2, <1>3, <2>3 DEF Charged
  <2>6. Weight[call] = g
    BY <2>3 DEF Weight
  <2> QED
    BY <1>5, <2>1, <2>2, <2>3, <2>4, <2>5, <2>6 DEF CallEffect, Send
<1> QED
  BY <1>4, <1>5 DEF DeleteUserName, cost

LEMMA GasRemainingType ==
  ASSUME TypeInv, NEW f \in Functions, NEW p \in Nat
  PROVE  GasRemaining(f, p) \in 0..p
<1>1. Cost(f) \in Nat
  BY CostType DEF TypeInv, TypeOK
<1> QED
  BY <1>1 DEF GasRemaining

LEMMA ClaimDeveloperRewardsEffect ==
  ASSUME TypeInv, NEW a \in Accounts, NEW p \in Nat, ClaimDeveloperRewards(a, p)
  PROVE  CallEffect /\ net' = net
<1> DEFINE f == "ClaimDeveloperRewards"
<1>1. GasRemaining(f, p) \in 0..p
  BY GasRemainingType DEF Functions
<1>2. Spend(p, GasRemaining(f, p)) /\ net' = net
  BY DEF ClaimDeveloperRewards
<1> QED
  BY <1>1, <1>2, SpendType DEF TypeInv, CallEffect

LEMMA NothingAdded ==
  ASSUME NEW x \in Word, NEW y \in Word, x <= y, NEW n, n = 0
  PROVE  x + n <= y
BY DEF Word

LEMMA ClaimAcrossEffect ==
  ASSUME TypeInv, NEW a \in Accounts, NEW p \in Nat, ClaimAcross(a, p)
  PROVE  CallEffect
<1> DEFINE f == "ClaimDeveloperRewards"
           k == Call(f, a, Owned, NoName, p, p)
           call == [k EXCEPT !.carried = TRUE]
<1>1. GasRemaining(f, p) \in 0..p
  BY GasRemainingType DEF Functions
<1>2. Send(call) /\ Spend(p, GasRemaining(f, p))
  BY DEF ClaimAcross
<1>3. gas' \in Word /\ p \in Word /\ gas \in Word /\ gas' <= gas
  BY <1>1, <1>2, SpendType DEF TypeInv, TypeOK
<1>4. k \in Message /\ k.function = f /\ k.value = 0
  BY <1>3, CallType, AccountSets DEF Functions, Call
<1> HIDE DEF k
<1>5. call \in Message /\ call.function = f /\ call.value = 0 /\ call.carried
  BY <1>4 DEF Message
<1> HIDE DEF call
<1>6. WellFormed(call) /\ Charged(call)
  BY <1>5 DEF WellFormed, Charged, NameFunctions
<1>7. Weight[call] = 0
  BY <1>5 DEF Weight
<1>8. gas' + Weight[call] <= gas
  BY <1>3, <1>7, NothingAdded
<1> QED
  BY <1>2, <1>3, <1>5, <1>6, <1>8 DEF CallEffect, Send

LEMMA ChangeOwnerAddressEffect ==
  ASSUME TypeInv, NEW a \in Accounts, NEW new \in Owners, NEW p \in Nat,
         ChangeOwnerAddress(a, new, p)
  PROVE  CallEffect
<1> DEFINE f == "ChangeOwnerAddress"
           left == GasRemaining(f, p)
           call == Call(f, a, Owned, new, p, left)
           carried == [call EXCEPT !.gas = p, !.carried = TRUE]
<1>1. left \in 0..p /\ 0 \in 0..p
  BY GasRemainingType DEF Functions
<1>2. \/ Spend(p, left) /\ net' = net
      \/ Send(call) /\ Spend(p, 0)
      \/ Send(carried) /\ Spend(p, left)
  BY DEF ChangeOwnerAddress
<1> HIDE DEF left
<1>3. /\ gas' \in Word /\ p \in Word /\ left \in Word
      /\ gas \in Word /\ gas' <= gas
  <2>1. gas' \in Word /\ p \in Word /\ gas \in Word /\ gas' <= gas
    BY <1>1, <1>2, SpendType DEF TypeInv, TypeOK
  <2> QED
    BY <1>1, <2>1, AccountAssumption DEF Word
<1>4. /\ call \in Message /\ call.function = f /\ call.value = 0
      /\ call.arg = new /\ call.gas = left /\ ~call.carried
  <2>1. Owned \in Accounts /\ new \in Accounts
    BY AccountSets
  <2> QED
    BY <1>3, <2>1, CallType DEF Functions, Call
<1> HIDE DEF call
<1>5. /\ carried \in Message /\ carried.function = f /\ carried.value = 0
      /\ carried.arg = new /\ carried.carried
  BY <1>3, <1>4 DEF Message
<1> HIDE DEF carried
<1>6. /\ WellFormed(call) /\ WellFormed(carried)
      /\ Charged(call) /\ Charged(carried)
  BY <1>4, <1>5 DEF WellFormed, Charged, NameFunctions
<1>7. Weight[call] = left /\ Weight[carried] = 0
  BY <1>4, <1>5 DEF Weight
<1>8. CASE Spend(p, left) /\ net' = net
  BY <1>3, <1>8 DEF CallEffect
<1>9. CASE Send(call) /\ Spend(p, 0)
  <2>1. gas' = gas - p + 0
    BY <1>1, <1>9, SpendType DEF TypeInv
  <2>2. gas' + Weight[call] <= gas
    BY <1>1, <1>3, <1>7, <2>1 DEF Word
  <2> QED
    BY <1>3, <1>4, <1>6, <1>9, <2>2 DEF CallEffect, Send
<1>10. CASE Send(carried) /\ Spend(p, left)
  <2>1. gas' + Weight[carried] <= gas
    BY <1>3, <1>7, NothingAdded
  <2> QED
    BY <1>3, <1>5, <1>6, <1>10, <2>1 DEF CallEffect, Send
<1> QED
  BY <1>2, <1>8, <1>9, <1>10

LEMMA CallEffectType ==
  ASSUME TypeInv, CallEffect, UNCHANGED <<storageVars, earned, nodeVars>>,
         userName' \in [Named -> Names \cup {NoName}],
         owner' \in Owners, rewards' \in Nat, balance' \in [Accounts -> Nat]
  PROVE  TypeInv'
<1>1. NetTyped(net')
  BY NetAppended DEF CallEffect, TypeInv
<1>2. net' \in Seq(Message) /\ gas' \in Word
  BY <1>1 DEF NetTyped, CallEffect
<1> QED
  BY <1>1, <1>2 DEF TypeInv, TypeOK, storageVars, nodeVars

LEMMA CallStepType ==
  ASSUME TypeInv, NEW a \in Accounts, NEW p \in Nat
  PROVE  /\ \A b \in Named, n \in Names : SetUserName(a, b, n, p) => TypeInv'
         /\ \A b \in Named : DeleteUserName(a, b, p) => TypeInv'
         /\ ClaimDeveloperRewards(a, p) => TypeInv'
         /\ ClaimAcross(a, p) => TypeInv'
         /\ \A new \in Owners : ChangeOwnerAddress(a, new, p) => TypeInv'
<1>0. /\ userName \in [Named -> Names \cup {NoName}] /\ owner \in Owners
      /\ rewards \in Nat /\ balance \in [Accounts -> Nat]
  BY DEF TypeInv, TypeOK
<1>1. ASSUME NEW b \in Named, NEW n \in Names, SetUserName(a, b, n, p)
      PROVE  TypeInv'
  <2>1. userName' \in [Named -> Names \cup {NoName}]
    BY <1>0, <1>1 DEF SetUserName, nameVars
  <2> QED
    BY <1>0, <1>1, <2>1, SetUserNameEffect, CallEffectType
       DEF SetUserName, ownerVars, nodeVars
<1>2. ASSUME NEW b \in Named, DeleteUserName(a, b, p)
      PROVE  TypeInv'
  <2>1. userName' \in [Named -> Names \cup {NoName}]
    BY <1>0, <1>2 DEF DeleteUserName, nameVars
  <2> QED
    BY <1>0, <1>2, <2>1, DeleteUserNameEffect, CallEffectType
       DEF DeleteUserName, ownerVars, nodeVars
<1>3. ASSUME ClaimDeveloperRewards(a, p) PROVE TypeInv'
  <2>1. rewards' \in Nat /\ balance' \in [Accounts -> Nat]
    BY <1>0, <1>3 DEF ClaimDeveloperRewards
  <2> QED
    BY <1>0, <1>3, <2>1, ClaimDeveloperRewardsEffect, CallEffectType
       DEF ClaimDeveloperRewards, nameVars, nodeVars
<1>4. ASSUME ClaimAcross(a, p) PROVE TypeInv'
  BY <1>0, <1>4, ClaimAcrossEffect, CallEffectType
     DEF ClaimAcross, nameVars, ownerVars, nodeVars
<1>5. ASSUME NEW new \in Owners, ChangeOwnerAddress(a, new, p) PROVE TypeInv'
  <2>1. owner' \in Owners
    BY <1>0, <1>5 DEF ChangeOwnerAddress
  <2> QED
    BY <1>0, <1>5, <2>1, ChangeOwnerAddressEffect, CallEffectType
       DEF ChangeOwnerAddress, nameVars, nodeVars
<1> QED
  BY <1>1, <1>2, <1>3, <1>4, <1>5

LEMMA DeliverType ==
  ASSUME TypeInv, NEW i \in DOMAIN net, Deliver(i)
  PROVE  TypeInv'
<1> DEFINE m == net[i]
<1>1. m \in Message /\ WellFormed(m) /\ NetTyped(RemoveAt(net, i))
  BY NetRemoved DEF TypeInv
<1>2. net' = RemoveAt(net, i) \o Emitted(m)
  BY DEF Deliver
<1>3. NetTyped(net')
  <2>1. CASE net' = RemoveAt(net, i)
    BY <1>1, <2>1
  <2>2. ASSUME NEW t \in Message, net' = Append(RemoveAt(net, i), t), WellFormed(t)
        PROVE  NetTyped(net')
    BY <1>1, <2>2, NetAppended
  <2> QED
    BY <1>2, <2>1, <2>2, NetDelivered
<1>4. net' \in Seq(Message)
  BY <1>3 DEF NetTyped
<1>5. m.to \in Accounts /\ m.value \in Nat /\ m.gas \in Int
  <2>1. m.to \in Accounts /\ m.value \in Nat /\ m.gas \in Word
    BY <1>1 DEF Message
  <2>2. m.gas \in Nat
    BY <2>1, WordProperties
  <2> QED
    BY <2>1, <2>2
<1>6. CASE m.function \in NameFunctions /\ ArriveName(m)
  <2>1. m.to \in Named /\ m.arg \in Names \cup {NoName}
    BY <1>1, <1>6 DEF WellFormed
  <2>2. /\ userName' = [userName EXCEPT ![m.to] = m.arg]
        /\ gas' = AsWord(gas + NameGasLeft(m))
        /\ UNCHANGED <<storageVars, ownerVars, nodeVars>>
    BY <1>6 DEF ArriveName, GiveBack
  <2>3. gas' \in Word
    <3>1. Cost(m.function) \in Int
      BY <1>6, CostType DEF NameFunctions, Functions, TypeInv, TypeOK
    <3>2. m.gas - Cost(m.function) \in Int
      BY <1>5, <3>1
    <3>3. NameGasLeft(m) \in Int
      BY <1>5, <3>2, AsWordType DEF NameGasLeft
    <3>4. gas \in Int
      BY WordProperties DEF TypeInv, TypeOK
    <3>5. gas + NameGasLeft(m) \in Int
      BY <3>3, <3>4
    <3> QED
      BY <2>2, <3>5, AsWordType
  <2>4. userName' \in [Named -> Names \cup {NoName}]
    BY <2>1, <2>2 DEF TypeInv, TypeOK
  <2> QED
    BY <1>3, <1>4, <2>2, <2>3, <2>4
       DEF TypeInv, TypeOK, storageVars, ownerVars, nodeVars
<1>7. CASE ArriveClaim(m)
  BY <1>3, <1>4, <1>7
     DEF ArriveClaim, TypeInv, TypeOK, storageVars, nameVars, nodeVars
<1>8. CASE m.function = "ChangeOwnerAddress" /\ ArriveOwner(m)
  <2>1. m.arg \in Owners
    BY <1>1, <1>8 DEF WellFormed
  <2> QED
    BY <1>3, <1>4, <1>8, <2>1
       DEF ArriveOwner, TypeInv, TypeOK, storageVars, nameVars, nodeVars
<1>9. CASE ArriveTransfer(m)
  <2>1. balance' = [balance EXCEPT ![m.to] = @ + m.value]
    BY <1>9 DEF ArriveTransfer
  <2>2. balance' \in [Accounts -> Nat]
    BY <1>5, <2>1 DEF TypeInv, TypeOK
  <2> QED
    BY <1>3, <1>4, <1>9, <2>2
       DEF ArriveTransfer, TypeInv, TypeOK, storageVars, nameVars, nodeVars
<1> QED
  BY <1>6, <1>7, <1>8, <1>9 DEF Deliver, NameFunctions

LEMMA StepType == TypeInv /\ [Next]_vars => TypeInv'
<1> SUFFICES ASSUME TypeInv, [Next]_vars PROVE TypeInv'
  OBVIOUS
<1>1. CASE UNCHANGED vars
  BY <1>1 DEF vars, storageVars, nameVars, ownerVars, nodeVars, TypeInv, TypeOK
<1>2. CASE CallStep
  <2>1. \A f \in Functions : \A p \in Provided[f] : p \in Nat
    BY AccountSets
  <2> QED
    BY <1>2, <2>1, PairsAreSequences, SaveKeyValueType, CallStepType
       DEF CallStep, Functions
<1>3. ASSUME NEW i \in DOMAIN net, Fail(i) PROVE TypeInv'
  <2>1. NetTyped(net') /\ UNCHANGED <<storageVars, nameVars, ownerVars, nodeVars, gas>>
    BY <1>3, NetRemoved DEF Fail, TypeInv
  <2>2. net' \in Seq(Message)
    BY <2>1 DEF NetTyped
  <2> QED
    BY <2>1, <2>2 DEF storageVars, nameVars, ownerVars, nodeVars, TypeInv, TypeOK
<1>4. ASSUME NEW f \in Functions, NEW s \in DOMAIN Schedules, SetNewGasConfig(f, s)
      PROVE  TypeInv'
  BY <1>4 DEF SetNewGasConfig, storageVars, nameVars, ownerVars, TypeInv, TypeOK
<1>5. CASE NextTransaction
  BY <1>5, AccountAssumption DEF NextTransaction, Word,
     storageVars, nameVars, ownerVars, nodeVars, TypeInv, TypeOK
<1>6. CASE EarnRewards
  BY <1>6 DEF EarnRewards, storageVars, nameVars, nodeVars, TypeInv, TypeOK
<1>7. CASE NextEpoch
  <2>1. epoch' \in DOMAIN EpochFlags
    BY <1>7, AccountSets DEF NextEpoch, TypeInv, TypeOK
  <2> QED
    BY <1>7, <2>1 DEF NextEpoch, storageVars, nameVars, ownerVars, TypeInv, TypeOK
<1> QED
  BY <1>1, <1>2, <1>3, <1>4, <1>5, <1>6, <1>7, DeliverType DEF Next, NodeStep

LEMMA TypeInvHolds == Spec => []TypeInv
BY InitType, StepType, PTL DEF Spec

(* Gas is a word and names, storage and the owner are what may be set,     *)
(* whatever arrives from the other shard.                                  *)
THEOREM TypeOKHolds == Spec => []TypeOK
<1>1. TypeInv => TypeOK
  BY DEF TypeInv
<1> QED
  BY <1>1, TypeInvHolds, PTL

-----------------------------------------------------------------------------
(* Rewards: what the messages carry, and what the accounts have. *)

Worth == [m \in Message |-> m.value]
OnTheWay(n) == SumFunction(NumbersOf(Worth, n))

LEMMA WorthType ==
  /\ Worth \in [Message -> Int]
  /\ \A m \in Message : Worth[m] = m.value /\ m.value \in Nat
BY DEF Worth, Message

LEMMA OnTheWayType ==
  ASSUME NEW n \in Seq(Message)
  PROVE  /\ OnTheWay(n) \in Int
         /\ OnTheWay(n) = SumFunction([i \in DOMAIN n |-> n[i].value])
         /\ n = <<>> => OnTheWay(n) = 0
<1> DEFINE w == NumbersOf(Worth, n)
<1>1. /\ w \in Seq(Int) /\ Len(w) = Len(n) /\ Len(n) \in Nat
  BY WorthType, NumbersOfType
<1>2. w = [i \in DOMAIN n |-> n[i].value]
  BY WorthType DEF NumbersOf
<1> HIDE DEF w
<1>3. w \in [1..Len(n) -> Int] /\ IsFiniteSet(1..Len(n))
  <2>1. w \in [1..Len(w) -> Int] /\ Len(n) \in Nat
    BY <1>1
  <2>2. IsFiniteSet(1..Len(n))
    BY <1>1, FS_Interval
  <2> QED
    BY <1>1, <2>1, <2>2
<1>4. SumFunction(w) \in Int /\ (1..Len(n) = {} => SumFunction(w) = 0)
  BY <1>3, SumType
<1>5. n = <<>> => 1..Len(n) = {}
  OBVIOUS
<1> QED
  BY <1>2, <1>4, <1>5 DEF OnTheWay, w

(* Paying v to an account adds v to the balances.                          *)
LEMMA BalancePaid ==
  ASSUME balance \in [Accounts -> Nat], NEW a \in Accounts, NEW v \in Nat,
         balance' = [balance EXCEPT ![a] = @ + v]
  PROVE  SumFunction(balance') = SumFunction(balance) + v
<1> DEFINE b == balance'
<1>1. /\ b = [balance EXCEPT ![a] = @ + v]
  OBVIOUS
<1> HIDE DEF b
<1>2. /\ balance \in [Accounts -> Int] /\ b \in [Accounts -> Int]
      /\ b[a] = balance[a] + v /\ balance[a] \in Int
      /\ \A x \in Accounts \ {a} : b[x] = balance[x]
  BY <1>1
<1>3. SumFunction(b) = SumFunction(balance) + b[a] - balance[a]
  <2>1. \A f, e \in [Accounts -> Int] :
          (\A x \in Accounts \ {a} : e[x] = f[x])
          => SumFunction(e) = SumFunction(f) + e[a] - f[a]
    <3>1. IsFiniteSet(Accounts)
      BY AccountAssumption
    <3> QED
      BY <3>1, SumUpdate
  <2> QED
    BY <1>2, <2>1
<1>4. SumFunction(balance) \in Int
  BY <1>2, AccountAssumption, SumType
<1> QED
  BY <1>2, <1>3, <1>4 DEF b

LEMMA RemovedWorth ==
  ASSUME TypeInv, NEW i \in DOMAIN net
  PROVE  /\ OnTheWay(RemoveAt(net, i)) = OnTheWay(net) - net[i].value
         /\ OnTheWay(net) \in Int /\ net[i].value \in Nat
<1>1. net \in Seq(Message) /\ net[i] \in Message
  BY NetRemoved DEF TypeInv, NetTyped
<1>2. OnTheWay(RemoveAt(net, i)) = OnTheWay(net) - Worth[net[i]]
  BY <1>1, WorthType, SumNumbersRemoveAt DEF OnTheWay
<1> QED
  BY <1>1, <1>2, OnTheWayType, WorthType

Kept == rewards + OnTheWay(net) + SumFunction(balance) = earned

LEMMA KeptType ==
  ASSUME TypeInv
  PROVE  /\ rewards \in Nat /\ earned \in Nat /\ OnTheWay(net) \in Int
         /\ SumFunction(balance) \in Int
<1>1. net \in Seq(Message) /\ balance \in [Accounts -> Int]
  BY DEF TypeInv, TypeOK
<1> QED
  BY <1>1, OnTheWayType, SumType, AccountAssumption DEF TypeInv, TypeOK

LEMMA KeptByCalls ==
  ASSUME TypeInv, Kept, NEW a \in Accounts, NEW p \in Nat,
         ClaimDeveloperRewards(a, p)
  PROVE  Kept'
<1>1. /\ rewards' = 0 /\ balance' = [balance EXCEPT ![a] = @ + rewards]
      /\ earned' = earned /\ net' = net
  BY DEF ClaimDeveloperRewards
<1>2. SumFunction(balance') = SumFunction(balance) + rewards
  BY <1>1, BalancePaid DEF TypeInv, TypeOK
<1> QED
  BY <1>1, <1>2, KeptType DEF Kept

LEMMA KeptByDeliver ==
  ASSUME TypeInv, Kept, NEW i \in DOMAIN net, Deliver(i)
  PROVE  Kept'
<1> DEFINE m == net[i]
           r == RemoveAt(net, i)
<1>1. /\ m \in Message /\ WellFormed(m) /\ r \in Seq(Message)
  BY NetRemoved DEF TypeInv, NetTyped
<1>2. OnTheWay(r) = OnTheWay(net) - m.value /\ m.value \in Nat
  BY RemovedWorth
<1>3. /\ rewards \in Nat /\ earned \in Nat /\ OnTheWay(net) \in Int
      /\ SumFunction(balance) \in Int
  BY KeptType
<1>4. net' = r \o Emitted(m)
  BY DEF Deliver
<1> HIDE DEF r
<1>5. CASE m.function = "ClaimDeveloperRewards"
  <2>1. rewards' = 0 /\ earned' = earned /\ balance' = balance
    BY <1>5 DEF Deliver, ArriveClaim
  <2>2. PICK t \in Message : net' = Append(r, t) /\ t.value = rewards
    BY <1>4, <1>5, NetDelivered DEF r
  <2>3. OnTheWay(net') = OnTheWay(r) + t.value
    <3>1. OnTheWay(Append(r, t)) = OnTheWay(r) + Worth[t]
      BY <1>1, WorthType, SumNumbersAppend DEF OnTheWay
    <3> QED
      BY <2>2, <3>1, WorthType
  <2>4. m.value = 0
    BY <1>1, <1>5 DEF WellFormed
  <2> QED
    BY <1>2, <1>3, <2>1, <2>2, <2>3, <2>4 DEF Kept
<1>6. CASE m.function # "ClaimDeveloperRewards"
  <2>1. net' = r
    BY <1>4, <1>6, NetDelivered DEF r
  <2>2. rewards' = rewards /\ earned' = earned
    BY <1>6 DEF Deliver, ArriveName, ArriveOwner, ArriveTransfer, ownerVars
  <2>3. SumFunction(balance') = SumFunction(balance) + m.value
    <3>1. CASE m.function = "Transfer"
      <4>1. balance' = [balance EXCEPT ![m.to] = @ + m.value]
        BY <3>1 DEF Deliver, ArriveTransfer
      <4>2. m.to \in Accounts
        BY <1>1 DEF Message
      <4> QED
        BY <1>2, <4>1, <4>2, BalancePaid DEF TypeInv, TypeOK
    <3>2. CASE m.function # "Transfer"
      <4>1. balance' = balance
        BY <1>6, <3>2 DEF Deliver, ArriveName, ArriveOwner, ownerVars
      <4>2. m.value = 0
        BY <1>1, <3>2 DEF WellFormed
      <4> QED
        BY <1>3, <4>1, <4>2
    <3> QED
      BY <3>1, <3>2
  <2> QED
    BY <1>2, <1>3, <2>1, <2>2, <2>3 DEF Kept
<1> QED
  BY <1>5, <1>6

(* The other calls leave the rewards where they are.                       *)
LEMMA KeptByOthers ==
  ASSUME TypeInv, Kept, CallEffect, UNCHANGED <<rewards, balance, earned>>
  PROVE  Kept'
<1>1. net \in Seq(Message)
  BY DEF TypeInv, TypeOK
<1>2. ASSUME NEW m \in Message, net' = Append(net, m), m.value = 0
      PROVE  OnTheWay(net') = OnTheWay(net)
  <2>1. OnTheWay(Append(net, m)) = OnTheWay(net) + Worth[m]
    BY <1>1, WorthType, SumNumbersAppend DEF OnTheWay
  <2>2. OnTheWay(net) \in Int /\ Worth[m] = 0
    BY <1>1, <1>2, OnTheWayType, WorthType
  <2> QED
    BY <1>2, <2>1, <2>2
<1>3. OnTheWay(net') = OnTheWay(net)
  BY <1>2 DEF CallEffect
<1> QED
  BY <1>3 DEF Kept

LEMMA StepKept == TypeInv /\ Kept /\ [Next]_vars => Kept'
<1> SUFFICES ASSUME TypeInv, Kept, [Next]_vars PROVE Kept'
  OBVIOUS
<1>0. \A f \in Functions : \A p \in Provided[f] : p \in Nat
  BY AccountSets
<1>1. ASSUME UNCHANGED <<rewards, balance, earned, net>> PROVE Kept'
  BY <1>1 DEF Kept
<1>2. CASE UNCHANGED vars
  BY <1>1, <1>2 DEF vars, ownerVars
<1>3. ASSUME NEW a \in Accounts, NEW p \in Nat, NEW pairs \in Pairs,
             SaveKeyValue(a, pairs, p)
      PROVE  Kept'
  BY <1>1, <1>3 DEF SaveKeyValue, ownerVars
<1>4. ASSUME NEW a \in Accounts, NEW p \in Nat, NEW b \in Named, NEW n \in Names,
             SetUserName(a, b, n, p)
      PROVE  Kept'
  BY <1>4, SetUserNameEffect, KeptByOthers DEF SetUserName, ownerVars
<1>5. ASSUME NEW a \in Accounts, NEW p \in Nat, NEW b \in Named,
             DeleteUserName(a, b, p)
      PROVE  Kept'
  BY <1>5, DeleteUserNameEffect, KeptByOthers DEF DeleteUserName, ownerVars
<1>6. ASSUME NEW a \in Accounts, NEW p \in Nat, ClaimAcross(a, p)
      PROVE  Kept'
  BY <1>6, ClaimAcrossEffect, KeptByOthers DEF ClaimAcross, ownerVars
<1>7. ASSUME NEW a \in Accounts, NEW p \in Nat, NEW new \in Owners,
             ChangeOwnerAddress(a, new, p)
      PROVE  Kept'
  BY <1>7, ChangeOwnerAddressEffect, KeptByOthers DEF ChangeOwnerAddress
<1>8. CASE CallStep
  BY <1>0, <1>3, <1>4, <1>5, <1>6, <1>7, <1>8, KeptByCalls DEF CallStep, Functions
<1>9. ASSUME NEW i \in DOMAIN net, Fail(i) PROVE Kept'
  <2> DEFINE m == net[i]
  <2>1. /\ net' = RemoveAt(net, i) /\ m.function # "Transfer"
        /\ UNCHANGED <<rewards, balance, earned>>
    BY <1>9 DEF Fail, Accepts, ownerVars
  <2>2. m.value = 0
    BY <2>1, NetRemoved DEF TypeInv, WellFormed
  <2>3. OnTheWay(net') = OnTheWay(net)
    BY <2>1, <2>2, RemovedWorth
  <2> QED
    BY <2>1, <2>3 DEF Kept
<1>10. ASSUME NEW f \in Functions, NEW s \in DOMAIN Schedules, SetNewGasConfig(f, s)
       PROVE  Kept'
  BY <1>1, <1>10 DEF SetNewGasConfig, ownerVars
<1>11. CASE NextTransaction
  BY <1>1, <1>11 DEF NextTransaction, ownerVars
<1>12. CASE EarnRewards
  BY <1>12, KeptType DEF EarnRewards, Kept
<1>13. CASE NextEpoch
  BY <1>1, <1>13 DEF NextEpoch, ownerVars
<1> QED
  BY <1>2, <1>8, <1>9, <1>10, <1>11, <1>12, <1>13, KeptByDeliver DEF Next, NodeStep

LEMMA InitKept == Init => Kept
<1> SUFFICES ASSUME Init PROVE Kept
  OBVIOUS
<1>1. net \in Seq(Message) /\ net = <<>>
  BY InitType DEF TypeInv, TypeOK, Init
<1>2. OnTheWay(net) = 0
  BY <1>1, OnTheWayType
<1>3. SumFunction(balance) = 0
  <2>1. balance \in [Accounts -> Int] /\ \A a \in Accounts : balance[a] = 0
    BY DEF Init
  <2> QED
    BY <2>1, AccountAssumption, SumZero
<1> QED
  BY <1>2, <1>3 DEF Init, Kept

(* Every reward is with the contract, on its way to an owner or paid, for  *)
(* every number of contracts' claims in flight: a claim that arrives after *)
(* the owner changed fails and takes nothing along.                        *)
THEOREM RewardsConservedHolds == Spec => []RewardsConserved
<1>1. TypeInv /\ Kept => RewardsConserved
  <2> SUFFICES ASSUME TypeInv, Kept PROVE RewardsConserved
    OBVIOUS
  <2>1. OnTheWay(net) = SumFunction([i \in DOMAIN net |-> net[i].value])
    BY OnTheWayType DEF TypeInv, TypeOK
  <2> QED
    BY <2>1 DEF Kept, RewardsConserved
<1> QED
  BY <1>1, TypeInvHolds, InitKept, StepKept, PTL DEF Spec

-----------------------------------------------------------------------------
(* Gas: what the transaction has and what its messages take along. *)

Carried(n) == SumFunction(NumbersOf(Weight, n))

LEMMA WeightType ==
  /\ Weight \in [Message -> Int]
  /\ \A m \in Message : /\ Weight[m] = IF m.carried THEN 0 ELSE m.gas
                        /\ Weight[m] \in Nat
<1>1. ASSUME NEW m \in Message PROVE (IF m.carried THEN 0 ELSE m.gas) \in Nat
  <2>1. m.gas \in Nat
    BY WordProperties DEF Message
  <2> QED
    BY <2>1
<1>2. \A m \in Message : Weight[m] = IF m.carried THEN 0 ELSE m.gas
  BY DEF Weight
<1>3. \A m \in Message : Weight[m] \in Nat
  BY <1>1, <1>2
<1>4. Weight = [m \in Message |-> Weight[m]]
  BY DEF Weight
<1>5. Weight \in [Message -> Nat]
  BY <1>3, <1>4
<1> QED
  BY <1>2, <1>3, <1>5

LEMMA CarriedType ==
  ASSUME NEW n \in Seq(Message)
  PROVE  /\ Carried(n) \in Int
         /\ Carried(n) = SumFunction([i \in DOMAIN n |->
                                        IF n[i].carried THEN 0 ELSE n[i].gas])
<1> DEFINE w == NumbersOf(Weight, n)
<1>1. w \in Seq(Int) /\ Len(w) = Len(n) /\ Len(n) \in Nat
  BY WeightType, NumbersOfType
<1>2. w = [i \in DOMAIN n |-> IF n[i].carried THEN 0 ELSE n[i].gas]
  <2>1. \A i \in DOMAIN n : n[i] \in Message
    OBVIOUS
  <2> QED
    BY <2>1, WeightType DEF NumbersOf
<1> HIDE DEF w
<1>3. w \in [1..Len(w) -> Int] /\ IsFiniteSet(1..Len(w))
  <2>1. IsFiniteSet(1..Len(n))
    BY <1>1, FS_Interval
  <2> QED
    BY <1>1, <2>1
<1> QED
  BY <1>2, <1>3, SumType DEF Carried, w

LEMMA CarriedChanges ==
  ASSUME TypeInv
  PROVE  /\ \A n \in Seq(Message), m \in Message :
              Carried(Append(n, m)) = Carried(n) + Weight[m]
         /\ \A i \in DOMAIN net :
              Carried(RemoveAt(net, i)) = Carried(net) - Weight[net[i]]
<1>1. net \in Seq(Message)
  BY DEF TypeInv, TypeOK
<1> QED
  BY <1>1, WeightType, SumNumbersAppend, SumNumbersRemoveAt DEF Carried

(* A step in which no gas is made: the corrections need not be active for  *)
(* any function but those that they correct.                               *)
NoGasMade == gas' + Carried(net') <= gas + Carried(net)

LEMMA GasNumbers ==
  ASSUME TypeInv
  PROVE  gas \in Nat /\ gas \in Int /\ Carried(net) \in Int
<1>1. gas \in Nat
  BY WordProperties DEF TypeInv, TypeOK
<1>2. gas \in Int
  BY <1>1
<1>3. net \in Seq(Message)
  BY DEF TypeInv, TypeOK
<1> QED
  BY <1>1, <1>2, <1>3, CarriedType

LEMMA CallMakesNoGas ==
  ASSUME TypeInv, CallEffect
  PROVE  NoGasMade
<1>1. gas \in Int /\ Carried(net) \in Int
  BY GasNumbers
<1>2. gas' \in Int
  <2>1. gas' \in Nat
    BY WordProperties DEF CallEffect
  <2> QED
    BY <2>1
<1>3. CASE net' = net /\ gas' <= gas
  BY <1>1, <1>2, <1>3 DEF NoGasMade
<1>4. ASSUME NEW m \in Message, net' = Append(net, m), gas' + Weight[m] <= gas
      PROVE  NoGasMade
  <2>1. Carried(net') = Carried(net) + Weight[m]
    BY <1>4, CarriedChanges DEF TypeInv, TypeOK
  <2>2. Weight[m] \in Int
    BY WeightType
  <2> QED
    BY <1>1, <1>2, <1>4, <2>1, <2>2 DEF NoGasMade
<1> QED
  BY <1>3, <1>4 DEF CallEffect

LEMMA SaveMakesNoGas ==
  ASSUME TypeInv, FixGasRemaining, NEW a \in Accounts, NEW p \in Nat,
         NEW pairs \in Seq(Pair), SaveKeyValue(a, pairs, p)
  PROVE  NoGasMade
<1> DEFINE saved == Saved(a, pairs, p)
           left == p - saved.used
<1>1. saved \in Work
  BY SavedType DEF SaveKeyValue, TypeInv
<1>2. p >= saved.used /\ Spend(p, AsWord(left)) /\ net' = net
  BY DEF SaveKeyValue, CanSubtract
<1> HIDE DEF saved
<1>3. saved.used \in Nat
  BY <1>1 DEF Work
<1>4. left \in Int /\ left >= 0 /\ left <= p
  BY <1>2, <1>3
<1> HIDE DEF left
<1>5. AsWord(left) \in 0..p
  <2>1. AsWord(left) \in Nat /\ AsWord(left) <= left
    BY <1>4, WordProperties
  <2> QED
    BY <1>4, <2>1
<1>6. gas' \in Word /\ gas' <= gas
  BY <1>2, <1>5, SpendType DEF TypeInv
<1>7. CallEffect
  BY <1>2, <1>6 DEF CallEffect
<1> QED
  BY <1>7, CallMakesNoGas

LEMMA RemovalMakesNoGas ==
  ASSUME TypeInv, NEW i \in DOMAIN net, gas' \in Int,
         gas' <= gas + Weight[net[i]], net' = RemoveAt(net, i)
  PROVE  NoGasMade
<1>1. net[i] \in Message
  BY NetRemoved DEF TypeInv
<1>2. Weight[net[i]] \in Int
  BY <1>1, WeightType
<1>3. Carried(net') = Carried(net) - Weight[net[i]]
  BY CarriedChanges
<1>4. gas \in Int /\ Carried(net) \in Int
  BY GasNumbers
<1> QED
  BY <1>2, <1>3, <1>4 DEF NoGasMade

LEMMA DeliverMakesNoGas ==
  ASSUME TypeInv, ChangeUsername, NEW i \in DOMAIN net, Deliver(i)
  PROVE  NoGasMade
<1> DEFINE m == net[i]
           r == RemoveAt(net, i)
           w == Weight[m]
<1>1. /\ m \in Message /\ WellFormed(m) /\ r \in Seq(Message)
  BY NetRemoved DEF TypeInv, NetTyped
<1>2. w \in Nat /\ w \in Int
  <2>1. w \in Nat
    BY <1>1, WeightType
  <2> QED
    BY <2>1
<1>3. net' = r \o Emitted(m)
  BY DEF Deliver
<1>4. gas \in Int
  BY GasNumbers
<1>5. CASE m.function \in NameFunctions
  <2>1. net' = r
    BY <1>3, <1>5, NetDelivered DEF NameFunctions
  <2>2. gas' = AsWord(gas + m.gas)
    BY <1>5 DEF Deliver, NameFunctions, ArriveName, GiveBack, NameGasLeft
  <2>3. w = m.gas
    BY <1>1, <1>5, WeightType DEF WellFormed
  <2> HIDE DEF w
  <2>4. gas + m.gas \in Int /\ gas + m.gas >= 0
    BY <1>2, <2>3, GasNumbers
  <2>5. gas' \in Int /\ gas' <= gas + m.gas
    BY <2>2, <2>4, AsWordType, WordProperties
  <2>6. gas' \in Int /\ gas' <= gas + w
    BY <2>3, <2>5
  <2> QED
    BY <2>1, <2>6, RemovalMakesNoGas DEF r, w
<1>6. CASE m.function # "ClaimDeveloperRewards" /\ m.function \notin NameFunctions
  <2>1. net' = r
    BY <1>3, <1>6, NetDelivered
  <2>2. gas' = gas
    BY <1>6 DEF Deliver, NameFunctions, ArriveOwner, ArriveTransfer
  <2>3. gas' \in Int /\ gas' <= gas + w
    BY <1>2, <1>4, <2>2
  <2> QED
    BY <2>1, <2>3, RemovalMakesNoGas
<1>7. CASE m.function = "ClaimDeveloperRewards"
  <2>1. gas' = gas
    BY <1>7 DEF Deliver, NameFunctions, ArriveClaim
  <2>2. PICK t \in Message : net' = Append(r, t) /\ t.gas = 0
    BY <1>3, <1>7, NetDelivered
  <2> HIDE DEF m, w
  <2>3. Carried(net') = Carried(r) + Weight[t]
    BY <1>1, <2>2, CarriedChanges
  <2>4. Weight[t] = 0
    BY <2>2, WeightType
  <2>5. Carried(r) = Carried(net) - w
    BY CarriedChanges DEF m, w
  <2> HIDE DEF r
  <2>6. Carried(net) \in Int
    BY GasNumbers
  <2>7. Carried(net') <= Carried(net)
    BY <1>2, <2>3, <2>4, <2>5, <2>6
  <2>8. Carried(net') \in Int
    BY <1>2, <2>3, <2>4, <2>5, <2>6
  <2> QED
    BY <1>4, <2>1, <2>6, <2>7, <2>8 DEF NoGasMade
<1> QED
  BY <1>5, <1>6, <1>7

(* Every step but the next transaction's start makes no gas.               *)
LEMMA StepMakesNoGas ==
  ASSUME TypeInv, FixGasRemaining, ChangeUsername, Next, ~NextTransaction
  PROVE  NoGasMade
<1>0. \A f \in Functions : \A p \in Provided[f] : p \in Nat
  BY AccountSets
<1>1. ASSUME UNCHANGED <<gas, net>> PROVE NoGasMade
  BY <1>1, GasNumbers DEF NoGasMade
<1>2. CASE CallStep
  BY <1>0, <1>2, PairsAreSequences, SaveMakesNoGas, CallMakesNoGas,
     SetUserNameEffect, DeleteUserNameEffect, ClaimDeveloperRewardsEffect,
     ClaimAcrossEffect, ChangeOwnerAddressEffect DEF CallStep, Functions
<1>3. ASSUME NEW i \in DOMAIN net, Fail(i) PROVE NoGasMade
  <2>1. net' = RemoveAt(net, i) /\ gas' = gas
    BY <1>3 DEF Fail
  <2>2. Weight[net[i]] \in Nat
    BY NetRemoved, WeightType DEF TypeInv
  <2>3. gas' \in Int /\ gas' <= gas + Weight[net[i]]
    BY <2>1, <2>2, GasNumbers
  <2> QED
    BY <2>1, <2>3, RemovalMakesNoGas
<1>4. ASSUME NEW f \in Functions, NEW s \in DOMAIN Schedules, SetNewGasConfig(f, s)
      PROVE  NoGasMade
  BY <1>1, <1>4 DEF SetNewGasConfig
<1>5. CASE EarnRewards
  BY <1>1, <1>5 DEF EarnRewards
<1>6. CASE NextEpoch
  BY <1>1, <1>6 DEF NextEpoch
<1> QED
  BY <1>2, <1>3, <1>4, <1>5, <1>6, DeliverMakesNoGas DEF Next, NodeStep

(* With both corrections active no call, and nothing that arrives, leaves  *)
(* more gas than there was, for every schedule and however it changes: a   *)
(* subtraction of gas never wraps.                                         *)
THEOREM GasNeverGrowsHolds == Spec => GasNeverGrows
<1> DEFINE Grown == TotalGas' > TotalGas
           Goal == FixGasRemaining /\ ChangeUsername /\ Grown => net = <<>> /\ gas' = Budget
<1>1. TypeInv /\ TypeInv' /\ [Next]_vars => [Goal]_vars
  <2> SUFFICES ASSUME TypeInv, TypeInv', Next, FixGasRemaining, ChangeUsername, Grown
               PROVE  net = <<>> /\ gas' = Budget
    OBVIOUS
  <2>1. TotalGas = gas + Carried(net) /\ TotalGas' = gas' + Carried(net')
    <3>1. net \in Seq(Message) /\ net' \in Seq(Message)
      BY DEF TypeInv, TypeOK
    <3> QED
      BY <3>1, CarriedType DEF TotalGas
  <2>2. /\ gas + Carried(net) \in Int /\ gas' + Carried(net') \in Int
    <3>1. gas \in Int /\ Carried(net) \in Int
      BY GasNumbers
    <3>2. net' \in Seq(Message) /\ gas' \in Word
      BY DEF TypeInv, TypeOK
    <3>3. gas' \in Nat /\ Carried(net') \in Int
      BY <3>2, CarriedType, WordProperties
    <3> QED
      BY <3>1, <3>3
  <2>3. ~NoGasMade
    BY <2>1, <2>2 DEF NoGasMade
  <2> QED
    BY <2>3, StepMakesNoGas DEF NextTransaction
<1>2. GasNeverGrows <=> [][Goal]_vars
  BY DEF GasNeverGrows
<1> QED
  BY <1>1, <1>2, TypeInvHolds, PTL DEF Spec

-----------------------------------------------------------------------------
(* What storage costs: the size of a storage as a sum, what one pair adds  *)
(* to it and to the gas used, and the sum of both along a call.            *)

Lengths(kv) == [k \in Keys |-> LengthOf[kv[k]]]

LEMMA SizeIsSum ==
  ASSUME IsFiniteSet(Keys), NEW kv
  PROVE  SizeOf(kv) = SumFunction(Lengths(kv))
<1> DEFINE f == Lengths(kv)
           Sums(h) == h = [T \in SUBSET Keys |->
             IF T = {} THEN 0
             ELSE LengthOf[kv[Chosen(T)]] + h[T \ {Chosen(T)}]]
           iter == CHOOSE h : Sums(h)
<1>1. DOMAIN f = Keys /\ \A k \in Keys : f[k] = LengthOf[kv[k]]
  BY DEF Lengths
<1>2. PICK g : IsSumOver(g, f, Keys) /\ SumFunction(f) = g[Keys]
  BY <1>1, SumFunctionIsSumOver
<1>3. \A T \in SUBSET Keys : T # {} => f[Chosen(T)] = LengthOf[kv[Chosen(T)]]
  <2>1. \A T \in SUBSET Keys : T # {} => Chosen(T) \in Keys
    BY DEF Chosen
  <2> QED
    BY <1>1, <2>1
<1> HIDE DEF f
<1>4. Sums(g)
  BY <1>2, <1>3 DEF IsSumOver
<1>5. Sums(iter)
  <2> HIDE DEF Sums
  <2> QED
    BY <1>4
<1>6. SizeOf(kv) = iter[Keys]
  BY DEF SizeOf, MapThenSumSet, MapThenFoldSet, iter, Chosen
<1> HIDE DEF iter
<1>7. IsSumOver(iter, f, Keys)
  BY <1>3, <1>5 DEF IsSumOver
<1>8. iter[Keys] = g[Keys]
  BY <1>2, <1>7, SumsAgree
<1> QED
  BY <1>2, <1>6, <1>8 DEF f

LEMMA LengthType ==
  /\ \A v \in Values \cup {NoValue} : LengthOf[v] \in Nat
  /\ \A kv \in [Keys -> Values \cup {NoValue}] : Lengths(kv) \in [Keys -> Int]
<1>1. \A v \in Values \cup {NoValue} : LengthOf[v] \in Nat
  BY AccountAssumption
<1> QED
  BY <1>1 DEF Lengths

LEMMA SizeChange ==
  ASSUME IsFiniteSet(Keys), NEW kv \in [Keys -> Values \cup {NoValue}],
         NEW k \in Keys, NEW v \in Values \cup {NoValue}
  PROVE  /\ SizeOf(kv) \in Int
         /\ SizeOf([kv EXCEPT ![k] = v]) = SizeOf(kv) + LengthOf[v] - LengthOf[kv[k]]
<1> DEFINE after == [kv EXCEPT ![k] = v]
<1>1. after \in [Keys -> Values \cup {NoValue}] /\ after[k] = v
      /\ \A x \in Keys \ {k} : after[x] = kv[x]
  OBVIOUS
<1> HIDE DEF after
<1>2. Lengths(kv) \in [Keys -> Int] /\ Lengths(after) \in [Keys -> Int]
  BY <1>1, LengthType
<1>3. \A x \in Keys \ {k} : Lengths(after)[x] = Lengths(kv)[x]
  BY <1>1 DEF Lengths
<1>4. Lengths(after)[k] = LengthOf[v] /\ Lengths(kv)[k] = LengthOf[kv[k]]
  BY <1>1 DEF Lengths
<1>5. SumFunction(Lengths(after))
        = SumFunction(Lengths(kv)) + Lengths(after)[k] - Lengths(kv)[k]
  BY <1>2, <1>3, SumUpdate
<1>6. SumFunction(Lengths(kv)) \in Int
  BY <1>2, SumType
<1>7. SizeOf(kv) = SumFunction(Lengths(kv)) /\ SizeOf(after) = SumFunction(Lengths(after))
  BY SizeIsSum
<1> QED
  BY <1>4, <1>5, <1>6, <1>7 DEF after

Longest(longest) == \A v \in Values : LengthOf[v] <= longest

Dearest(dearest) ==
  \A i \in DOMAIN Schedules, item \in Priced : Schedules[i][item] <= dearest

(* What a call uses fits in a word, at the dearest prices and with the     *)
(* longest values: without it a sum wraps, and less is paid.               *)
CallsFitWord ==
  /\ IsFiniteSet(Keys) /\ MaxPairs \in Nat
  /\ \E longest, dearest \in Nat :
       /\ Longest(longest) /\ Dearest(dearest)
       /\ dearest + MaxPairs * ((1 + 2 * longest) * dearest) < 2 ^ WordSize

LEMMA NatProducts ==
  \A a, b, c, d \in Nat : a <= c /\ b <= d => a * b \in Nat /\ a * b <= c * d
<1> TAKE a, b, c, d \in Nat
<1> HAVE a <= c /\ b <= d
<1>1. (c - a) * b >= 0 /\ c * (d - b) >= 0
  OBVIOUS
<1>2. a * b \in Nat
  OBVIOUS
<1> QED
  BY <1>1, <1>2

PerByte == Price("SaveKeyValue", "StorePerByte")

LEMMA PairPaid ==
  ASSUME TypeOK, IsFiniteSet(Keys), NEW w \in Work, NEW pair \in Pair, NEW p \in Nat,
         NEW longest \in Nat, NEW dearest \in Nat, Longest(longest), Dearest(dearest),
         w.used + (1 + 2 * longest) * dearest < 2 ^ WordSize
  PROVE  LET after == SavePair(w, pair, p) IN
         /\ after.used <= w.used + (1 + 2 * longest) * dearest
         /\ after.used - w.used >= (SizeOf(after.store) - SizeOf(w.store)) * PerByte
         /\ SizeOf(after.store) \in Int /\ SizeOf(w.store) \in Int
<1> DEFINE f == "SaveKeyValue"
           old == w.store[pair.key]
           new == LengthOf[pair.value]
           growth == LengthOf[pair.value] - LengthOf[old]
           grown == IF growth > 0 THEN growth ELSE 0
           persist == Price(f, "PersistPerByte")
           kept == AsWord(w.used + (1 + new) * persist)
           used == AsWord(kept + PerByte * grown)
           stored == [w.store EXCEPT ![pair.key] = pair.value]
           after == SavePair(w, pair, p)
<1>1. /\ pair.key \in Keys /\ pair.value \in Values \cup {NoValue}
      /\ w.store \in [Keys -> Values \cup {NoValue}] /\ w.used \in Nat
      /\ w = [ok |-> w.ok, used |-> w.used, store |-> w.store]
  BY DEF Work, Pair
<1>2. old \in Values \cup {NoValue}
  BY <1>1
<1>3. new \in Nat /\ LengthOf[old] \in Nat /\ new <= longest
  <2>1. \A v \in Values \cup {NoValue} : LengthOf[v] \in Nat /\ LengthOf[v] <= longest
    BY LengthType, AccountAssumption DEF Longest
  <2> QED
    BY <1>1, <1>2, <2>1
<1>4. persist \in Nat /\ PerByte \in Nat /\ persist <= dearest /\ PerByte <= dearest
  <2>1. schedule \in [Functions -> DOMAIN Schedules] /\ f \in Functions
    BY DEF TypeOK, Functions
  <2>2. "PersistPerByte" \in Priced /\ "StorePerByte" \in Priced
    BY DEF Priced
  <2> QED
    BY <2>1, <2>2, PriceType DEF PerByte, Dearest
<1>5. growth \in Int /\ growth = new - LengthOf[old] /\ grown \in Nat
      /\ grown >= growth /\ grown <= longest
  BY <1>3
<1>6. /\ SizeOf(w.store) \in Int
      /\ SizeOf(stored) = SizeOf(w.store) + growth
  BY <1>1, <1>3, SizeChange
<1>7. /\ after.used = (IF old = pair.value THEN kept ELSE used)
      /\ after.store = (IF old = pair.value THEN w.store ELSE stored)
  <2>1. CASE old = pair.value
    BY <1>1, <2>1 DEF SavePair
  <2>2. CASE old # pair.value
    BY <1>1, <2>2 DEF SavePair, PerByte
  <2> QED
    BY <2>1, <2>2
<1> DEFINE first == (1 + new) * persist
           second == PerByte * grown
           step == (1 + 2 * longest) * dearest
<1>8. /\ first \in Nat /\ second \in Nat /\ step \in Nat
      /\ first + second <= step
  <2>1. first \in Nat /\ first <= (1 + longest) * dearest
    <3>1. 1 + new \in Nat /\ 1 + longest \in Nat /\ 1 + new <= 1 + longest
      BY <1>3
    <3> QED
      BY <1>4, <3>1, NatProducts
  <2>2. second \in Nat /\ second <= dearest * longest
    BY <1>4, <1>5, NatProducts
  <2>3. step = (1 + longest) * dearest + dearest * longest /\ step \in Nat
    OBVIOUS
  <2>4. (1 + longest) * dearest \in Int /\ dearest * longest \in Int
    OBVIOUS
  <2> HIDE DEF first, second, step
  <2> QED
    BY <2>1, <2>2, <2>3, <2>4
<1>9. w.used + step < 2 ^ WordSize /\ 2 ^ WordSize \in Nat
  BY AccountAssumption
<1>10. second >= growth * PerByte /\ growth * PerByte \in Int
  <2>1. (grown - growth) * PerByte >= 0
    BY <1>4, <1>5
  <2>2. second = grown * PerByte
    BY <1>4, <1>5
  <2> HIDE DEF second, growth, grown
  <2> QED
    BY <1>4, <1>5, <2>1, <2>2
<1>11. kept = w.used + first
  <2> HIDE DEF first, second, step
  <2>1. w.used + first \in Word /\ w.used + first \in Int
    BY <1>1, <1>8, <1>9 DEF Word
  <2> QED
    BY <2>1, WordProperties DEF first
<1>12. used = w.used + first + second
  <2> HIDE DEF first, second, step, kept
  <2>1. kept + second \in Word /\ kept + second \in Int
    BY <1>1, <1>8, <1>9, <1>11 DEF Word
  <2> QED
    BY <1>1, <1>8, <1>11, <2>1, WordProperties DEF second
<1> HIDE DEF first, second, step, kept, used, growth, grown, stored, after
<1>13. CASE old = pair.value
  <2>1. after.used = w.used + first /\ after.store = w.store
    BY <1>7, <1>11, <1>13
  <2>2. (SizeOf(w.store) - SizeOf(w.store)) * PerByte = 0
    BY <1>4, <1>6
  <2> QED
    BY <1>1, <1>6, <1>8, <2>1, <2>2 DEF after, step
<1>14. CASE old # pair.value
  <2>1. after.used = w.used + first + second /\ after.store = stored
    BY <1>7, <1>12, <1>14
  <2>2. SizeOf(stored) - SizeOf(w.store) = growth /\ SizeOf(stored) \in Int
    BY <1>5, <1>6
  <2>3. after.used - w.used >= growth * PerByte /\ after.used <= w.used + step
    BY <1>1, <1>8, <1>10, <2>1
  <2> QED
    BY <1>6, <2>1, <2>2, <2>3 DEF after, step
<1> QED
  BY <1>13, <1>14

(* Along the pairs of a call: what is used stays within a word and pays    *)
(* for all growth so far.                                                  *)
LEMMA PairsPaid ==
  ASSUME TypeOK, CallsFitWord, NEW a \in Savers, NEW pairs \in Pairs, NEW p \in Nat
  PROVE  LET saved == Saved(a, pairs, p) IN
         /\ saved.used >= (SizeOf(saved.store) - SizeOf(store[a])) * PerByte
         /\ SizeOf(saved.store) \in Int /\ SizeOf(store[a]) \in Int
<1>1. PICK longest \in Nat, dearest \in Nat :
        /\ Longest(longest) /\ Dearest(dearest)
        /\ dearest + MaxPairs * ((1 + 2 * longest) * dearest) < 2 ^ WordSize
  BY DEF CallsFitWord
<1> DEFINE n == Len(pairs)
           step == (1 + 2 * longest) * dearest
           size == SizeOf(store[a])
<1>2. pairs \in Seq(Pair) /\ n \in Nat /\ n <= MaxPairs /\ MaxPairs \in Nat
      /\ IsFiniteSet(Keys)
  <2>1. MaxPairs \in Nat /\ IsFiniteSet(Keys)
    BY DEF CallsFitWord
  <2>2. PICK k \in 0..MaxPairs : pairs \in [1..k -> Pair]
    BY DEF Pairs, BoundedSeq, SeqOf
  <2>3. k \in Nat /\ k <= MaxPairs
    BY <2>1
  <2>4. pairs \in Seq(Pair) /\ n = k
    BY <2>2, <2>3
  <2> QED
    BY <2>1, <2>3, <2>4
<1>3. PICK path \in [0..n -> Work] :
        /\ path[0] = Unsaved(a) /\ path[n] = Saved(a, pairs, p)
        /\ \A i \in 1..n : path[i] = SavePair(path[i - 1], pairs[i], p)
  BY <1>2, SavedPath
<1>4. PerByte \in Nat /\ Cost("SaveKeyValue") \in Nat /\ Cost("SaveKeyValue") <= dearest
  <2>1. schedule \in [Functions -> DOMAIN Schedules] /\ "SaveKeyValue" \in Functions
    BY DEF TypeOK, Functions
  <2>2. "SaveKeyValue" \in Priced /\ "StorePerByte" \in Priced
    BY DEF Priced, Functions
  <2> QED
    BY <1>1, <2>1, <2>2, PriceType, CostType DEF PerByte, Dearest
<1>5. size \in Int
  <2>1. store[a] \in [Keys -> Values \cup {NoValue}]
    BY DEF TypeOK
  <2>2. Lengths(store[a]) \in [Keys -> Int]
    BY <2>1, LengthType
  <2> QED
    BY <1>2, <2>2, SizeIsSum, SumType
<1>6. step \in Nat
  OBVIOUS
<1> DEFINE due(k) == k * step
           worth(kv) == (SizeOf(kv) - size) * PerByte
           Paid(i) == /\ path[i].used \in Nat /\ path[i].used <= dearest + due(i)
                      /\ SizeOf(path[i].store) \in Int
                      /\ path[i].used >= worth(path[i].store)
           G == {i \in 0..n : Paid(i)}
<1>7. 0 \in G
  <2>1. path[0].used = Cost("SaveKeyValue") /\ path[0].store = store[a]
    BY <1>3 DEF Unsaved
  <2>2. worth(store[a]) = 0 /\ due(0) = 0
    BY <1>4, <1>5, <1>6
  <2> HIDE DEF step, worth, due
  <2>3. Paid(0)
    BY <1>4, <1>5, <2>1, <2>2
  <2>4. 0 \in 0..n
    BY <1>2
  <2> QED
    BY <2>3, <2>4
<1>8. ASSUME NEW i \in 1..n, i - 1 \in G
      PROVE  i \in G
  <2> DEFINE j == i - 1
  <2>1. j \in Nat /\ j \in 0..n /\ i \in 0..n /\ i = j + 1 /\ i \in Nat /\ i <= MaxPairs
    BY <1>2
  <2>2. PICK w \in Work : w = path[j]
    BY <1>3, <2>1
  <2>3. pairs[i] \in Pair
    BY <1>2
  <2>4. /\ w.used \in Nat /\ w.used <= dearest + due(j)
        /\ SizeOf(w.store) \in Int /\ w.used >= worth(w.store)
    BY <1>8, <2>2
  <2>5. /\ due(j) \in Nat /\ due(i) = due(j) + step
        /\ due(MaxPairs) \in Nat /\ due(i) <= due(MaxPairs)
    <3> HIDE DEF step, j
    <3>1. due(i) <= due(MaxPairs)
      BY <1>2, <1>6, <2>1, NatProducts
    <3>2. due(i) = due(j) + step /\ due(j) \in Nat /\ due(MaxPairs) \in Nat
      BY <1>2, <1>6, <2>1
    <3> QED
      BY <3>1, <3>2
  <2>6. dearest + due(MaxPairs) < 2 ^ WordSize /\ 2 ^ WordSize \in Nat
    BY <1>1, AccountAssumption
  <2> DEFINE after == SavePair(w, pairs[i], p)
  <2>7. path[i] = after /\ after \in Work
    BY <1>3, <2>2, <2>3, SavePairType
  <2>8. after.used \in Nat
    BY <2>7 DEF Work
  <2>9. w.used + step <= dearest + due(i) /\ w.used + step < 2 ^ WordSize
    <3> HIDE DEF step, due
    <3>0. due(i) \in Nat
      BY <1>6, <2>5
    <3>1. PICK before \in Nat : before = due(j)
      BY <2>5
    <3>4. PICK now \in Nat : now = due(i)
      BY <3>0
    <3>5. PICK most \in Nat : most = due(MaxPairs)
      BY <2>5
    <3>6. PICK one \in Nat : one = step
      BY <1>6
    <3>7. PICK limit \in Nat : limit = 2 ^ WordSize
      BY <2>6
    <3>2. /\ w.used \in Nat /\ w.used <= dearest + before /\ now = before + one
          /\ now <= most /\ dearest + most < limit
      BY <2>4, <2>5, <2>6, <3>1, <3>4, <3>5, <3>6, <3>7
    <3>3. w.used + one <= dearest + now /\ w.used + one < limit
      BY <3>2
    <3> QED
      BY <3>3, <3>4, <3>6, <3>7
  <2>10. /\ after.used <= w.used + step
         /\ after.used - w.used >= (SizeOf(after.store) - SizeOf(w.store)) * PerByte
         /\ SizeOf(after.store) \in Int
    BY <1>1, <1>2, <2>3, <2>9, PairPaid
  <2> HIDE DEF after, step, due
  <2>11. PICK x \in Int, y \in Int : x = SizeOf(after.store) /\ y = SizeOf(w.store)
    BY <2>4, <2>10
  <2>12. /\ (x - size) * PerByte = (x - y) * PerByte + (y - size) * PerByte
         /\ (x - size) * PerByte \in Int /\ (x - y) * PerByte \in Int
         /\ (y - size) * PerByte \in Int
    <3> HIDE DEF size
    <3> QED
      BY <1>4, <1>5
  <2>13. worth(after.store) = (x - y) * PerByte + worth(w.store) /\ (x - y) * PerByte \in Int
         /\ worth(w.store) \in Int
    BY <2>11, <2>12
  <2>14. after.used - w.used >= (x - y) * PerByte
    BY <2>10, <2>11
  <2> HIDE DEF worth
  <2>15. after.used >= worth(after.store)
    <3>1. PICK more \in Int, before \in Int :
            more = (x - y) * PerByte /\ before = worth(w.store)
      BY <2>13
    <3>2. after.used - w.used >= more /\ w.used >= before
      BY <2>4, <2>14, <3>1
    <3>3. after.used >= more + before
      BY <2>4, <2>8, <3>2
    <3> QED
      BY <2>13, <3>1, <3>3
  <2>16. after.used <= dearest + due(i)
    <3>1. PICK one \in Nat, now \in Nat : one = step /\ now = due(i)
      BY <1>6, <2>5
    <3>2. w.used + one <= dearest + now /\ after.used <= w.used + one
      BY <2>9, <2>10, <3>1
    <3>3. after.used <= dearest + now
      BY <2>4, <2>8, <3>2
    <3> QED
      BY <3>1, <3>3
  <2>17. Paid(i)
    BY <2>7, <2>8, <2>10, <2>15, <2>16
  <2> QED
    BY <2>1, <2>17
<1> HIDE DEF G
<1>9. n \in G
  <2>1. \A i \in 0..n : i \in G
    BY <1>2, <1>7, <1>8, IndexInduction
  <2> QED
    BY <1>2, <2>1
<1> QED
  BY <1>3, <1>5, <1>9 DEF G

LEMMA SavePays ==
  ASSUME TypeInv, CallsFitWord, FixGasRemaining, NEW a \in Accounts, NEW p \in Nat,
         NEW pairs \in Pairs, SaveKeyValue(a, pairs, p),
         NEW b \in Savers
  PROVE  LET growth == SizeOf(store'[b]) - SizeOf(store[b]) IN
         growth > 0 => gas - gas' >= growth * PerByte
<1> DEFINE saved == Saved(a, pairs, p)
           left == p - saved.used
<1>1. /\ a \in Savers /\ CanSubtract(p, saved.used)
      /\ store' = [store EXCEPT ![a] = saved.store]
      /\ Spend(p, AsWord(left))
  BY DEF SaveKeyValue
<1>2. /\ saved.used >= (SizeOf(saved.store) - SizeOf(store[a])) * PerByte
      /\ SizeOf(saved.store) \in Int /\ SizeOf(store[a]) \in Int
  BY <1>1, PairsPaid DEF TypeInv
<1>3. saved \in Work
  <2>1. pairs \in Seq(Pair)
    BY PairsAreSequences
  <2> QED
    BY <1>1, <2>1, SavedType DEF TypeInv
<1>4. p >= saved.used
  BY <1>1 DEF CanSubtract
<1>5. PerByte \in Nat
  <2>1. schedule \in [Functions -> DOMAIN Schedules] /\ "SaveKeyValue" \in Functions
    BY DEF TypeInv, TypeOK, Functions
  <2> QED
    BY <2>1, PriceType DEF PerByte, Priced
<1> HIDE DEF saved
<1>6. saved.used \in Nat
  BY <1>3 DEF Work
<1>7. left \in Nat /\ left <= p /\ left = p - saved.used
  BY <1>4, <1>6
<1> HIDE DEF left
<1>8. p <= gas /\ gas \in Word /\ Word \subseteq Nat
  BY <1>1, WordProperties DEF TypeInv, TypeOK, Spend
<1>9. left \in Word
  BY <1>7, <1>8, AccountAssumption DEF Word
<1>10. AsWord(left) = left
  BY <1>7, <1>9, WordProperties
<1>11. gas' = gas - p + left
  <2>1. left \in 0..p /\ Spend(p, left)
    BY <1>1, <1>7, <1>10
  <2> QED
    BY <2>1, SpendType DEF TypeInv
<1>12. gas - gas' = saved.used
  BY <1>6, <1>7, <1>8, <1>11
<1>13. store \in [Savers -> [Keys -> Values \cup {NoValue}]]
  BY DEF TypeInv, TypeOK
<1>14. CASE b = a
  <2>1. store'[b] = saved.store
    BY <1>1, <1>13, <1>14
  <2> QED
    BY <1>2, <1>12, <1>14, <2>1
<1>15. CASE b # a
  <2>1. store'[b] = store[b]
    BY <1>1, <1>13, <1>15
  <2>2. SizeOf(store[b]) \in Int
    <3>1. store[b] \in [Keys -> Values \cup {NoValue}] /\ IsFiniteSet(Keys)
      BY <1>13 DEF CallsFitWord
    <3>2. Lengths(store[b]) \in [Keys -> Int]
      BY <3>1, LengthType
    <3> QED
      BY <3>1, <3>2, SizeIsSum, SumType
  <2> QED
    BY <2>1, <2>2
<1> QED
  BY <1>14, <1>15

(* When the calls fit in a word, what a call pays covers the price of each *)
(* byte by which its account's storage grows, for lists of any length and  *)
(* any keys: it does not help to name a key twice, or to store what is     *)
(* there already.                                                          *)
THEOREM StoragePaidHolds == ASSUME CallsFitWord PROVE Spec => StoragePaid
<1> DEFINE Growth(b) == SizeOf(store'[b]) - SizeOf(store[b])
           Goal == \A a \in Savers :
             LET growth == SizeOf(store'[a]) - SizeOf(store[a]) IN
             FixGasRemaining /\ growth > 0
               => gas - gas' >= growth * Price("SaveKeyValue", "StorePerByte")
<1>1. TypeInv /\ [Next]_vars => [Goal]_vars
  <2> SUFFICES ASSUME TypeInv, Next, FixGasRemaining, NEW b \in Savers, Growth(b) > 0
               PROVE  gas - gas' >= Growth(b) * Price("SaveKeyValue", "StorePerByte")
    OBVIOUS
  <2>1. CASE store' = store
    <3>1. SizeOf(store[b]) \in Int
      <4>1. store[b] \in [Keys -> Values \cup {NoValue}] /\ IsFiniteSet(Keys)
        BY DEF CallsFitWord, TypeInv, TypeOK
      <4>2. Lengths(store[b]) \in [Keys -> Int]
        BY <4>1, LengthType
      <4> QED
        BY <4>1, <4>2, SizeIsSum, SumType
    <3>2. store'[b] = store[b]
      BY <2>1
    <3>3. Growth(b) = 0
      BY <3>1, <3>2
    <3> QED
      BY <3>3
  <2>2. ASSUME NEW a \in Accounts, NEW p \in Provided["SaveKeyValue"], NEW pairs \in Pairs,
               SaveKeyValue(a, pairs, p)
        PROVE  gas - gas' >= Growth(b) * Price("SaveKeyValue", "StorePerByte")
    <3>1. p \in Nat
      BY AccountSets DEF Functions
    <3> QED
      BY <2>2, <3>1, SavePays DEF PerByte
  <2>3. store' = store \/ \E a \in Accounts, p \in Provided["SaveKeyValue"], pairs \in Pairs :
                            SaveKeyValue(a, pairs, p)
    BY ZenonT(60) DEF Next, CallStep, NodeStep, storageVars, SetUserName,
       DeleteUserName, ClaimDeveloperRewards, ClaimAcross, ChangeOwnerAddress,
       Deliver, ArriveName, ArriveClaim, ArriveOwner, ArriveTransfer,
       Fail, NextTransaction, EarnRewards, SetNewGasConfig, NextEpoch
  <2> QED
    BY <2>1, <2>2, <2>3
<1>2. StoragePaid <=> [][Goal]_vars
  BY DEF StoragePaid
<1> QED
  BY <1>1, <1>2, TypeInvHolds, PTL DEF Spec

-----------------------------------------------------------------------------
(* What a user name costs.  A message has paid for its call, or was sent   *)
(* before the flag that moves the charge to the sender's shard and takes   *)
(* all that was given; a flag that is active stays so (flags.go compares   *)
(* the current epoch with the epoch of activation).                        *)

FlagStays ==
  \A e1, e2 \in DOMAIN EpochFlags :
    e1 <= e2 /\ "ChangeUsernameFlag" \in EpochFlags[e1]
      => "ChangeUsernameFlag" \in EpochFlags[e2]

NetCharged(n) == \A i \in DOMAIN n : Charged(n[i])

LEMMA ChargedStays ==
  ASSUME FlagStays, TypeInv, TypeInv', [Next]_vars
  PROVE  NetCharged(net') => NetCharged(net)'
<1>1. epoch' = epoch \/ NextEpoch
  BY ZenonT(60) DEF Next, CallStep, NodeStep, vars, nodeVars, SaveKeyValue, SetUserName,
     DeleteUserName, ClaimDeveloperRewards, ClaimAcross, ChangeOwnerAddress,
     Deliver, ArriveName, ArriveClaim, ArriveOwner, ArriveTransfer,
     Fail, NextTransaction, EarnRewards, SetNewGasConfig
<1>2. epoch \in DOMAIN EpochFlags /\ epoch' \in DOMAIN EpochFlags /\ epoch <= epoch'
  <2>1. epoch \in DOMAIN EpochFlags /\ epoch' \in DOMAIN EpochFlags
    BY DEF TypeInv, TypeOK
  <2>2. epoch \in Nat
    BY <2>1, AccountSets
  <2> QED
    BY <1>1, <2>1, <2>2 DEF NextEpoch
<1>3. ChangeUsername => ChangeUsername'
  BY <1>2 DEF FlagStays, ChangeUsername, Active
<1>4. ASSUME NEW m, Charged(m) PROVE Charged(m)'
  BY <1>3, <1>4 DEF Charged
<1> QED
  BY <1>4 DEF NetCharged

LEMMA ChargedRemoved ==
  ASSUME TypeInv, NetCharged(net), NEW i \in DOMAIN net
  PROVE  NetCharged(RemoveAt(net, i))
<1> DEFINE r == RemoveAt(net, i)
<1>1. net \in Seq(Message) /\ Len(net) \in Nat /\ DOMAIN net = 1..Len(net)
  BY DEF TypeInv, TypeOK
<1>2. /\ r \in Seq(Message) /\ Len(r) = Len(net) - 1
      /\ \A j \in 1..(Len(net) - 1) : r[j] = IF j < i THEN net[j] ELSE net[j + 1]
  BY <1>1, RemoveAtProperties
<1> HIDE DEF r
<1>3. ASSUME NEW j \in DOMAIN r PROVE Charged(r[j])
  <2>1. j \in 1..(Len(net) - 1)
    BY <1>2
  <2>2. j \in DOMAIN net /\ j + 1 \in DOMAIN net
    BY <1>1, <2>1
  <2> QED
    BY <1>2, <2>1, <2>2 DEF NetCharged
<1> QED
  BY <1>3 DEF NetCharged, r

LEMMA ChargedAppended ==
  ASSUME NEW n \in Seq(Message), NetCharged(n), NEW m \in Message, Charged(m)
  PROVE  NetCharged(Append(n, m))
<1>1. Len(n) \in Nat /\ DOMAIN n = 1..Len(n)
  OBVIOUS
<1>2. /\ DOMAIN Append(n, m) = 1..(Len(n) + 1)
      /\ Append(n, m)[Len(n) + 1] = m
      /\ \A i \in 1..Len(n) : Append(n, m)[i] = n[i]
  BY AppendProperties
<1>3. ASSUME NEW i \in 1..(Len(n) + 1) PROVE Charged(Append(n, m)[i])
  <2>1. i = Len(n) + 1 \/ i \in 1..Len(n)
    BY <1>1
  <2> QED
    BY <1>1, <1>2, <2>1 DEF NetCharged
<1> QED
  BY <1>2, <1>3 DEF NetCharged

(* How a step changes the messages: a call sends at most one, and a step   *)
(* of the node removes one and adds at most a transfer.                    *)
LEMMA CallNet ==
  ASSUME TypeInv, CallStep
  PROVE  net' = net \/ CallEffect
<1>0. \A f \in Functions : \A p \in Provided[f] : p \in Nat
  BY AccountSets
<1> QED
  BY <1>0, SetUserNameEffect, DeleteUserNameEffect, ClaimDeveloperRewardsEffect,
     ClaimAcrossEffect, ChangeOwnerAddressEffect
     DEF CallStep, Functions, SaveKeyValue

LEMMA StepCharged ==
  ASSUME TypeInv, NetCharged(net), [Next]_vars
  PROVE  NetCharged(net')
<1>1. net \in Seq(Message)
  BY DEF TypeInv, TypeOK
<1>2. CASE net' = net
  BY <1>2
<1>3. CASE CallStep
  BY <1>1, <1>2, <1>3, CallNet, ChargedAppended DEF CallEffect
<1>4. ASSUME NEW i \in DOMAIN net, Fail(i) PROVE NetCharged(net')
  BY <1>4, ChargedRemoved DEF Fail
<1>5. ASSUME NEW i \in DOMAIN net, Deliver(i) PROVE NetCharged(net')
  <2>1. NetCharged(RemoveAt(net, i)) /\ RemoveAt(net, i) \in Seq(Message)
    BY ChargedRemoved, NetRemoved DEF TypeInv, NetTyped
  <2>2. ASSUME NEW m \in Message, net' = Append(RemoveAt(net, i), m),
               m.function = "Transfer"
        PROVE  NetCharged(net')
    <3>1. Charged(m)
      BY <2>2 DEF Charged, NameFunctions
    <3> QED
      BY <2>1, <2>2, <3>1, ChargedAppended
  <2> QED
    BY <1>5, <2>1, <2>2, NetDelivered DEF Deliver
<1>6. CASE NextTransaction \/ EarnRewards \/ NextEpoch \/ UNCHANGED vars
           \/ \E f \in Functions, i \in DOMAIN Schedules : SetNewGasConfig(f, i)
  BY <1>2, <1>6 DEF NextTransaction, EarnRewards, NextEpoch, SetNewGasConfig, vars
<1> QED
  BY <1>3, <1>4, <1>5, <1>6 DEF Next, NodeStep

(* What the two halves took: the destination's half either leaves all that *)
(* it was given or takes the price of its moment, by the flag.             *)
Charge(m) == AsWord(m.given - (gas' - gas))

OnePrice(m) ==
  IF m.early
    THEN Charge(m) = IF ChangeUsername THEN 0 ELSE AsWord(Cost("SetUserName"))
    ELSE \E s \in DOMAIN Schedules : Charge(m) = AsWord(Schedules[s][m.function])

LEMMA NameCharge ==
  ASSUME TypeInv, NetCharged(net), NEW i \in DOMAIN net,
         net[i].function \in NameFunctions, ArriveName(net[i])
  PROVE  OnePrice(net[i])
<1> DEFINE m == net[i]
           f == m.function
           left == NameGasLeft(m)
<1>1. m \in Message /\ Charged(m)
  BY NetRemoved DEF TypeInv, NetCharged
<1>2. m.gas \in Word /\ m.given \in Word /\ gas \in Word
  BY <1>1 DEF Message, TypeInv, TypeOK
<1>3. m.gas \in Int /\ m.given \in Int /\ gas \in Int
  <2>1. \A x \in Word : x \in Int
    BY WordProperties
  <2> HIDE DEF m
  <2> QED
    BY <1>2, <2>1
<1>4. Cost("SetUserName") \in Int
  BY CostType DEF TypeInv, TypeOK, Functions
<1>5. gas' = AsWord(gas + left)
  BY DEF ArriveName, GiveBack
<1>6. ASSUME left \in Int PROVE Charge(m) = AsWord(m.given - left)
  BY <1>3, <1>5, <1>6, WordDifference DEF Charge
<1>7. CASE m.early
  <2>1. f = "SetUserName" /\ m.gas = m.given
    BY <1>1, <1>7 DEF Charged
  <2>2. CASE ChangeUsername
    <3>1. left = m.gas
      BY <2>2 DEF NameGasLeft
    <3>2. Charge(m) = AsWord(0)
      <4>1. m.given - left = 0
        BY <1>3, <2>1, <3>1
      <4> HIDE DEF left, m
      <4> QED
        BY <1>3, <1>6, <3>1, <4>1
    <3>3. AsWord(0) = 0
      BY WordProperties, AccountAssumption DEF Word
    <3> QED
      BY <1>7, <2>2, <3>2, <3>3 DEF OnePrice
  <2>3. CASE ~ChangeUsername
    <3>1. left = AsWord(m.given - Cost("SetUserName"))
      BY <2>1, <2>3 DEF NameGasLeft
    <3>2. left \in Int
      BY <1>3, <1>4, <3>1, AsWordType
    <3>3. AsWord(m.given - left) = AsWord(Cost("SetUserName"))
      BY <1>3, <1>4, <3>1, WordCost
    <3> QED
      BY <1>6, <1>7, <2>3, <3>2, <3>3 DEF OnePrice
  <2> QED
    BY <2>2, <2>3
<1>8. CASE ~m.early
  <2>1. PICK s \in DOMAIN Schedules : m.given - m.gas = Schedules[s][f]
    BY <1>1, <1>8 DEF Charged
  <2>2. left = m.gas
    BY <1>1, <1>8 DEF Charged, NameGasLeft
  <2>3. Charge(m) = AsWord(Schedules[s][f])
    BY <1>3, <1>6, <2>1, <2>2
  <2> QED
    BY <1>8, <2>3 DEF OnePrice
<1> QED
  BY <1>7, <1>8

(* From the sender's half to the destination's, setting or deleting a user *)
(* name takes exactly the price of one call, for every schedule and every  *)
(* time at which it changes between the halves; and exactly nothing when   *)
(* the name was sent before ChangeUsernameFlag and arrives after it.       *)
THEOREM NameCostsOnceHolds ==
  ASSUME FlagStays
  PROVE  Spec => NameCostsOnce
<1> DEFINE Goal ==
      \A i \in DOMAIN net :
        LET m == net[i]
            charge == AsWord(m.given - (gas' - gas)) IN
        /\ m.function \in {"SetUserName", "DeleteUserName"}
        /\ net' = RemoveAt(net, i) /\ userName' # userName
        => IF m.early
             THEN charge = IF ChangeUsername THEN 0 ELSE AsWord(Cost("SetUserName"))
             ELSE \E s \in DOMAIN Schedules :
                    charge = AsWord(Schedules[s][m.function])
<1>1. TypeInv /\ NetCharged(net) /\ [Next]_vars => [Goal]_vars
  <2> SUFFICES ASSUME TypeInv, NetCharged(net), Next, NEW i \in DOMAIN net,
                      net[i].function \in NameFunctions,
                      net' = RemoveAt(net, i), userName' # userName
               PROVE  OnePrice(net[i])
    BY DEF NameFunctions, OnePrice, Charge
  <2>1. net \in Seq(Message) /\ Len(net) \in Nat /\ DOMAIN net = 1..Len(net)
    BY DEF TypeInv, TypeOK
  <2>2. Len(net') = Len(net) - 1
    BY <2>1, RemoveAtProperties
  <2>3. ~CallStep
    <3>1. \A m \in Message : Len(Append(net, m)) = Len(net) + 1
      BY <2>1
    <3> QED
      BY <2>1, <2>2, <3>1, CallNet DEF CallEffect
  <2>4. PICK j \in DOMAIN net : Deliver(j)
    BY <2>3 DEF Next, NodeStep, Fail, SetNewGasConfig, NextTransaction,
       EarnRewards, NextEpoch, nameVars
  <2>5. net[j].function \in NameFunctions /\ ArriveName(net[j])
    BY <2>4 DEF Deliver, NameFunctions, ArriveClaim, ArriveOwner, ArriveTransfer,
       nameVars
  <2>6. net' = RemoveAt(net, j)
    BY <2>4, <2>5, NetDelivered DEF Deliver, NameFunctions
  <2>7. net[i] = net[j]
    BY <2>1, <2>6, RemoveAtSame
  <2> QED
    BY <2>5, <2>7, NameCharge
<1>2. NameCostsOnce <=> [][Goal]_vars
  BY DEF NameCostsOnce
<1>3. Init => NetCharged(net)
  BY DEF Init, NetCharged
<1>4. TypeInv /\ TypeInv' /\ NetCharged(net) /\ [Next]_vars => NetCharged(net)'
  BY StepCharged, ChargedStays
<1> QED
  BY <1>1, <1>2, <1>3, <1>4, TypeInvHolds, PTL DEF Spec

=============================================================================
