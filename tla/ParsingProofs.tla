--------------------------- MODULE ParsingProofs ---------------------------
(***************************************************************************)
(* What the parsers read is what is executed, for any data that users send *)
(* and any accounts, shards and sizes of words.                            *)
(***************************************************************************)
EXTENDS TransferParsing, SumTheorems

-----------------------------------------------------------------------------
(* Triples in a row *)

\* The triples of s, one after the other
InARow(s, n) ==
  [x \in 1..(3 * n) |-> s[(x + 2) \div 3][x + 3 - 3 * ((x + 2) \div 3)]]

LEMMA ThirdsOf ==
  ASSUME NEW x \in Nat \ {0}
  PROVE  /\ (x + 2) \div 3 \in Nat \ {0}
         /\ x + 3 - 3 * ((x + 2) \div 3) \in 1..3
         /\ \A n \in Nat : x <= 3 * n <=> (x + 2) \div 3 <= n
OBVIOUS

LEMMA InARowType ==
  ASSUME NEW T, NEW s, NEW n \in Nat,
         \A k \in 1..n : s[k] \in Seq(T) /\ Len(s[k]) = 3
  PROVE  InARow(s, n) \in Seq(T) /\ Len(InARow(s, n)) = 3 * n
<1>1. ASSUME NEW x \in 1..(3 * n)
      PROVE  s[(x + 2) \div 3][x + 3 - 3 * ((x + 2) \div 3)] \in T
  <2> DEFINE k == (x + 2) \div 3
             j == x + 3 - 3 * k
  <2>1. k \in 1..n /\ j \in 1..3
    BY ThirdsOf
  <2> HIDE DEF k, j
  <2>2. s[k] \in Seq(T) /\ Len(s[k]) = 3
    BY <2>1
  <2>3. s[k][j] \in T
    BY <2>1, <2>2, ElementOfSeq
  <2> QED BY <2>3 DEF k, j
<1> DEFINE a == InARow(s, n)
<1>2. 3 * n \in Nat /\ a \in [1..(3 * n) -> T]
  BY <1>1 DEF InARow
<1> HIDE DEF a
<1>3. a \in Seq(T) /\ Len(a) = 3 * n
  BY <1>2, IsASeq
<1> QED BY <1>3 DEF a

LEMMA InARowGrows ==
  ASSUME NEW T, NEW s, NEW n \in Nat \ {0},
         \A k \in 1..n : s[k] \in Seq(T) /\ Len(s[k]) = 3
  PROVE  InARow(s, n) = InARow(s, n - 1) \o s[n]
<1> DEFINE a == InARow(s, n)
           b == InARow(s, n - 1)
<1>2. a \in Seq(T) /\ Len(a) = 3 * n /\ b \in Seq(T) /\ Len(b) = 3 * (n - 1)
  <2>1. n - 1 \in Nat /\ \A k \in 1..(n - 1) : s[k] \in Seq(T) /\ Len(s[k]) = 3
    OBVIOUS
  <2> QED BY <2>1, InARowType
<1>3. s[n] \in Seq(T) /\ Len(s[n]) = 3
  OBVIOUS
<1> DEFINE c == b \o s[n]
<1>4. /\ c \in Seq(T) /\ Len(c) = 3 * n
      /\ \A x \in 1..Len(c) : c[x] = IF x <= Len(b) THEN b[x] ELSE s[n][x - Len(b)]
  <2> DEFINE d == s[n]
  <2> HIDE DEF a, b, d
  <2>1. Len(b) + Len(d) = 3 * n /\ b \in Seq(T) /\ d \in Seq(T)
    BY <1>2, <1>3 DEF d
  <2>2. /\ b \o d \in Seq(T) /\ Len(b \o d) = Len(b) + Len(d)
        /\ \A x \in 1..(Len(b) + Len(d)) :
             (b \o d)[x] = IF x <= Len(b) THEN b[x] ELSE d[x - Len(b)]
    BY <2>1, ConcatProperties
  <2> QED BY <2>1, <2>2 DEF d
<1>5. ASSUME NEW x \in 1..(3 * n) PROVE a[x] = c[x]
  <2>1. a[x] = s[(x + 2) \div 3][x + 3 - 3 * ((x + 2) \div 3)]
    BY DEF InARow
  <2>2. CASE x <= 3 * (n - 1)
    <3>1. x \in 1..(3 * (n - 1))
      BY <2>2
    <3>2. b[x] = s[(x + 2) \div 3][x + 3 - 3 * ((x + 2) \div 3)]
      BY <3>1 DEF InARow
    <3> HIDE DEF a, b, c
    <3> QED BY <1>2, <1>4, <2>1, <2>2, <3>2
  <2>3. CASE x > 3 * (n - 1)
    <3>1. (x + 2) \div 3 = n /\ x + 3 - 3 * n = x - 3 * (n - 1)
      BY <2>3
    <3>2. a[x] = s[n][x - 3 * (n - 1)]
      BY <2>1, <3>1
    <3> HIDE DEF a, b, c
    <3>3. ~(x <= Len(b)) /\ Len(b) = 3 * (n - 1) /\ x \in 1..Len(c)
      BY <1>2, <1>4, <2>3
    <3>4. c[x] = s[n][x - Len(b)]
      BY <1>4, <3>3
    <3> QED BY <3>2, <3>3, <3>4
  <2>4. x <= 3 * (n - 1) \/ x > 3 * (n - 1)
    OBVIOUS
  <2> HIDE DEF a, b, c
  <2> QED BY <2>2, <2>3, <2>4
<1> HIDE DEF a, b, c
<1>6. a = c
  BY <1>2, <1>4, <1>5, SeqEqual
<1> QED BY <1>6 DEF a, b, c

(* FlattenSeq puts triples in a row.                                       *)
LEMMA FlattenTriples ==
  ASSUME NEW T, NEW n \in Nat \ {0}, NEW s,
         s \in [1..n -> Seq(T)], \A k \in 1..n : Len(s[k]) = 3
  PROVE  /\ FlattenSeq(s) \in Seq(T) /\ Len(FlattenSeq(s)) = 3 * n
         /\ \A k \in 1..n, j \in 1..3 : FlattenSeq(s)[3 * (k - 1) + j] = s[k][j]
<1> DEFINE Next1(f, i) == IF i = 1 THEN s[i] ELSE f[i - 1] \o s[i]
           f == CHOOSE f : f = [i \in 1..n |-> Next1(f, i)]
           w == InARow(s, n)
<1>1. s \in Seq(Seq(T)) /\ Len(s) = n
  BY IsASeq
<1>2. FlattenSeq(s) = f[n]
  BY <1>1 DEF FlattenSeq
<1>3. \A i \in 1..n : InARow(s, i) = IF i = 1 THEN s[i] ELSE InARow(s, i - 1) \o s[i]
  <2> SUFFICES ASSUME NEW i \in 1..n
               PROVE  InARow(s, i) = IF i = 1 THEN s[i] ELSE InARow(s, i - 1) \o s[i]
    OBVIOUS
  <2>1. InARow(s, i) = InARow(s, i - 1) \o s[i]
    <3>1. i \in Nat \ {0} /\ \A k \in 1..i : s[k] \in Seq(T) /\ Len(s[k]) = 3
      OBVIOUS
    <3> QED BY <3>1, InARowGrows
  <2>2. CASE i = 1
    <3>1. InARow(s, 1) = [x \in 1..3 |-> s[1][x]]
      BY ThirdsOf DEF InARow
    <3>2. s[1] \in Seq(T) /\ Len(s[1]) = 3
      OBVIOUS
    <3>3. s[1] = [x \in 1..3 |-> s[1][x]]
      BY <3>2
    <3> QED BY <2>2, <3>1, <3>3
  <2> QED BY <2>1, <2>2
<1> DEFINE g == [i \in 1..n |-> InARow(s, i)]
<1>4. g = [i \in 1..n |-> Next1(g, i)]
  BY <1>3, SMTT(60)
<1>5. f = [i \in 1..n |-> Next1(f, i)]
  <2> HIDE DEF g
  <2> QED BY <1>4
<1> HIDE DEF f
<1>6. f[n] = w
  <2> DEFINE Same == {i \in 1..n : \A j \in 1..i : f[j] = InARow(s, j)}
  <2>1. 1 \in Same
    <3>1. f[1] = InARow(s, 1)
      BY <1>3, <1>5
    <3> QED BY <3>1
  <2>2. IsFiniteSet(Same) /\ Same \subseteq Int
    <3>1. Same \subseteq 1..n /\ IsFiniteSet(1..n)
      BY FS_Interval
    <3>2. Same \subseteq Int
      BY <3>1
    <3> HIDE DEF Same
    <3>3. IsFiniteSet(Same)
      BY <3>1, FS_Subset
    <3> QED BY <3>2, <3>3
  <2>3. ASSUME NEW i \in Same, i < n PROVE i + 1 \in Same
    <3>1. f[i] = InARow(s, i) /\ i + 1 \in 1..n /\ i + 1 # 1 /\ (i + 1) - 1 = i
      BY <2>3
    <3>2. f[i + 1] = f[i] \o s[i + 1]
      BY <1>5, <3>1
    <3>3. InARow(s, i + 1) = InARow(s, i) \o s[i + 1]
      BY <1>3, <3>1
    <3>4. \A j \in 1..(i + 1) : j \in 1..i \/ j = i + 1
      BY <2>3
    <3> QED BY <2>3, <3>1, <3>2, <3>3, <3>4
  <2> DEFINE m == Max(Same)
  <2> HIDE DEF Same
  <2>4. m \in Same /\ \A i \in Same : i <= m
    BY <2>1, <2>2, MaxProperties
  <2> HIDE DEF m
  <2>5. m \in 1..n /\ f[m] = InARow(s, m)
    BY <2>4 DEF Same
  <2>6. m = n
    BY <2>3, <2>4, <2>5
  <2> QED BY <2>5, <2>6
<1>7. w \in Seq(T) /\ Len(w) = 3 * n
  BY InARowType
<1>8. ASSUME NEW k \in 1..n, NEW j \in 1..3
      PROVE  w[3 * (k - 1) + j] = s[k][j]
  <2> DEFINE x == 3 * (k - 1) + j
  <2>1. x \in 1..(3 * n) /\ (x + 2) \div 3 = k /\ x + 3 - 3 * k = j
    OBVIOUS
  <2>2. w[x] = s[(x + 2) \div 3][x + 3 - 3 * ((x + 2) \div 3)]
    BY <2>1 DEF InARow
  <2> HIDE DEF x, w
  <2>3. w[x] = s[k][j]
    BY <2>1, <2>2
  <2> QED BY <2>3 DEF x
<1> QED BY <1>2, <1>6, <1>7, <1>8

-----------------------------------------------------------------------------
(* Numbers that fit a word                                                 *)

LEMMA ModType ==
  ASSUME NEW x \in Nat, NEW w \in Nat \ {0}
  PROVE  x % w \in 0..(w - 1)
OBVIOUS

LEMMA ModSmall ==
  ASSUME NEW x \in Nat, NEW w \in Nat \ {0}, x < w
  PROVE  x % w = x
OBVIOUS

-----------------------------------------------------------------------------
(* What users send, and what it is to read it                              *)

Arg == [number: Nat, size: Nat, unmarshals: SUBSET Nat]

TransferFunctions == {"DCDTTransfer", "DCDTNFTTransfer", "MultiDCDTNFTTransfer"}

IsSent(t) ==
  /\ t.function \in TransferFunctions
  /\ t.args \in Seq(Arg)
  /\ t.function = "MultiDCDTNFTTransfer" /\ Len(t.args) >= 2 =>
       /\ t.args[1].size = AddressLength => t.args[1].number \in Addresses
       /\ 3 * (t.args[2].number % TwoTo64) + 2 < TwoTo64

\* The transfer parser reads e in t, and the texts of the data field parser
\* say as much as it does.
Reads(t, e) ==
  LET p == Parsed(t) IN
  /\ p.ok /\ p.to = e.to /\ p.tokens = e.tokens
  /\ e.call # <<>> => p.call = e.call /\ e.to \in Contracts
  /\ \E n \in Nat \ {0} : DOMAIN e.tokens = 1..n
  /\ t.function = "DCDTNFTTransfer" =>
       /\ t.from = t.to => t.args[4].size = AddressLength
       /\ \A k \in DOMAIN e.tokens : e.tokens[k].nonce # 0

ReadRight(t, e) ==
  e.ok =>
    /\ Agrees(Parsed(t), e)
    /\ Reports(Parse(t), e) /\ Reports(ParseRelayed(t), e)
    /\ ParseRelayed(t).receivers # <<>>

LEMMA ReadIsReported ==
  ASSUME NEW t, t.function \in TransferFunctions, NEW e, Reads(t, e)
  PROVE  ReadRight(t, e)
<1> DEFINE p == Parsed(t)
           r == Reported(t, p)
           q == ParseRelayed(t)
<1>1. Agrees(p, e)
  BY DEF Agrees, Reads
<1>2. Parse(t) = r
  BY DEF Parse, Reads
<1>3. /\ r.tokens = [k \in DOMAIN e.tokens |-> ReportedToken(t, e.tokens[k])]
      /\ r.values = [k \in DOMAIN e.tokens |-> e.tokens[k].value]
      /\ r.receivers = ReceiversOf(t, p)
      /\ r.function = IF p.to \in Contracts /\ p.call # <<>> THEN <<p.call[1]>> ELSE <<>>
  BY DEF Reported, Response, Reads
<1>4. \A k \in DOMAIN e.tokens :
        ReportedToken(t, e.tokens[k]) = <<e.tokens[k].name, e.tokens[k].nonce>>
  BY DEF ReportedToken, Reads
<1>5. \/ ReceiversOf(t, p) = <<>> /\ t.function = "DCDTTransfer"
      \/ ReceiversOf(t, p) = <<e.to>> /\ t.function = "DCDTNFTTransfer"
      \/ /\ ReceiversOf(t, p) = [k \in DOMAIN e.tokens |-> e.to]
         /\ t.function = "MultiDCDTNFTTransfer"
  BY DEF ReceiversOf, Reads, TransferFunctions
<1>6. /\ q.tokens = r.tokens /\ q.values = r.values /\ q.function = r.function
      /\ q.receivers = IF t.function = "DCDTTransfer" THEN <<t.to>> ELSE r.receivers
  BY <1>2 DEF ParseRelayed, Reported, Response
<1>7. t.function = "DCDTTransfer" => p.to = t.to
  BY DEF Parsed, ParseSingleDCDTTransfer, Transfers, Failed, Reads
<1> HIDE DEF p, r, q
<1>8. /\ \A a \in Range(r.receivers) : a = e.to
      /\ \A a \in Range(q.receivers) : a = e.to
      /\ q.receivers # <<>>
  <2>1. /\ \A x : Range(<<x>>) = {x} /\ <<x>> # <<>>
        /\ Range(<<>>) = {}
    BY DEF Range
  <2>2. PICK n \in Nat \ {0} : DOMAIN e.tokens = 1..n
    BY DEF Reads
  <2> DEFINE all == [k \in DOMAIN e.tokens |-> e.to]
  <2>3. (\A a \in Range(all) : a = e.to) /\ all # <<>>
    BY <2>2 DEF Range
  <2> HIDE DEF all
  <2>4. p.to = e.to
    BY DEF Reads, p
  <2>5. r.receivers = <<>> \/ r.receivers = <<e.to>> \/ r.receivers = all
    BY <1>3, <1>5 DEF all
  <2>6. q.receivers = <<e.to>> \/ q.receivers = all
    BY <1>3, <1>5, <1>6, <1>7, <2>4 DEF all
  <2> QED BY <2>1, <2>3, <2>5, <2>6
<1>10. e.call # <<>> => r.function = <<e.call[1]>>
  BY <1>3 DEF Reads, p
<1>11. Reports(r, e) /\ Reports(q, e)
  BY <1>3, <1>4, <1>6, <1>8, <1>10 DEF Reports
<1> QED BY <1>1, <1>2, <1>8, <1>11 DEF ReadRight, p, r, q

-----------------------------------------------------------------------------
(* The sender's half                                                       *)

LEMMA CallAfterProperties ==
  ASSUME NEW to, NEW call
  PROVE  CallAfter(to, call) # <<>> => CallAfter(to, call) = call /\ to \in Contracts
BY DEF CallAfter

LEMMA FungibleRead ==
  ASSUME NEW t, t.function = "DCDTTransfer", NEW e, e = ExecuteDCDTTransfer(t), e.ok
  PROVE  Reads(t, e)
<1>1. /\ ~(Len(t.args) < 2)
      /\ e = Transfers(t.to, <<Token(t.args[1], 0, t.args[2].number)>>,
                       CallAfter(t.to, From(t.args, 2)))
  BY DEF ExecuteDCDTTransfer, Failed
<1>2. Parsed(t) = Transfers(t.to, <<Token(t.args[1], 0, t.args[2].number)>>, From(t.args, 2))
  BY <1>1 DEF Parsed, ParseSingleDCDTTransfer
<1> QED BY <1>1, <1>2, CallAfterProperties DEF Reads, Transfers

LEMMA SingleRead ==
  ASSUME NEW t, IsSent(t), t.function = "DCDTNFTTransfer",
         NEW e, e = ExecuteNFTTransferOnSender(t), e.ok
  PROVE  Reads(t, e)
<1>1. /\ ~(Len(t.args) < 4) /\ t.from = t.to /\ t.args[4].size = AddressLength
      /\ Uint64(t.args[2]) # 0
      /\ e = Transfers(t.args[4].number,
                       <<Token(t.args[1], Uint64(t.args[2]), t.args[3].number)>>,
                       CallAfter(t.args[4].number, From(t.args, 4)))
  BY DEF ExecuteNFTTransferOnSender, Failed, MayReceive
<1>2. Parsed(t) = Transfers(t.args[4].number,
                       <<Token(t.args[1], Uint64(t.args[2]), t.args[3].number)>>,
                       From(t.args, 4))
  BY <1>1 DEF Parsed, ParseSingleDCDTNFTTransfer
<1> QED BY <1>1, <1>2, CallAfterProperties DEF Reads, Transfers, Token

\* The tokens of a list whose values are all as they are written
ListedTokens(args, n) ==
  [k \in 1..n |->
     Token(args[2 + 3 * k - 2], Uint64(args[2 + 3 * k - 1]), args[2 + 3 * k].number)]

LEMMA SenderTokens ==
  ASSUME NEW args, NEW n, NEW u \in BOOLEAN, ~u
  PROVE  TokensAt(args, 2, n, u) = ListedTokens(args, n)
BY DEF TokensAt, ListedTokens, ValueOf

LEMMA MultiOnSender ==
  ASSUME NEW t, IsSent(t), t.function = "MultiDCDTNFTTransfer",
         NEW e, e = ExecuteMultiOnSender(t), e.ok,
         NEW n, n = Uint64(t.args[2])
  PROVE  /\ n \in Nat \ {0} /\ 3 * n + 2 < TwoTo64 /\ (3 * n + 2) % TwoTo64 = 3 * n + 2
         /\ Len(t.args) >= 3 * n + 2 /\ Len(t.args) >= 4
         /\ IsFirstArgumentAnAddress(t.args) /\ t.args[1].number # t.from
         /\ e = Transfers(t.args[1].number, ListedTokens(t.args, n),
                          CallAfter(t.args[1].number, From(t.args, 3 * n + 2)))
         /\ \A k \in 1..n : t.args[2 + 3 * k].number # 0
<1> DEFINE m == (3 * n + 2) % TwoTo64
<1>1. /\ ~(Len(t.args) < 4) /\ MayReceive(t, t.args[1])
      /\ n # 0 /\ ~(Len(t.args) < m)
      /\ \A k \in 1..n : t.args[2 + 3 * k].number # 0
      /\ e = Transfers(t.args[1].number, ListedTokens(t.args, n),
                       CallAfter(t.args[1].number, From(t.args, m)))
  <2>1. ~FALSE /\ FALSE \in BOOLEAN
    OBVIOUS
  <2>2. TokensAt(t.args, 2, n, FALSE) = ListedTokens(t.args, n)
    BY <2>1, SenderTokens, Zenon
  <2> DEFINE tokens == TokensAt(t.args, 2, n, FALSE)
  <2>3. tokens = ListedTokens(t.args, n)
    BY <2>2
  <2>4. e = IF Len(t.args) < 4 \/ t.from # t.to \/ ~MayReceive(t, t.args[1]) THEN Failed
            ELSE IF n = 0 \/ Len(t.args) < m THEN Failed
            ELSE IF \E k \in 1..n : t.args[2 + 3 * k].number = 0 THEN Failed
            ELSE Transfers(t.args[1].number, tokens,
                           CallAfter(t.args[1].number, From(t.args, m)))
    BY DEF ExecuteMultiOnSender
  <2> HIDE DEF tokens, m
  <2> QED BY <2>3, <2>4 DEF Failed
<1>2. Len(t.args) \in Nat /\ Len(t.args) >= 4 /\ t.args[1] \in Arg /\ t.args[2] \in Arg
  BY <1>1 DEF IsSent
<1>3. n \in Nat /\ 3 * n + 2 < TwoTo64
  <2> DEFINE x == t.args[2].number
  <2>1. x \in Nat /\ TwoTo64 \in Nat \ {0} /\ n = x % TwoTo64
    BY <1>2, ParsingAssumption DEF Uint64, Arg
  <2>2. 3 * n + 2 < TwoTo64
    BY <1>2, <2>1 DEF IsSent
  <2> HIDE DEF x
  <2>3. x % TwoTo64 \in 0..(TwoTo64 - 1)
    BY <2>1, ModType
  <2> QED BY <2>1, <2>2, <2>3
<1>4. m = 3 * n + 2
  <2>1. 3 * n + 2 \in Nat /\ TwoTo64 \in Nat \ {0}
    BY <1>3, ParsingAssumption
  <2> QED BY <1>3, <2>1, ModSmall
<1>5. t.args[1].number \in Addresses /\ t.args[1].number # t.from
      /\ t.args[1].size = AddressLength
  BY <1>1, <1>2 DEF MayReceive, IsSent
<1>6. IsFirstArgumentAnAddress(t.args)
  BY <1>5, ParsingAssumption DEF IsFirstArgumentAnAddress
<1>7. Len(t.args) >= 3 * n + 2
  BY <1>1, <1>2, <1>3, <1>4
<1> QED BY <1>1, <1>2, <1>3, <1>4, <1>5, <1>6, <1>7

LEMMA MultiRead ==
  ASSUME NEW t, IsSent(t), t.function = "MultiDCDTNFTTransfer",
         NEW e, e = ExecuteMultiOnSender(t), e.ok
  PROVE  Reads(t, e)
<1> DEFINE n == Uint64(t.args[2])
<1>1. /\ n \in Nat \ {0} /\ (3 * n + 2) % TwoTo64 = 3 * n + 2
      /\ Len(t.args) >= 3 * n + 2 /\ Len(t.args) >= 4
      /\ IsFirstArgumentAnAddress(t.args)
      /\ e = Transfers(t.args[1].number, ListedTokens(t.args, n),
                       CallAfter(t.args[1].number, From(t.args, 3 * n + 2)))
  BY MultiOnSender
<1>2. Len(t.args) \in Nat /\ 3 * n + 2 \in Nat
  BY <1>1 DEF IsSent
<1> DEFINE u == UnmarshalsValues(t.args)
<1>3. u \in BOOLEAN /\ ~u
  BY <1>1 DEF UnmarshalsValues
<1>4. Parsed(t) = Transfers(t.args[1].number, ListedTokens(t.args, n),
                            From(t.args, 3 * n + 2))
  <2>1. TokensAt(t.args, 2, n, u) = ListedTokens(t.args, n)
    BY <1>3, SenderTokens
  <2>2. ~(Len(t.args) < 4 \/ Len(t.args) < (3 * n + 2) % TwoTo64)
    BY <1>1, <1>2
  <2> DEFINE start == IF IsFirstArgumentAnAddress(t.args) THEN 2 ELSE 1
  <2>3. start = 2
    BY <1>1
  <2>4. Parsed(t) =
          IF Len(t.args) < 4 \/ Len(t.args) < (3 * n + 2) % TwoTo64 THEN Failed
          ELSE IF u /\ ~Readable(t.args, 2, n) THEN Failed
          ELSE Transfers(t.args[1].number, TokensAt(t.args, 2, n, u),
                         From(t.args, (3 * n + 2) % TwoTo64))
    BY <1>1 DEF Parsed, ParseMultiDCDTNFTTransfer
  <2> HIDE DEF u, n
  <2> QED BY <1>1, <1>3, <2>1, <2>2, <2>4
<1> HIDE DEF n
<1>5. DOMAIN ListedTokens(t.args, n) = 1..n
  BY DEF ListedTokens
<1> QED BY <1>1, <1>4, <1>5, CallAfterProperties DEF Reads, Transfers

LEMMA SenderReads ==
  ASSUME NEW t, IsSent(t), ExecuteOnSender(t).ok
  PROVE  Reads(t, ExecuteOnSender(t))
BY FungibleRead, SingleRead, MultiRead DEF ExecuteOnSender, IsSent, TransferFunctions

-----------------------------------------------------------------------------
(* The message to the destination's shard                                  *)

LEMMA TailAfter ==
  ASSUME NEW T, NEW head \in Seq(T), NEW tail \in Seq(T)
  PROVE  /\ head \o tail \in Seq(T) /\ Len(head \o tail) = Len(head) + Len(tail)
         /\ \A i \in 1..Len(head) : (head \o tail)[i] = head[i]
         /\ From(head \o tail, Len(head)) = tail
<1> DEFINE w == head \o tail
<1>1. /\ w \in Seq(T) /\ Len(w) = Len(head) + Len(tail)
      /\ \A i \in 1..(Len(head) + Len(tail)) :
           w[i] = IF i <= Len(head) THEN head[i] ELSE tail[i - Len(head)]
  BY ConcatProperties
<1>2. Len(head) \in Nat /\ Len(tail) \in Nat
  BY LenProperties
<1> DEFINE h == Len(head)
           n == Len(tail)
           b == SubSeq(w, h + 1, h + n)
<1> HIDE DEF w
<1>3. \A i \in (h + 1)..(h + n) : w[i] \in T
  BY <1>1, <1>2
<1>4. /\ b \in Seq(T) /\ Len(b) = n
      /\ \A i \in 1..n : b[i] = w[h + i]
  <2>1. h + 1 \in Int /\ h + n \in Int
    BY <1>2
  <2> DEFINE l == h + 1
             r == h + n
  <2> HIDE DEF l, r, h, n
  <2>2. /\ SubSeq(w, l, r) \in Seq(T)
        /\ Len(SubSeq(w, l, r)) = IF l <= r THEN r - l + 1 ELSE 0
        /\ \A i \in 1..(r - l + 1) : SubSeq(w, l, r)[i] = w[l + i - 1]
    <3>1. l \in Int /\ r \in Int /\ \A i \in l..r : w[i] \in T
      BY <1>3, <2>1 DEF l, r
    <3> QED BY <3>1, SubSeqProperties
  <2>3. r - l + 1 = n /\ (IF l <= r THEN r - l + 1 ELSE 0) = n
    BY <1>2 DEF l, r, h, n
  <2>4. \A i \in 1..n : l + i - 1 = h + i
    BY <1>2 DEF l, h, n
  <2> QED BY <2>2, <2>3, <2>4 DEF l, r
<1>5. \A i \in 1..n : b[i] = tail[i]
  <2> SUFFICES ASSUME NEW i \in 1..n PROVE b[i] = tail[i]
    OBVIOUS
  <2>1. h + i \in 1..(h + n) /\ ~(h + i <= h) /\ (h + i) - h = i
    BY <1>2
  <2> QED BY <1>1, <1>4, <2>1
<1> HIDE DEF b
<1>6. b = tail
  BY <1>4, <1>5, SeqEqual
<1> QED BY <1>1, <1>2, <1>6 DEF From, b, w

LEMMA FromType ==
  ASSUME NEW args \in Seq(Arg), NEW i \in 0..Len(args)
  PROVE  From(args, i) \in Seq(Arg) /\ Len(From(args, i)) = Len(args) - i
<1> DEFINE n == Len(args)
<1>1. n \in Nat /\ i + 1 \in Int /\ \A j \in (i + 1)..n : args[j] \in Arg
  OBVIOUS
<1> DEFINE l == i + 1
<1>2. l \in Int /\ n \in Int
  BY <1>1
<1>3. (IF l <= n THEN n - l + 1 ELSE 0) = n - i
  BY <1>1
<1> HIDE DEF l, n
<1>4. /\ SubSeq(args, l, n) \in Seq(Arg)
      /\ Len(SubSeq(args, l, n)) = IF l <= n THEN n - l + 1 ELSE 0
  BY <1>1, <1>2, SubSeqProperties DEF l
<1> QED BY <1>3, <1>4 DEF From, l, n

\* What arrives: a is executed in m, and is e again.
Arrives(m, e) ==
  LET a == ExecuteOnDestination(m) IN
  /\ Reads(m, a)
  /\ a.ok /\ a.to = e.to /\ a.tokens = e.tokens
  /\ e.call # <<>> => a.call = e.call

LEMMA FungibleArrives ==
  ASSUME NEW t, t.function = "DCDTTransfer", NEW e, e = ExecuteDCDTTransfer(t), e.ok,
         NEW with
  PROVE  Arrives(Message(t, e, with), e)
<1> DEFINE m == Message(t, e, with)
<1>1. /\ m.function = t.function /\ m.to = e.to /\ m.args = t.args
  BY DEF Message
<1>2. e.to = t.to
  BY DEF ExecuteDCDTTransfer, Failed, Transfers
<1> HIDE DEF m
<1>3. ExecuteDCDTTransfer(m) = e
  BY <1>1, <1>2 DEF ExecuteDCDTTransfer
<1>4. ExecuteOnDestination(m) = e
  BY <1>1, <1>3 DEF ExecuteOnDestination
<1>5. Reads(m, e)
  BY <1>1, <1>3, FungibleRead
<1> QED BY <1>4, <1>5 DEF Arrives, m

LEMMA NumberBytesType ==
  ASSUME NEW v \in Nat
  PROVE  /\ NumberBytes(v) \in Arg /\ NumberBytes(v).number = v
         /\ NumberBytes(v).size # AddressLength
BY DEF NumberBytes, Bytes, SizeOf, Arg, AddressLength, MaxLengthForValueToOptTransfer

LEMMA MarshalledType ==
  ASSUME NEW v \in Nat
  PROVE  Marshalled(v) \in Arg /\ Marshalled(v).unmarshals = {v}
BY ParsingAssumption DEF Marshalled, Arg, MaxLengthForValueToOptTransfer

LEMMA ZeroType ==
  /\ ZeroByteArray \in Arg /\ ZeroByteArray.number = 0
  /\ ZeroByteArray.unmarshals = {}
BY DEF ZeroByteArray, Bytes, Arg

LEMMA SingleArrives ==
  ASSUME NEW t, IsSent(t), t.function = "DCDTNFTTransfer",
         NEW e, e = ExecuteNFTTransferOnSender(t), e.ok, NEW with
  PROVE  Arrives(Message(t, e, with), e)
<1> DEFINE m == Message(t, e, with)
           v == t.args[3].number
           x == IF with # {} \/ v = 1 THEN Marshalled(v) ELSE ZeroByteArray
           call == From(t.args, 4)
           tokens == <<Token(t.args[1], Uint64(t.args[2]), v)>>
           a == ExecuteOnDestination(m)
<1>1. /\ t.args \in Seq(Arg) /\ Len(t.args) \in Nat /\ Len(t.args) >= 4
      /\ t.from = t.to /\ t.args[4].number # t.from
      /\ Uint64(t.args[2]) # 0
      /\ e = Transfers(t.args[4].number, tokens, CallAfter(t.args[4].number, call))
  BY DEF ExecuteNFTTransferOnSender, Failed, MayReceive, IsSent
<1>2. /\ m.function = "DCDTNFTTransfer" /\ m.to = e.to /\ m.from = t.from
      /\ m.args = NFTMessage(t, with)
  BY DEF Message
<1>3. e.to = t.args[4].number /\ e.tokens = tokens /\ m.from # m.to
      /\ e.call = CallAfter(e.to, call)
  BY <1>1, <1>2 DEF Transfers
<1>4. v \in Nat /\ call \in Seq(Arg)
  <2>1. t.args[3] \in Arg /\ 4 \in 0..Len(t.args)
    BY <1>1
  <2> QED BY <1>1, <2>1, FromType DEF Arg
<1>5. /\ x \in Arg
      /\ x # ZeroByteArray => x.unmarshals = {v}
  BY <1>4, MarshalledType, ZeroType
<1> HIDE DEF x, v
<1>6. /\ Len(m.args) >= 4
      /\ m.args[1] = t.args[1] /\ m.args[2] = t.args[2] /\ m.args[3] = t.args[3]
      /\ m.args[4] = x /\ From(m.args, 4) = call
  <2> DEFINE three == SubSeq(t.args, 1, 3)
             head == three \o <<x>>
  <2>1. /\ three \in Seq(Arg) /\ Len(three) = 3
        /\ three[1] = t.args[1] /\ three[2] = t.args[2] /\ three[3] = t.args[3]
    BY <1>1
  <2>2. <<x>> \in Seq(Arg) /\ Len(<<x>>) = 1
    BY <1>5
  <2>3. \A p, q \in Seq(Arg) :
          /\ p \o q \in Seq(Arg) /\ Len(p \o q) = Len(p) + Len(q)
          /\ \A i \in 1..(Len(p) + Len(q)) :
               (p \o q)[i] = IF i <= Len(p) THEN p[i] ELSE q[i - Len(p)]
    BY ConcatProperties
  <2>4. \A p, q \in Seq(Arg) :
          /\ Len(p \o q) = Len(p) + Len(q)
          /\ \A i \in 1..Len(p) : (p \o q)[i] = p[i]
          /\ From(p \o q, Len(p)) = q
    BY TailAfter
  <2> DEFINE one == <<x>>
  <2>5. one \in Seq(Arg) /\ Len(one) = 1 /\ one[1] = x
    BY <2>2
  <2> HIDE DEF three, one
  <2>6. /\ head \in Seq(Arg) /\ Len(head) = 4
        /\ head[1] = t.args[1] /\ head[2] = t.args[2] /\ head[3] = t.args[3]
        /\ head[4] = x
    <3>1. /\ three \o one \in Seq(Arg) /\ Len(three \o one) = 4
          /\ \A i \in 1..4 : (three \o one)[i] = IF i <= 3 THEN three[i] ELSE one[i - 3]
      BY <2>1, <2>3, <2>5, SMTT(60)
    <3> DEFINE w == three \o one
    <3>2. w[1] = three[1] /\ w[2] = three[2] /\ w[3] = three[3] /\ w[4] = one[1]
      BY <3>1
    <3>3. head = w
      BY DEF one
    <3> HIDE DEF w, head
    <3>4. w \in Seq(Arg) /\ Len(w) = 4
      BY <3>1 DEF w
    <3> QED BY <2>1, <2>5, <3>2, <3>3, <3>4
  <2> HIDE DEF head, call
  <2>7. /\ Len(head \o call) = Len(head) + Len(call)
        /\ \A i \in 1..Len(head) : (head \o call)[i] = head[i]
        /\ From(head \o call, Len(head)) = call
    BY <1>4, <2>6, <2>4
  <2>8. m.args = head \o call
    BY <1>2 DEF NFTMessage, head, three, call, x, v
  <2>9. Len(call) \in Nat
    BY <1>4
  <2> HIDE DEF m
  <2> QED BY <2>6, <2>7, <2>8, <2>9
<1> HIDE DEF m, call
<1>7. a = Transfers(m.to, tokens, CallArrived(m.to, call))
  <2>1. a = ExecuteNFTTransferOnDestination(m)
    BY <1>2 DEF ExecuteOnDestination
  <2>2. ~(Len(m.args) < 4 \/ (m.args[4] # ZeroByteArray /\ m.args[4].unmarshals = {}))
    <3>1. Len(m.args) < 4 <=> ~(Len(m.args) >= 4)
      BY <1>1, <1>2
    <3> QED BY <1>5, <1>6, <3>1
  <2>3. (IF m.args[4] = ZeroByteArray THEN m.args[3].number
         ELSE CHOOSE y \in m.args[4].unmarshals : TRUE) = v
    BY <1>5, <1>6 DEF v
  <2> QED BY <1>6, <2>1, <2>2, <2>3 DEF ExecuteNFTTransferOnDestination
<1>8. Parsed(m) = Transfers(m.to, tokens, call)
  BY <1>2, <1>3, <1>6 DEF Parsed, ParseSingleDCDTNFTTransfer, v
<1> HIDE DEF a
<1>9. a.ok /\ a.to = m.to /\ a.tokens = tokens /\ a.call = CallArrived(m.to, call)
  BY <1>7 DEF Transfers
<1>10. a.call # <<>> => a.call = call /\ a.to \in Contracts
  BY <1>9 DEF CallArrived
<1>11. e.call # <<>> => a.call = e.call
  BY <1>2, <1>3, <1>9 DEF CallAfter, CallArrived
<1>12. DOMAIN tokens = 1..1 /\ \A k \in DOMAIN tokens : tokens[k].nonce # 0
  BY <1>1 DEF Token
<1> HIDE DEF tokens
<1>13. Reads(m, a)
  BY <1>2, <1>3, <1>8, <1>9, <1>10, <1>12 DEF Reads, Transfers
<1> QED BY <1>2, <1>3, <1>9, <1>11, <1>13 DEF Arrives, a, m

LEMMA ValueArrives ==
  ASSUME NEW token, token.nonce \in Nat, token.value \in Nat, NEW isWith \in BOOLEAN,
         NEW u \in BOOLEAN, u
  PROVE  LET V == ValueBytes(token, isWith) IN
         /\ V \in Arg
         /\ token.nonce > 0 /\ IsLong(V) => V.unmarshals # {}
         /\ ValueOf(V, token.nonce, u) = token.value
<1> DEFINE v == token.value
           V == ValueBytes(token, isWith)
<1>1. /\ Marshalled(v) \in Arg /\ Marshalled(v).unmarshals = {v}
      /\ NumberBytes(v) \in Arg /\ NumberBytes(v).number = v
  BY MarshalledType, NumberBytesType
<1>2. \/ V = Marshalled(v) /\ token.nonce > 0
      \/ V = NumberBytes(v) /\ ~(token.nonce > 0 /\ IsLong(NumberBytes(v)))
  BY DEF ValueBytes
<1> HIDE DEF V, v
<1>3. V \in Arg
  BY <1>1, <1>2
<1>4. IsLong(Marshalled(v))
  BY DEF IsLong, Marshalled, MaxLengthForValueToOptTransfer
<1>5. (CHOOSE x \in {v} : TRUE) = v
  OBVIOUS
<1>6. CASE V = Marshalled(v) /\ token.nonce > 0
  <2>1. V.unmarshals = {v} /\ IsLong(V)
    BY <1>1, <1>4, <1>6
  <2>2. ValueOf(V, token.nonce, u) = v
    BY <1>5, <1>6, <2>1 DEF ValueOf
  <2> QED BY <1>3, <2>1, <2>2 DEF V, v
<1>7. CASE V = NumberBytes(v) /\ ~(token.nonce > 0 /\ IsLong(NumberBytes(v)))
  <2>1. V.number = v /\ ~(token.nonce > 0 /\ IsLong(V))
    BY <1>1, <1>7
  <2>2. ValueOf(V, token.nonce, u) = v
    BY <2>1 DEF ValueOf
  <2> QED BY <1>3, <2>1, <2>2 DEF V, v
<1> QED BY <1>2, <1>6, <1>7

LEMMA ListedType ==
  ASSUME NEW args \in Seq(Arg), NEW n \in Nat, Len(args) >= 3 * n + 2, NEW k \in 1..n
  PROVE  LET token == ListedTokens(args, n)[k] IN
         /\ token.name \in Arg /\ token.value \in Nat
         /\ token.nonce \in Nat /\ token.nonce < TwoTo64
<1>1. /\ args[2 + 3 * k - 2] \in Arg /\ args[2 + 3 * k - 1] \in Arg
      /\ args[2 + 3 * k] \in Arg
  OBVIOUS
<1> DEFINE x == args[2 + 3 * k - 1]
           name == args[2 + 3 * k - 2]
           value == args[2 + 3 * k]
<1>2. ListedTokens(args, n)[k] = Token(name, Uint64(x), value.number)
  BY DEF ListedTokens
<1> HIDE DEF x, name, value
<1>3. x \in Arg /\ name \in Arg /\ value \in Arg
  BY <1>1 DEF x, name, value
<1>4. x.number \in Nat /\ value.number \in Nat /\ TwoTo64 \in Nat \ {0}
  BY <1>3, ParsingAssumption DEF Arg
<1> DEFINE y == x.number
<1> HIDE DEF y
<1>5. y % TwoTo64 \in 0..(TwoTo64 - 1)
  BY <1>4, ModType DEF y
<1>6. Uint64(x) \in Nat /\ Uint64(x) < TwoTo64
  BY <1>4, <1>5 DEF Uint64, y
<1> QED BY <1>2, <1>3, <1>4, <1>6 DEF Token

\* What a message says of the k-th of its tokens
TripleOf(token, isWith) ==
  <<token.name,
    IF token.nonce = 0 THEN ZeroByteArray ELSE NumberBytes(token.nonce),
    ValueBytes(token, isWith)>>

LEMMA TripleArrives ==
  ASSUME NEW token, token.name \in Arg, token.value \in Nat,
         token.nonce \in Nat, token.nonce < TwoTo64, NEW isWith \in BOOLEAN,
         NEW u \in BOOLEAN, u
  PROVE  LET x == TripleOf(token, isWith) IN
         /\ x \in Seq(Arg) /\ Len(x) = 3
         /\ x[1] = token.name /\ Uint64(x[2]) = token.nonce
         /\ token.nonce > 0 /\ IsLong(x[3]) => x[3].unmarshals # {}
         /\ ValueOf(x[3], token.nonce, u) = token.value
<1> DEFINE b == IF token.nonce = 0 THEN ZeroByteArray ELSE NumberBytes(token.nonce)
           V == ValueBytes(token, isWith)
           x == <<token.name, b, V>>
<1>1. /\ V \in Arg
      /\ token.nonce > 0 /\ IsLong(V) => V.unmarshals # {}
      /\ ValueOf(V, token.nonce, u) = token.value
  BY ValueArrives
<1>2. b \in Arg /\ b.number = token.nonce
  BY NumberBytesType, ZeroType
<1>3. Uint64(b) = token.nonce
  BY <1>2, ParsingAssumption, ModSmall DEF Uint64
<1>4. TripleOf(token, isWith) = x
  BY DEF TripleOf
<1> HIDE DEF b, V
<1>5. x \in Seq(Arg) /\ Len(x) = 3 /\ x[1] = token.name /\ x[2] = b /\ x[3] = V
  BY <1>1, <1>2
<1> HIDE DEF x
<1> QED BY <1>1, <1>3, <1>4, <1>5

\* The triples of a message are in args from index 1 on.
Carries(args, tokens, n, with) ==
  \A k \in 1..n, j \in 1..3 :
    args[1 + 3 * (k - 1) + j] = TripleOf(tokens[k], k \in with)[j]

LEMMA MultiMessageParts ==
  ASSUME NEW t, t.args \in Seq(Arg), NEW tokens, NEW n \in Nat \ {0}, NEW with,
         n < TwoTo64, Len(t.args) >= 3 * n + 2, tokens = ListedTokens(t.args, n)
  PROVE  LET args == MultiMessage(t, tokens, with) IN
         /\ Len(args) \in Nat /\ Len(args) >= 3 * n + 1
         /\ args[1] = NumberBytes(n)
         /\ Carries(args, tokens, n, with)
         /\ From(args, 3 * n + 1) = From(t.args, 3 * n + 2)
<1> DEFINE s == [k \in 1..n |-> TripleOf(tokens[k], k \in with)]
           F == FlattenSeq(s)
           one == <<NumberBytes(n)>>
           call == From(t.args, 3 * n + 2)
           head == one \o F
           args == MultiMessage(t, tokens, with)
<1>1. DOMAIN tokens = 1..n /\ Len(tokens) = n
  <2>1. tokens = [k \in 1..n |-> ListedTokens(t.args, n)[k]]
    BY DEF ListedTokens
  <2> DEFINE f(k) == ListedTokens(t.args, n)[k]
  <2> HIDE DEF f
  <2>2. tokens = [k \in 1..n |-> f(k)]
    BY <2>1 DEF f
  <2> QED BY <2>2
<1>2. ASSUME NEW k \in 1..n
      PROVE  s[k] \in Seq(Arg) /\ Len(s[k]) = 3
  <2> DEFINE token == tokens[k]
  <2>1. /\ token.name \in Arg /\ token.value \in Nat
        /\ token.nonce \in Nat /\ token.nonce < TwoTo64
    <3>1. n \in Nat
      OBVIOUS
    <3> QED BY <3>1, ListedType
  <2> DEFINE isWith == k \in with
             x == TripleOf(token, isWith)
  <2>2. isWith \in BOOLEAN
    OBVIOUS
  <2>3. s[k] = x
    OBVIOUS
  <2> HIDE DEF token, isWith, s
  <2>4. PICK u \in BOOLEAN : u
    OBVIOUS
  <2>5. x \in Seq(Arg) /\ Len(x) = 3
    BY <2>1, <2>2, <2>4, TripleArrives
  <2> QED BY <2>3, <2>5
<1>3. s \in [1..n -> Seq(Arg)] /\ \A k \in 1..n : Len(s[k]) = 3
  BY <1>2
<1>4. args = head \o call
  <2>1. [k \in DOMAIN tokens |->
           <<tokens[k].name,
             IF tokens[k].nonce = 0 THEN ZeroByteArray ELSE NumberBytes(tokens[k].nonce),
             ValueBytes(tokens[k], k \in with)>>] = s
    BY <1>1 DEF TripleOf
  <2>2. args = <<NumberBytes(Len(tokens))>> \o FlattenSeq(s) \o From(t.args, 3 * Len(tokens) + 2)
    BY <2>1 DEF MultiMessage
  <2> HIDE DEF s, args
  <2> QED BY <1>1, <2>2
<1>5. \A k \in 1..n : s[k] = TripleOf(tokens[k], k \in with)
  OBVIOUS
<1> HIDE DEF s
<1>6. /\ F \in Seq(Arg) /\ Len(F) = 3 * n
      /\ \A k \in 1..n, j \in 1..3 : F[3 * (k - 1) + j] = s[k][j]
  BY <1>3, FlattenTriples, SMTT(60)
<1>7. one \in Seq(Arg) /\ Len(one) = 1 /\ one[1] = NumberBytes(n)
  <2> DEFINE b == NumberBytes(n)
  <2>1. b \in Arg
    BY NumberBytesType
  <2> HIDE DEF b
  <2>2. <<b>> \in Seq(Arg) /\ Len(<<b>>) = 1 /\ <<b>>[1] = b
    BY <2>1
  <2> QED BY <2>2 DEF b
<1>8. call \in Seq(Arg)
  <2>1. 3 * n + 2 \in 0..Len(t.args)
    OBVIOUS
  <2> QED BY <2>1, FromType
<1> HIDE DEF F, one, call, args
<1>9. \A p, q \in Seq(Arg) :
        /\ p \o q \in Seq(Arg) /\ Len(p \o q) = Len(p) + Len(q)
        /\ \A i \in 1..(Len(p) + Len(q)) :
             (p \o q)[i] = IF i <= Len(p) THEN p[i] ELSE q[i - Len(p)]
  BY ConcatProperties
<1>10. /\ head \in Seq(Arg) /\ Len(head) = 3 * n + 1
       /\ \A i \in 1..(3 * n + 1) : head[i] = IF i <= 1 THEN one[i] ELSE F[i - 1]
  <2>1. /\ one \o F \in Seq(Arg) /\ Len(one \o F) = 1 + 3 * n
        /\ \A i \in 1..(1 + 3 * n) : (one \o F)[i] = IF i <= 1 THEN one[i] ELSE F[i - 1]
    <3>1. 3 * n \in Nat /\ Len(one) = 1 /\ Len(F) = 3 * n
      BY <1>6, <1>7
    <3>2. /\ one \o F \in Seq(Arg) /\ Len(one \o F) = Len(one) + Len(F)
          /\ \A i \in 1..(Len(one) + Len(F)) :
               (one \o F)[i] = IF i <= Len(one) THEN one[i] ELSE F[i - Len(one)]
      BY <1>6, <1>7, <1>9, ZenonT(60)
    <3> QED BY <3>1, <3>2
  <2> QED BY <2>1, SMTT(60)
<1>11. head[1] = NumberBytes(n)
  <2>1. 1 \in 1..(3 * n + 1)
    OBVIOUS
  <2> QED BY <1>7, <1>10, <2>1, SMTT(60)
<1>12. ASSUME NEW k \in 1..n, NEW j \in 1..3
       PROVE  /\ 1 + 3 * (k - 1) + j \in 1..(3 * n + 1)
              /\ head[1 + 3 * (k - 1) + j] = TripleOf(tokens[k], k \in with)[j]
  <2> DEFINE i == 1 + 3 * (k - 1) + j
  <2>1. i \in 1..(3 * n + 1) /\ ~(i <= 1) /\ i - 1 = 3 * (k - 1) + j
    OBVIOUS
  <2> HIDE DEF i, head
  <2>2. head[i] = F[3 * (k - 1) + j]
    BY <1>10, <2>1
  <2> QED BY <1>5, <1>6, <2>1, <2>2 DEF i
<1> HIDE DEF head
<1>13. /\ Len(head \o call) = Len(head) + Len(call)
       /\ \A i \in 1..Len(head) : (head \o call)[i] = head[i]
       /\ From(head \o call, Len(head)) = call
  BY <1>8, <1>10, TailAfter, ZenonT(60)
<1>14. Len(call) \in Nat
  BY <1>8
<1>15. Len(args) \in Nat /\ Len(args) >= 3 * n + 1
  BY <1>4, <1>10, <1>13, <1>14
<1>16. args[1] = NumberBytes(n)
  <2>1. 1 \in 1..Len(head)
    BY <1>10
  <2> QED BY <1>4, <1>11, <1>13, <2>1
<1>17. Carries(args, tokens, n, with)
  BY <1>4, <1>10, <1>12, <1>13 DEF Carries
<1>18. From(args, 3 * n + 1) = call
  BY <1>4, <1>10, <1>13
<1> QED BY <1>15, <1>16, <1>17, <1>18 DEF args, call

\* The destination's half reads the tokens in args.
ReadsBack(args, n, tokens) ==
  \A u \in BOOLEAN : u => TokensAt(args, 1, n, u) = tokens /\ Readable(args, 1, n)

LEMMA TokensArrive ==
  ASSUME NEW list \in Seq(Arg), NEW tokens, NEW n \in Nat \ {0}, NEW with,
         Len(list) >= 3 * n + 2, tokens = ListedTokens(list, n),
         NEW args, Carries(args, tokens, n, with)
  PROVE  ReadsBack(args, n, tokens)
<1> SUFFICES ASSUME NEW u \in BOOLEAN, u
             PROVE  TokensAt(args, 1, n, u) = tokens /\ Readable(args, 1, n)
  BY DEF ReadsBack
<1>1. ASSUME NEW k \in 1..n
      PROVE  /\ args[1 + 3 * k - 2] = tokens[k].name
             /\ Uint64(args[1 + 3 * k - 1]) = tokens[k].nonce
             /\ tokens[k].nonce > 0 /\ IsLong(args[1 + 3 * k]) =>
                  args[1 + 3 * k].unmarshals # {}
             /\ ValueOf(args[1 + 3 * k], tokens[k].nonce, u) = tokens[k].value
  <2> DEFINE token == tokens[k]
             isWith == k \in with
             x == TripleOf(token, isWith)
  <2>1. /\ token.name \in Arg /\ token.value \in Nat
        /\ token.nonce \in Nat /\ token.nonce < TwoTo64
    <3>1. n \in Nat
      OBVIOUS
    <3> QED BY <3>1, ListedType
  <2>2. isWith \in BOOLEAN
    OBVIOUS
  <2>3. args[1 + 3 * k - 2] = x[1] /\ args[1 + 3 * k - 1] = x[2] /\ args[1 + 3 * k] = x[3]
    <3>1. \A j \in 1..3 : args[1 + 3 * (k - 1) + j] = x[j]
      BY DEF Carries
    <3>2. /\ 1 + 3 * (k - 1) + 1 = 1 + 3 * k - 2 /\ 1 + 3 * (k - 1) + 2 = 1 + 3 * k - 1
          /\ 1 + 3 * (k - 1) + 3 = 1 + 3 * k
      OBVIOUS
    <3> HIDE DEF x
    <3>3. /\ args[1 + 3 * (k - 1) + 1] = x[1] /\ args[1 + 3 * (k - 1) + 2] = x[2]
          /\ args[1 + 3 * (k - 1) + 3] = x[3]
      BY <3>1
    <3> QED BY <3>2, <3>3
  <2> HIDE DEF token, isWith
  <2>4. /\ x[1] = token.name /\ Uint64(x[2]) = token.nonce
        /\ token.nonce > 0 /\ IsLong(x[3]) => x[3].unmarshals # {}
        /\ ValueOf(x[3], token.nonce, u) = token.value
    BY <2>1, <2>2, TripleArrives
  <2> QED BY <2>3, <2>4 DEF token
<1>2. ASSUME NEW k \in 1..n
      PROVE  tokens[k] = Token(tokens[k].name, tokens[k].nonce, tokens[k].value)
  BY DEF ListedTokens, Token
<1>3. tokens = [k \in 1..n |-> tokens[k]]
  BY DEF ListedTokens
<1>4. TokensAt(args, 1, n, u) =
        [k \in 1..n |-> Token(args[1 + 3 * k - 2], Uint64(args[1 + 3 * k - 1]),
                              ValueOf(args[1 + 3 * k], Uint64(args[1 + 3 * k - 1]), u))]
  BY DEF TokensAt
<1> DEFINE read(k) == Token(args[1 + 3 * k - 2], Uint64(args[1 + 3 * k - 1]),
                            ValueOf(args[1 + 3 * k], Uint64(args[1 + 3 * k - 1]), u))
<1>5. TokensAt(args, 1, n, u) = [k \in 1..n |-> tokens[k]]
  <2>1. TokensAt(args, 1, n, u) = [k \in 1..n |-> read(k)]
    BY <1>4
  <2>2. \A k \in 1..n : read(k) = tokens[k]
    BY <1>1, <1>2
  <2> HIDE DEF read
  <2> QED BY <2>1, <2>2
<1>6. Readable(args, 1, n)
  BY <1>1 DEF Readable
<1> QED BY <1>3, <1>5, <1>6

LEMMA MultiArrives ==
  ASSUME NEW t, IsSent(t), t.function = "MultiDCDTNFTTransfer",
         NEW e, e = ExecuteMultiOnSender(t), e.ok, NEW with
  PROVE  Arrives(Message(t, e, with), e)
<1> DEFINE m == Message(t, e, with)
           n == Uint64(t.args[2])
           tokens == ListedTokens(t.args, n)
           call == From(t.args, 3 * n + 2)
           a == ExecuteOnDestination(m)
<1>1. /\ t.args \in Seq(Arg) /\ n \in Nat \ {0} /\ 3 * n + 2 < TwoTo64
      /\ Len(t.args) >= 3 * n + 2 /\ Len(t.args) >= 4
      /\ e = Transfers(t.args[1].number, tokens, CallAfter(t.args[1].number, call))
  BY MultiOnSender DEF IsSent
<1>2. /\ m.function = "MultiDCDTNFTTransfer" /\ m.to = e.to
      /\ m.args = MultiMessage(t, e.tokens, with)
  BY DEF Message
<1>3. /\ e.tokens = tokens /\ e.call = CallAfter(e.to, call)
  BY <1>1 DEF Transfers
<1>4. TwoTo64 \in Nat \ {0}
  BY ParsingAssumption
<1> HIDE DEF n
<1>5. n < TwoTo64
  BY <1>1, <1>4
<1> DEFINE args == MultiMessage(t, tokens, with)
<1> HIDE DEF tokens, call, args
<1>6. /\ Len(args) \in Nat /\ Len(args) >= 3 * n + 1
      /\ args[1] = NumberBytes(n)
      /\ Carries(args, tokens, n, with)
      /\ From(args, 3 * n + 1) = call
  BY <1>1, <1>5, MultiMessageParts DEF tokens, call, args
<1>7. m.args = args
  BY <1>2, <1>3 DEF args
<1>8. Uint64(args[1]) = n /\ args[1].size # AddressLength
  <2>1. n \in Nat
    BY <1>1
  <2>2. NumberBytes(n).number = n /\ NumberBytes(n).size # AddressLength
    BY <2>1, NumberBytesType
  <2>3. n % TwoTo64 = n
    BY <1>4, <1>5, <2>1, ModSmall
  <2> QED BY <1>6, <2>2, <2>3 DEF Uint64
<1>9. (3 * n + 1) % TwoTo64 = 3 * n + 1
  <2>1. 3 * n + 1 \in Nat /\ 3 * n + 1 < TwoTo64
    BY <1>1, <1>4
  <2> QED BY <1>4, <2>1, ModSmall
<1>10. \A u \in BOOLEAN : u => TokensAt(args, 1, n, u) = tokens /\ Readable(args, 1, n)
  <2>1. /\ tokens = ListedTokens(t.args, n) /\ t.args \in Seq(Arg) /\ n \in Nat \ {0}
        /\ Len(t.args) >= 3 * n + 2
    BY <1>1 DEF tokens
  <2>2. Carries(args, tokens, n, with)
    BY <1>6
  <2> HIDE DEF tokens, args
  <2> DEFINE list == t.args
  <2>3. list \in Seq(Arg) /\ Len(list) >= 3 * n + 2 /\ tokens = ListedTokens(list, n)
    BY <2>1
  <2>4. n \in Nat \ {0}
    BY <2>1
  <2> HIDE DEF list
  <2>5. ReadsBack(args, n, tokens)
    BY <2>2, <2>3, <2>4, TokensArrive
  <2> QED BY <2>5 DEF ReadsBack
<1>11. ~(Len(args) < 4) /\ ~(Len(args) < (3 * n + 1) % TwoTo64) /\ n # 0
  BY <1>1, <1>6, <1>9
<1> HIDE DEF m
<1>12. a = Transfers(m.to, tokens, CallArrived(m.to, call))
  <2>1. a = ExecuteMultiOnDestination(m)
    BY <1>2 DEF ExecuteOnDestination
  <2>2. TRUE \in BOOLEAN /\ TRUE
    OBVIOUS
  <2> DEFINE arrived == TokensAt(args, 1, n, TRUE)
  <2>3. arrived = tokens /\ Readable(args, 1, n)
    BY <1>10, <2>2, Zenon
  <2>4. ExecuteMultiOnDestination(m) =
          IF Len(args) < 4 \/ n = 0 \/ Len(args) < (3 * n + 1) % TwoTo64 THEN Failed
          ELSE IF ~Readable(args, 1, n) THEN Failed
          ELSE Transfers(m.to, arrived,
                         CallArrived(m.to, From(args, (3 * n + 1) % TwoTo64)))
    BY <1>7, <1>8, Zenon DEF ExecuteMultiOnDestination
  <2> HIDE DEF arrived, a
  <2> QED BY <1>6, <1>9, <1>11, <2>1, <2>3, <2>4
<1>13. Parsed(m) = Transfers(m.to, tokens, call)
  <2> DEFINE u == UnmarshalsValues(args)
             read == TokensAt(args, 1, n, u)
  <2>1. ~IsFirstArgumentAnAddress(args)
    BY <1>8 DEF IsFirstArgumentAnAddress
  <2>2. u \in BOOLEAN /\ u
    BY <2>1 DEF UnmarshalsValues
  <2>3. read = tokens /\ Readable(args, 1, n)
    BY <1>10, <2>2
  <2>4. Parsed(m) =
          IF Len(args) < 4 \/ Len(args) < (3 * n + 1) % TwoTo64 THEN Failed
          ELSE IF u /\ ~Readable(args, 1, n) THEN Failed
          ELSE Transfers(m.to, read, From(args, (3 * n + 1) % TwoTo64))
    BY <1>2, <1>7, <1>8, <2>1 DEF Parsed, ParseMultiDCDTNFTTransfer
  <2> HIDE DEF u, read
  <2> QED BY <1>6, <1>9, <1>11, <2>3, <2>4
<1> HIDE DEF a, args
<1>14. a.ok /\ a.to = m.to /\ a.tokens = tokens /\ a.call = CallArrived(m.to, call)
  BY <1>12 DEF Transfers
<1>15. a.call # <<>> => a.call = call /\ a.to \in Contracts
  BY <1>14 DEF CallArrived
<1>16. e.call # <<>> => a.call = e.call
  BY <1>2, <1>3, <1>14 DEF CallAfter, CallArrived
<1>17. DOMAIN tokens = 1..n
  BY DEF tokens, ListedTokens
<1>18. Reads(m, a)
  BY <1>1, <1>2, <1>13, <1>14, <1>15, <1>17 DEF Reads, Transfers
<1> QED BY <1>2, <1>3, <1>14, <1>16, <1>18 DEF Arrives, a, m

LEMMA MessageArrives ==
  ASSUME NEW t, IsSent(t), NEW e, e = ExecuteOnSender(t), e.ok, NEW with
  PROVE  LET m == Message(t, e, with) IN
         m.function \in TransferFunctions /\ Arrives(m, e)
<1>1. Message(t, e, with).function = t.function /\ t.function \in TransferFunctions
  BY DEF Message, IsSent
<1>2. CASE t.function = "DCDTTransfer"
  <2>1. e = ExecuteDCDTTransfer(t)
    BY <1>2 DEF ExecuteOnSender
  <2> QED BY <1>1, <1>2, <2>1, FungibleArrives
<1>3. CASE t.function = "DCDTNFTTransfer"
  <2>1. e = ExecuteNFTTransferOnSender(t)
    BY <1>3 DEF ExecuteOnSender
  <2> QED BY <1>1, <1>3, <2>1, SingleArrives
<1>4. CASE t.function = "MultiDCDTNFTTransfer"
  <2>1. e = ExecuteMultiOnSender(t)
    BY <1>4 DEF ExecuteOnSender
  <2> QED BY <1>1, <1>4, <2>1, MultiArrives
<1> QED BY <1>1, <1>2, <1>3, <1>4 DEF TransferFunctions

LEMMA ArrivedIsRead ==
  ASSUME NEW m, NEW e, Arrives(m, e)
  PROVE  Reads(m, e)
BY DEF Arrives, Reads

-----------------------------------------------------------------------------
(* The two halves of a transfer                                            *)

\* tx is what a user has sent, or the message that follows from it; what is
\* executed already was read right, and arrives as it was executed.
AgreesInv ==
  /\ half \in {"none", "sender", "destination"}
  /\ half = "sender" => IsSent(tx)
  /\ half = "destination" =>
       tx.function \in TransferFunctions /\ Arrives(tx, executed)
  /\ half = "none" => ReadRight(tx, executed)

LEMMA AgreesInvInit == ParsingInit => AgreesInv
BY DEF ParsingInit, AgreesInv, ReadRight, Failed

LEMMA ReadRightOnSender ==
  ASSUME NEW t, IsSent(t)
  PROVE  ReadRight(t, ExecuteOnSender(t))
<1>1. CASE ExecuteOnSender(t).ok
  <2>1. Reads(t, ExecuteOnSender(t)) /\ t.function \in TransferFunctions
    BY <1>1, SenderReads DEF IsSent
  <2> QED BY <2>1, ReadIsReported
<1>2. CASE ~ExecuteOnSender(t).ok
  BY <1>2 DEF ReadRight
<1> QED BY <1>1, <1>2

LEMMA AgreesInvNext == AgreesInv /\ [ParsingNext]_parsingVars => AgreesInv'
<1> SUFFICES ASSUME AgreesInv, [ParsingNext]_parsingVars PROVE AgreesInv'
  OBVIOUS
<1>1. CASE SendData
  <2>1. PICK from \in Addresses, to \in Addresses, d \in Data :
          tx' = [function |-> d.function, from |-> from, to |-> to, args |-> d.args]
    BY <1>1 DEF SendData
  <2>2. tx'.function = d.function /\ tx'.args = d.args /\ half' = "sender"
    BY <1>1, <2>1 DEF SendData
  <2>3. IsSent(tx')
    BY <2>2, ParsingAssumption DEF IsSent, TransferFunctions, Arg
  <2> QED BY <2>2, <2>3 DEF AgreesInv
<1>2. CASE ExecuteHere
  <2>1. IsSent(tx) /\ half' = "none" /\ tx' = tx /\ executed' = ExecuteOnSender(tx)
    BY <1>2 DEF ExecuteHere, AgreesInv
  <2>2. ReadRight(tx, ExecuteOnSender(tx))
    BY <2>1, ReadRightOnSender
  <2> QED BY <2>1, <2>2 DEF AgreesInv
<1>3. CASE ExecuteAndForward
  <2> DEFINE e == ExecuteOnSender(tx)
  <2>1. IsSent(tx) /\ half' = "destination" /\ executed' = e /\ e.ok
    BY <1>3 DEF ExecuteAndForward, AgreesInv
  <2>2. PICK with \in SUBSET DOMAIN e.tokens : tx' = Message(tx, e, with)
    BY <1>3 DEF ExecuteAndForward
  <2> HIDE DEF e
  <2>3. tx'.function \in TransferFunctions /\ Arrives(tx', e)
    BY <2>1, <2>2, MessageArrives DEF e
  <2>4. Arrives(tx', executed')
    BY <2>1, <2>3
  <2> QED BY <2>1, <2>3, <2>4 DEF AgreesInv
<1>4. CASE ExecuteArrived
  <2> DEFINE a == ExecuteOnDestination(tx)
  <2>1. /\ half' = "none" /\ tx' = tx /\ executed' = a
        /\ tx.function \in TransferFunctions /\ Arrives(tx, executed)
    BY <1>4 DEF ExecuteArrived, AgreesInv
  <2>2. Reads(tx, a)
    BY <2>1 DEF Arrives
  <2>3. ReadRight(tx, a)
    BY <2>1, <2>2, ReadIsReported
  <2> QED BY <2>1, <2>3 DEF AgreesInv
<1>5. CASE NextTransaction
  BY <1>5 DEF NextTransaction, AgreesInv, ReadRight, Failed
<1>6. CASE UNCHANGED parsingVars
  BY <1>6 DEF parsingVars, AgreesInv
<1> QED BY <1>1, <1>2, <1>3, <1>4, <1>5, <1>6 DEF ParsingNext

LEMMA AgreesInvImplies == AgreesInv => ParserAgrees
<1> SUFFICES ASSUME AgreesInv PROVE ParserAgrees
  OBVIOUS
<1>1. CASE half = "sender"
  <2>1. ReadRight(tx, ExecuteOnSender(tx))
    BY <1>1, ReadRightOnSender DEF AgreesInv
  <2> QED BY <1>1, <2>1 DEF ParserAgrees, ReadRight
<1>2. CASE half = "destination"
  <2>1. Arrives(tx, executed) /\ tx.function \in TransferFunctions
    BY <1>2 DEF AgreesInv
  <2>2. ReadRight(tx, executed)
    BY <2>1, ArrivedIsRead, ReadIsReported
  <2> QED BY <1>2, <2>1, <2>2 DEF ParserAgrees, ReadRight, Arrives
<1>3. CASE half = "none"
  BY <1>3 DEF AgreesInv, ParserAgrees, ReadRight
<1> QED BY <1>1, <1>2, <1>3 DEF AgreesInv

(* ParserAgreesHolds: for any accounts, shards and data, what is executed  *)
(* on either shard is what the transfer parser and the data field parser   *)
(* report of the call or the message (ParseDCDTTransfers, dataField), and  *)
(* what the sender's half executes is read again at the destination in     *)
(* whatever form createDCDTNFTOutputTransfers sends its values.            *)
THEOREM ParserAgreesHolds == ParsingSpec => []ParserAgrees
<1>1. ParsingInit => AgreesInv
  BY AgreesInvInit
<1>2. AgreesInv /\ [ParsingNext]_parsingVars => AgreesInv'
  BY AgreesInvNext
<1>3. AgreesInv => ParserAgrees
  BY AgreesInvImplies
<1> QED BY <1>1, <1>2, <1>3, PTL DEF ParsingSpec
=============================================================================
