-------------------------- MODULE TransferParsing --------------------------
(***************************************************************************)
(* The data of a token transfer is a sequence of arguments.  The built-in  *)
(* function reads it on the sender's shard, writes another one for the     *)
(* destination's shard and reads that there.  Independently of it, the     *)
(* transfer parser and the data field parser tell the virtual machine and  *)
(* the node what is transferred, from the same arguments: who receives     *)
(* what, and which function is called then.                                *)
(*                                                                         *)
(* A transaction is [function, from, to, args], its arguments are byte     *)
(* strings.  What is transferred has metadata (NftLedger), so that its     *)
(* marshalled form is longer than MaxLengthForValueToOptTransfer.  Roles,  *)
(* balances, gas, freezes and the payable check are the ledgers' concern.  *)
(* Numbers of tokens are so small that three times them do not wrap.       *)
(***************************************************************************)
EXTENDS Naturals, Sequences, SequencesExt

CONSTANTS
  Addresses,     \* the accounts; each is the number that its bytes read as
  Contracts,     \* those that are contracts
  ShardOfAddress,
  Data,          \* the [function, args] that users send
  TwoTo64,       \* numbers of this size do not fit 64 bits
  TwoTo256       \* numbers of this size take more than 32 bytes

AddressLength == 32
MaxLengthForValueToOptTransfer == 32

(* No account has an address that fits 64 bits.  Users send data of the    *)
(* three functions: what they give as an address where a list starts is    *)
(* one, and they list only so many tokens.                                 *)
ASSUME ParsingAssumption ==
  /\ Addresses \subseteq TwoTo64..(TwoTo256 - 1) /\ Contracts \subseteq Addresses
  /\ TwoTo64 \in Nat \ {0} /\ TwoTo256 \in Nat \ {0}
  /\ \A d \in Data :
       /\ d.function \in {"DCDTTransfer", "DCDTNFTTransfer", "MultiDCDTNFTTransfer"}
       /\ d.args \in Seq([number: Nat, size: Nat, unmarshals: SUBSET Nat])
       /\ d.function = "MultiDCDTNFTTransfer" /\ Len(d.args) >= 2 =>
            /\ d.args[1].size = AddressLength => d.args[1].number \in Addresses
            /\ 3 * (d.args[2].number % TwoTo64) + 2 < TwoTo64

VARIABLES
  tx,        \* the transaction, or the message that it has become
  half,      \* whose shard is next: "sender", "destination" or "none"
  executed   \* what the latest execution has transferred

parsingVars == <<tx, half, executed>>

(* A byte string: the number it reads as, its length, and what number of   *)
(* tokens it unmarshals to.                                                *)
Bytes(n, size) == [number |-> n, size |-> size, unmarshals |-> {}]
SizeOf(n) == IF n = 0 THEN 0 ELSE IF n < TwoTo256 THEN 1 ELSE MaxLengthForValueToOptTransfer + 1
NumberBytes(n) == Bytes(n, SizeOf(n))
AddressBytes(a) == Bytes(a, AddressLength)
Marshalled(v) ==
  [number |-> TwoTo256 + v, size |-> MaxLengthForValueToOptTransfer + 2, unmarshals |-> {v}]
ZeroByteArray == Bytes(0, 1)

Uint64(arg) == arg.number % TwoTo64
IsLong(arg) == arg.size > MaxLengthForValueToOptTransfer

Token(name, nonce, value) == [name |-> name, nonce |-> nonce, value |-> value]
Failed == [ok |-> FALSE]
Transfers(to, tokens, call) == [ok |-> TRUE, to |-> to, tokens |-> tokens, call |-> call]

\* The arguments from index i on, counted from 0
From(args, i) == SubSeq(args, i + 1, Len(args))

\* What a value stands for: in the destination's half some are marshalled.
ValueOf(arg, nonce, unmarshals) ==
  IF unmarshals /\ nonce > 0 /\ IsLong(arg)
    THEN IF arg.unmarshals = {} THEN 0 ELSE CHOOSE v \in arg.unmarshals : TRUE
    ELSE arg.number

\* The n tokens of a list that starts at index i
TokensAt(args, i, n, unmarshals) ==
  [k \in 1..n |->
     LET nonce == Uint64(args[i + 3 * k - 1]) IN
     Token(args[i + 3 * k - 2], nonce, ValueOf(args[i + 3 * k], nonce, unmarshals))]

\* Does every value that has to unmarshal do so?
Readable(args, i, n) ==
  \A k \in 1..n :
    Uint64(args[i + 3 * k - 1]) > 0 /\ IsLong(args[i + 3 * k]) => args[i + 3 * k].unmarshals # {}

-----------------------------------------------------------------------------
(* The transfer parser: ParseDCDTTransfers.  A call is the arguments from  *)
(* its function on.                                                        *)

ParseSingleDCDTTransfer(t) ==
  IF Len(t.args) < 2 THEN Failed
  ELSE Transfers(t.to, <<Token(t.args[1], 0, t.args[2].number)>>, From(t.args, 2))

ParseSingleDCDTNFTTransfer(t) ==
  IF Len(t.args) < 4 THEN Failed
  ELSE Transfers(IF t.from = t.to THEN t.args[4].number ELSE t.to,
                 <<Token(t.args[1], Uint64(t.args[2]), t.args[3].number)>>,
                 From(t.args, 4))

\* The first argument is the destination, in the sender's half only.
IsFirstArgumentAnAddress(args) ==
  args[1].size = AddressLength /\ args[1].number >= TwoTo64

\* A mutant: long values have to unmarshal in the sender's half too.
UnmarshalsEverywhere(args) == TRUE

UnmarshalsValues(args) == ~IsFirstArgumentAnAddress(args)

ParseMultiDCDTNFTTransfer(t) ==
  LET args == t.args
      atSender == IsFirstArgumentAnAddress(args)
      start == IF atSender THEN 2 ELSE 1
      n == Uint64(args[start])
      minLenArgs == (3 * n + start) % TwoTo64 IN
  IF Len(args) < 4 \/ Len(args) < minLenArgs THEN Failed
  ELSE IF UnmarshalsValues(args) /\ ~Readable(args, start, n) THEN Failed
  ELSE Transfers(IF atSender THEN args[1].number ELSE t.to,
                 TokensAt(args, start, n, UnmarshalsValues(args)),
                 From(args, minLenArgs))

Parsed(t) ==
  CASE t.function = "DCDTTransfer" -> ParseSingleDCDTTransfer(t)
    [] t.function = "DCDTNFTTransfer" -> ParseSingleDCDTNFTTransfer(t)
    [] t.function = "MultiDCDTNFTTransfer" -> ParseMultiDCDTNFTTransfer(t)
    [] OTHER -> Failed

-----------------------------------------------------------------------------
(* The data field parser.  Its response has the tokens, their values, the  *)
(* receivers (none for DCDTTransfer) and the function that is called; the  *)
(* texts of tokens and functions are ASCII.                                *)

\* computeTokenIdentifier of a fungible token in DCDTNFTTransfer is "".
ReportedToken(t, token) ==
  IF t.function = "DCDTNFTTransfer" /\ token.nonce = 0
    THEN <<>>
    ELSE <<token.name, token.nonce>>

Response(tokens, values, receivers, function, isRelayed) ==
  [tokens |-> tokens, values |-> values, receivers |-> receivers,
   function |-> function, isRelayed |-> isRelayed]

NoResponse(isRelayed) == Response(<<>>, <<>>, <<>>, <<>>, isRelayed)

\* Whom the response names as receivers
ReceiversOf(t, p) ==
  CASE t.function = "DCDTTransfer" -> <<>>
    [] t.function = "DCDTNFTTransfer" ->
         IF t.from = t.to /\ t.args[4].size # AddressLength THEN <<>> ELSE <<p.to>>
    [] OTHER -> [k \in DOMAIN p.tokens |-> p.to]

Reported(t, p) ==
  Response([k \in DOMAIN p.tokens |-> ReportedToken(t, p.tokens[k])],
           [k \in DOMAIN p.tokens |-> p.tokens[k].value],
           ReceiversOf(t, p),
           IF p.to \in Contracts /\ p.call # <<>> THEN <<p.call[1]>> ELSE <<>>,
           FALSE)

Parse(t) == IF Parsed(t).ok THEN Reported(t, Parsed(t)) ELSE NoResponse(FALSE)

\* parseRelayed: t is the inner transaction, and is none that is relayed.
ParseRelayed(t) ==
  LET r == Parse(t) IN
  [r EXCEPT !.receivers = IF t.function = "DCDTTransfer" THEN <<t.to>> ELSE @,
            !.isRelayed = TRUE]

-----------------------------------------------------------------------------
(* The functions, as far as they read and write arguments.                 *)

\* DetermineIsSCCallAfter with all flags, of a transfer that is no return
CallAfter(to, call) ==
  IF to \in Contracts /\ call # <<>> /\ call[1].size > 0 THEN call ELSE <<>>

\* On the destination's shard NFT functions do not look at the name.
CallArrived(to, call) == IF to \in Contracts THEN call ELSE <<>>

ExecuteDCDTTransfer(t) ==
  IF Len(t.args) < 2 \/ t.args[2].number = 0 THEN Failed
  ELSE Transfers(t.to, <<Token(t.args[1], 0, t.args[2].number)>>,
                 CallAfter(t.to, From(t.args, 2)))

MayReceive(t, arg) == arg.size = AddressLength /\ arg.number # t.from

\* processNFTTransferOnSenderShard
ExecuteNFTTransferOnSender(t) ==
  LET args == t.args IN
  IF \/ Len(args) < 4 \/ t.from # t.to \/ ~MayReceive(t, args[4])
     \/ Uint64(args[2]) = 0 \/ args[3].number = 0
    THEN Failed
    ELSE Transfers(args[4].number, <<Token(args[1], Uint64(args[2]), args[3].number)>>,
                   CallAfter(args[4].number, From(args, 4)))

\* createNFTOutputTransfers; with: the tokens whose metadata is sent
NFTMessage(t, with) ==
  LET v == t.args[3].number IN
  SubSeq(t.args, 1, 3)
    \o <<IF with # {} \/ v = 1 THEN Marshalled(v) ELSE ZeroByteArray>>
    \o From(t.args, 4)

ExecuteNFTTransferOnDestination(t) ==
  LET args == t.args IN
  IF Len(args) < 4 \/ (args[4] # ZeroByteArray /\ args[4].unmarshals = {}) THEN Failed
  ELSE Transfers(t.to,
                 <<Token(args[1], Uint64(args[2]),
                         IF args[4] = ZeroByteArray THEN args[3].number
                         ELSE CHOOSE v \in args[4].unmarshals : TRUE)>>,
                 CallArrived(t.to, From(args, 4)))

\* processDCDTNFTMultiTransferOnSenderShard
ExecuteMultiOnSender(t) ==
  LET args == t.args
      n == Uint64(args[2])
      minNumOfArguments == (3 * n + 2) % TwoTo64 IN
  IF Len(args) < 4 \/ t.from # t.to \/ ~MayReceive(t, args[1]) THEN Failed
  ELSE IF n = 0 \/ Len(args) < minNumOfArguments THEN Failed
  ELSE IF \E k \in 1..n : args[2 + 3 * k].number = 0 THEN Failed
  ELSE Transfers(args[1].number, TokensAt(args, 2, n, FALSE),
                 CallAfter(args[1].number, From(args, minNumOfArguments)))

\* A value in createDCDTNFTOutputTransfers
ValueBytes(token, isWith) ==
  IF token.nonce > 0
       /\ (isWith \/ token.value = 1 \/ IsLong(NumberBytes(token.value)))
    THEN Marshalled(token.value)
    ELSE NumberBytes(token.value)

MultiMessage(t, tokens, with) ==
  <<NumberBytes(Len(tokens))>>
    \o FlattenSeq([k \in DOMAIN tokens |->
         <<tokens[k].name,
           IF tokens[k].nonce = 0 THEN ZeroByteArray ELSE NumberBytes(tokens[k].nonce),
           ValueBytes(tokens[k], k \in with)>>])
    \o From(t.args, 3 * Len(tokens) + 2)

ExecuteMultiOnDestination(t) ==
  LET args == t.args
      n == Uint64(args[1])
      minNumOfArguments == (3 * n + 1) % TwoTo64 IN
  IF Len(args) < 4 \/ n = 0 \/ Len(args) < minNumOfArguments THEN Failed
  ELSE IF ~Readable(args, 1, n) THEN Failed
  ELSE Transfers(t.to, TokensAt(args, 1, n, TRUE),
                 CallArrived(t.to, From(args, minNumOfArguments)))

ExecuteOnSender(t) ==
  CASE t.function = "DCDTTransfer" -> ExecuteDCDTTransfer(t)
    [] t.function = "DCDTNFTTransfer" -> ExecuteNFTTransferOnSender(t)
    [] t.function = "MultiDCDTNFTTransfer" -> ExecuteMultiOnSender(t)

ExecuteOnDestination(t) ==
  CASE t.function = "DCDTTransfer" -> ExecuteDCDTTransfer(t)
    [] t.function = "DCDTNFTTransfer" -> ExecuteNFTTransferOnDestination(t)
    [] t.function = "MultiDCDTNFTTransfer" -> ExecuteMultiOnDestination(t)

\* The message that carries the transfers e of t to another shard
Message(t, e, with) ==
  [function |-> t.function, from |-> t.from, to |-> e.to,
   args |-> CASE t.function = "DCDTTransfer" -> t.args
              [] t.function = "DCDTNFTTransfer" -> NFTMessage(t, with)
              [] t.function = "MultiDCDTNFTTransfer" -> MultiMessage(t, e.tokens, with)]

-----------------------------------------------------------------------------
NoTx == [function |-> "none"]

ParsingInit == tx = NoTx /\ half = "none" /\ executed = Failed

SendData ==
  /\ tx = NoTx
  /\ \E from, to \in Addresses, d \in Data :
       tx' = [function |-> d.function, from |-> from, to |-> to, args |-> d.args]
  /\ half' = "sender"
  /\ UNCHANGED executed

\* The function fails, or the receiver is on the same shard.
ExecuteHere ==
  LET e == ExecuteOnSender(tx) IN
  /\ half = "sender"
  /\ e.ok => ShardOfAddress[e.to] = ShardOfAddress[tx.from]
  /\ executed' = e
  /\ half' = "none"
  /\ UNCHANGED tx

(* The call goes on with a message.  Which tokens carry their metadata is  *)
(* decided by WasAlreadySentToDestinationShardAndUpdateState (NftLedger).  *)
ExecuteAndForward ==
  LET e == ExecuteOnSender(tx) IN
  /\ half = "sender"
  /\ e.ok /\ ShardOfAddress[e.to] # ShardOfAddress[tx.from]
  /\ executed' = e
  /\ \E with \in SUBSET DOMAIN e.tokens : tx' = Message(tx, e, with)
  /\ half' = "destination"

ExecuteArrived ==
  /\ half = "destination"
  /\ executed' = ExecuteOnDestination(tx)
  /\ half' = "none"
  /\ UNCHANGED tx

\* The next transaction has nothing to do with this one.
NextTransaction ==
  /\ half = "none" /\ tx # NoTx
  /\ tx' = NoTx /\ executed' = Failed
  /\ UNCHANGED half

ParsingNext ==
  \/ SendData
  \/ ExecuteHere \/ ExecuteAndForward \/ ExecuteArrived \/ NextTransaction

ParsingSpec == ParsingInit /\ [][ParsingNext]_parsingVars
-----------------------------------------------------------------------------
(* Properties *)

ParsingTypeOK ==
  /\ half \in {"none", "sender", "destination"}
  /\ executed.ok \in BOOLEAN
  /\ tx.function = "none" => half = "none" /\ ~executed.ok

\* The transfer parser reports the transfers e, and a call if one is made.
Agrees(p, e) ==
  /\ p.ok /\ p.to = e.to /\ p.tokens = e.tokens
  /\ e.call # <<>> => p.call = e.call

\* So does the data field parser.
Reports(r, e) ==
  /\ r.tokens = [k \in DOMAIN e.tokens |-> <<e.tokens[k].name, e.tokens[k].nonce>>]
  /\ r.values = [k \in DOMAIN e.tokens |-> e.tokens[k].value]
  /\ \A a \in Range(r.receivers) : a = e.to
  /\ e.call # <<>> => r.function = <<e.call[1]>>

(* ParserAgrees: what a call or a message executes is what the parsers     *)
(* read in it, on both shards and inside a relayed transaction; and what   *)
(* is executed on the sender's shard is read again on the destination's,   *)
(* in whatever form its values are sent (dcdtTransferParser, dataField,    *)
(* createDCDTNFTOutputTransfers).                                          *)
ParserAgrees ==
  LET e == IF half = "sender" THEN ExecuteOnSender(tx) ELSE executed IN
  /\ e.ok =>
       /\ Agrees(Parsed(tx), e)
       /\ Reports(Parse(tx), e) /\ Reports(ParseRelayed(tx), e)
       /\ ParseRelayed(tx).receivers # <<>>
  /\ half = "destination" =>
       LET arrived == ExecuteOnDestination(tx) IN
       /\ arrived.ok /\ arrived.to = e.to /\ arrived.tokens = e.tokens
       /\ e.call # <<>> => arrived.call = e.call
=============================================================================
