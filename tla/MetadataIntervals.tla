------------------------- MODULE MetadataIntervals -------------------------
(***************************************************************************)
(* DCDTDeleteMetadata is given lists of intervals of nonces, all in one    *)
(* sequence of arguments: token, number of intervals, first, last, first,  *)
(* last, ..., token, and so on.  It goes through them with indices and     *)
(* nonces of 64 bits, and deletes what it reads from the system account.   *)
(***************************************************************************)
EXTENDS Naturals, Sequences, SequencesExt

CONSTANTS
  Tokens,     \* the token identifiers, each as the number its bytes read as
  Nonces,     \* the nonces that have metadata at first
  Requests,   \* the lists of intervals that calls are given
  MaxWord     \* the largest uint64

ASSUME IntervalsAssumption ==
  /\ MaxWord \in Nat
  /\ Tokens \subseteq 0..MaxWord /\ Nonces \subseteq 1..MaxWord
  /\ \A r \in Requests :
       /\ r.spare \in 0..1
       /\ r.groups \in Seq([token: Tokens, count: 0..MaxWord,
                            list: Seq([first: 0..MaxWord, last: 0..MaxWord])])

VARIABLES
  metadata,   \* the <<token, nonce>> that the system account has metadata of
  request,    \* the request of the latest call
  deletion    \* the call that runs, with the account as it is in memory

intervalVars == <<metadata, request, deletion>>

AllMetadata == Tokens \X Nonces
NoRequest == [groups |-> <<>>, spare |-> 0]

IntervalsInit ==
  /\ metadata = AllMetadata
  /\ request = NoRequest
  /\ deletion = [pc |-> "idle"]

-----------------------------------------------------------------------------
(* An argument: is it a valid token, and what number do its bytes read as? *)

Word(n) == [token |-> FALSE, number |-> n]

GroupArguments(g) ==
  <<[token |-> TRUE, number |-> g.token], Word(g.count)>>
  \o FlattenSeq([k \in DOMAIN g.list |-> <<Word(g.list[k].first), Word(g.list[k].last)>>])

\* A last argument that is on its own is not read.
Arguments(r) ==
  FlattenSeq([k \in DOMAIN r.groups |-> GroupArguments(r.groups[k])])
  \o [k \in 1..r.spare |-> Word(1)]

Plus(m, n) == (m + n) % (MaxWord + 1)
Twice(n) == (n * 2) % (MaxWord + 1)

Fails ==
  /\ deletion' = [pc |-> "ended", ok |-> FALSE]
  /\ UNCHANGED <<metadata, request>>

\* i: the index of the next token, counted from 0
StartDeletion ==
  /\ deletion.pc = "idle"
  /\ request' \in Requests
  /\ deletion' = IF Len(Arguments(request')) < 4
                   THEN [pc |-> "ended", ok |-> FALSE]
                   ELSE [pc |-> "token", i |-> 0, account |-> metadata]
  /\ UNCHANGED metadata

\* ValidateToken, and is there an argument after the number?
StartsList(args, i) == args[i + 1].token /\ i + 2 < Len(args)

\* The loop of deleteMetadata; SaveAccount at its end
ReadToken ==
  LET args == Arguments(request)
      i == deletion.i IN
  /\ deletion.pc = "token"
  /\ \/ /\ i + 1 < Len(args)
        /\ StartsList(args, i)
        /\ deletion' = [pc |-> "interval", token |-> args[i + 1].number, j |-> i + 2,
                        end |-> Plus(i + 2, Twice(args[i + 2].number)),
                        account |-> deletion.account]
        /\ UNCHANGED <<metadata, request>>
     \/ /\ i + 1 < Len(args)
        /\ ~StartsList(args, i)
        /\ Fails
     \/ /\ i + 1 >= Len(args)
        /\ deletion' = [pc |-> "ended", ok |-> TRUE]
        /\ metadata' = deletion.account
        /\ UNCHANGED request

\* Are there two more arguments, and are they an interval?
IsInterval(args, j) ==
  /\ j <= Len(args) - 2
  /\ 0 < args[j + 1].number /\ args[j + 1].number <= args[j + 2].number

\* The loop of deleteMetadataForListIntervals
ReadInterval ==
  LET args == Arguments(request)
      d == deletion IN
  /\ d.pc = "interval"
  /\ \/ /\ d.j >= d.end
        /\ deletion' = [pc |-> "token", i |-> d.end, account |-> d.account]
        /\ UNCHANGED <<metadata, request>>
     \/ /\ d.j < d.end
        /\ ~IsInterval(args, d.j)
        /\ Fails
     \/ /\ d.j < d.end
        /\ IsInterval(args, d.j)
        /\ deletion' = [pc |-> "nonce", token |-> d.token, j |-> d.j + 2, end |-> d.end,
                        nonce |-> args[d.j + 1].number, last |-> args[d.j + 2].number,
                        account |-> d.account]
        /\ UNCHANGED <<metadata, request>>

\* A mutant: the last nonce of an interval is left out.
MoreNoncesBefore(d) == d.nonce < d.last

MoreNonces(d) == d.nonce <= d.last

\* The loop of deleteMetadataForInterval
DeleteNonce ==
  LET d == deletion IN
  /\ d.pc = "nonce"
  /\ deletion' =
       IF MoreNonces(d)
         THEN [d EXCEPT !.account = @ \ {<<d.token, d.nonce>>}, !.nonce = Plus(@, 1)]
         ELSE [pc |-> "interval", token |-> d.token, j |-> d.j, end |-> d.end,
               account |-> d.account]
  /\ UNCHANGED <<metadata, request>>

\* DCDTAddMetadata, given what is missing; another deletion may follow.
AddMissing ==
  /\ deletion.pc = "ended"
  /\ metadata' = AllMetadata
  /\ deletion' = [pc |-> "idle"]
  /\ request' = NoRequest

DeletionStep == ReadToken \/ ReadInterval \/ DeleteNonce

IntervalsNext == StartDeletion \/ DeletionStep \/ AddMissing

\* A call runs to its end.
IntervalsFairness == WF_intervalVars(DeletionStep)

IntervalsSpec == IntervalsInit /\ [][IntervalsNext]_intervalVars /\ IntervalsFairness
-----------------------------------------------------------------------------
(* Properties *)

IntervalsTypeOK ==
  /\ metadata \in SUBSET AllMetadata
  /\ request = NoRequest \/ request \in Requests
  /\ deletion.pc \in {"idle", "token", "interval", "nonce", "ended"}
  /\ deletion.pc \in {"token", "interval", "nonce"} => deletion.account \subseteq metadata

(* What the words can express: no interval ends at the last uint64, and no *)
(* number of intervals is so large that the index after them wraps.        *)
InRange(r) ==
  \A g \in Range(r.groups) :
    /\ Len(Arguments(r)) + 2 * g.count <= MaxWord
    /\ \A v \in Range(g.list) : v.last < MaxWord

\* The format in deleteMetadata's comment: list(tokenID-numIntervals-list(start,end))
WellFormed(r) ==
  /\ \A g \in Range(r.groups) :
       /\ g.count = Len(g.list)
       /\ \A v \in Range(g.list) : 0 < v.first /\ v.first <= v.last
  /\ Len(Arguments(r)) >= 4
  /\ Last(r.groups).list # <<>> \/ r.spare = 1

Listed(r) ==
  {x \in AllMetadata :
     \E g \in Range(r.groups) : \E v \in Range(g.list) :
       x[1] = g.token /\ v.first <= x[2] /\ x[2] <= v.last}

(* DeletesListed: a call whose numbers stay in range ends; if its request  *)
(* is a list in the documented format exactly the listed nonces have lost  *)
(* their metadata, and otherwise none has (deleteMetadata and the two      *)
(* loops below it).                                                        *)
DeletesListed ==
  deletion.pc = "token" /\ InRange(request) ~>
    /\ deletion.pc = "ended"
    /\ deletion.ok <=> WellFormed(request)
    /\ metadata = IF WellFormed(request) THEN AllMetadata \ Listed(request) ELSE AllMetadata
=============================================================================
