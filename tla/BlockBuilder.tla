---------------------------- MODULE BlockBuilder ----------------------------
(***************************************************************************)
(* Chain.BuildBlockTxs: which pooled transactions go into the next block.  *)
(* The loop's state is what is left of each sender's queue (nothing, once  *)
(* the sender is no longer active), the transactions included so far and   *)
(* the gas they declare.                                                   *)
(***************************************************************************)
EXTENDS Ledger

CONSTANTS
    Txs,          \* the transactions that are ever signed
    AddressOrder  \* the users in the order of their hexadecimal addresses

Uint64 == 0..(Word - 1)

(* A signed transaction: run is what the code that it calls does.          *)
Tx == [from : Users, to : Address, nonce : 0..MaxNonce, value : Uint64, data : BOOLEAN,
       gasLimit : Uint64, feeCap : Uint64, tipCap : Uint64,
       run : [gas : Nat, ok : BOOLEAN, pays : Uint64, payee : Address, destroys : BOOLEAN],
       genuine : BOOLEAN]

ASSUME TxAssumption == Txs \subseteq Tx

ASSUME OrderAssumption ==
    /\ AddressOrder \in Seq(Users)
    /\ Range(AddressOrder) = Users /\ Len(AddressOrder) = Cardinality(Users)

isFeePriced(st, tx) ==
    /\ ~IsExchangeTx(tx) /\ ~IsAttestationTx(tx)
    /\ isEVMTx(st, tx) \/ isContractTx(st, tx)

(* A queue with one more transaction, at its place by nonce.               *)
enqueue(queue, tx) ==
    LET k == Min({i \in 1..Len(queue) : queue[i].nonce > tx.nonce} \cup {Len(queue) + 1}) - 1
    IN  SubSeq(queue, 1, k) \o <<tx>> \o SubSeq(queue, k + 1, Len(queue))

(* Each sender's transactions, by nonce.                                   *)
bySender(pool) ==
    loop([u \in Users |-> <<>>],
         [n \in 1..Len(pool) |-> [queues \in [Users -> Seq(Txs)] |->
             [queues EXCEPT ![pool[n].from] = enqueue(@, pool[n])]]])

Selection == [queue : [Users -> Seq(Txs)], included : Seq(Txs), budget : Nat]

(* How many transactions at the front of a queue need no gas.              *)
freePass(st, queue) ==
    Min({i \in 1..Len(queue) : isFeePriced(st, queue[i])} \cup {Len(queue) + 1}) - 1

(* The first half of an iteration: all of those, sender by sender.         *)
drainSender(st, s, u) ==
    LET free == freePass(st, s.queue[u])
    IN  [s EXCEPT !.included = @ \o SubSeq(s.queue[u], 1, free),
                  !.queue[u] = SubSeq(@, free + 1, Len(@))]

drain(st, s) ==
    loop(s, [k \in 1..Len(AddressOrder) |->
                [d \in Selection |-> drainSender(st, d, AddressOrder[k])]])

(* Mutant: a transaction that is priced out is passed over, not its sender. *)
selectSkipping(st, s, baseFee) ==
    LET front(u)   == s.queue[u][1]
        active     == {u \in Users : s.queue[u] # <<>>}
        candidates == {u \in active : front(u).feeCap >= baseFee}
        winner     == AddressOrder[Min({k \in 1..Len(AddressOrder) :
                                           AddressOrder[k] \in candidates})]
        skipped    == [u \in Users |-> IF u \in active \ candidates
                                       THEN Tail(s.queue[u]) ELSE s.queue[u]]
    IN  IF candidates = {} THEN [s EXCEPT !.queue = skipped]
        ELSE [queue    |-> [skipped EXCEPT ![winner] = Tail(@)],
              included |-> Append(s.included, front(winner)),
              budget   |-> s.budget]

(* The second half: of the fronts that can pay the base fee the one with   *)
(* the highest tip, if its gas limit still fits.                           *)
select(st, s, baseFee) ==
    LET front(u)   == s.queue[u][1]
        active     == {u \in Users : s.queue[u] # <<>>}
        tip(u)     == priorityFee(baseFee, front(u).feeCap, front(u).tipCap)
        candidates == {u \in active : front(u).feeCap >= baseFee}
        best       == {u \in candidates : \A v \in candidates : tip(u) >= tip(v)}
        winner     == AddressOrder[Min({k \in 1..Len(AddressOrder) : AddressOrder[k] \in best})]
        dropped(out) == [u \in Users |-> IF u \in out THEN <<>> ELSE s.queue[u]]
    IN  IF candidates = {} THEN [s EXCEPT !.queue = dropped(active)]
        ELSE IF Wrap(s.budget + front(winner).gasLimit) > GasLimit
        THEN [s EXCEPT !.queue = dropped((active \ candidates) \cup {winner})]
        ELSE [queue    |-> [dropped(active \ candidates) EXCEPT ![winner] = Tail(@)],
              included |-> Append(s.included, front(winner)),
              budget   |-> Wrap(s.budget + front(winner).gasLimit)]

(* An iteration takes at least one transaction or one sender out, and      *)
(* changes nothing when no sender is active: as many as there are          *)
(* transactions are enough.                                                *)
BuildBlockTxs(st, pool, baseFee) ==
    LET selected == [s \in Selection |-> select(st, s, baseFee)] IN
    loop([queue |-> bySender(pool), included |-> <<>>, budget |-> 0],
         [n \in 1..Len(pool) |-> [s \in Selection |-> selected[drain(st, s)]]]).included
=============================================================================
