------------------------------ MODULE Journal ------------------------------
(***************************************************************************)
(* evm/adapter: the state the embedded EVM runs one transaction on.  Every *)
(* method writes through to the base state at once and appends to a        *)
(* journal how to undo the write; a snapshot is a length of the journal.   *)
(* The interpreter is external: it opens and leaves call frames, calls the *)
(* methods in between, and checks what go-ethereum's checks.               *)
(*                                                                         *)
(* The whole of the adapter's revertible state is one table, db, of parts: *)
(* the account fields in the base state, and the adapter's own maps.       *)
(***************************************************************************)
EXTENDS Integers, Sequences, FiniteSets, FiniteSetsExt

CONSTANTS
    Addr,         \* addresses, each with one storage slot and one transient one
    Contracts,    \* those that are or may become contracts
    Sender,
    Uint64,       \* 2^64: the bound of balances
    Accounts,     \* account tables a transaction may find: part -> address -> value
    Amounts,      \* amounts of transfers
    MaxJournal,   \* bound: entries of the journal
    MaxFrames     \* bound: nested call frames, the transaction's own included

NoCode == "none"
Native == "native"   \* code without TagCode's prefix, that of the other VM
Tagged == "tagged"

AccountParts == {"balance", "nonce", "code", "storage"}
FlagParts == {"touched", "selfDestructed", "newContracts", "warmAddrs", "warmSlots"}
Parts == AccountParts \cup FlagParts \cup {"transient", "refund", "logs"}
Whole == "whole"     \* the one key of the refund counter and of the log
keysOf(p) == IF p \in {"refund", "logs"} THEN {Whole} ELSE Addr

ASSUME JournalAssumption ==
    /\ IsFiniteSet(Addr) /\ Contracts \subseteq Addr /\ Sender \in Addr \ Contracts
    /\ Uint64 \in Nat \ {0} /\ MaxJournal \in Nat /\ MaxFrames \in Nat
    /\ Amounts \subseteq Nat
    /\ \A t \in Accounts : /\ t = [p \in AccountParts |-> [a \in Addr |-> t[p][a]]]
                           /\ t["balance"] \in [Addr -> 0..(Uint64 - 1)]

VARIABLES
    db,         \* part -> key -> value
    journal,    \* the undo entries: [part, key, prev]
    committed,  \* the slots read or written: address -> its value before the transaction
    err,        \* the latched error: TRUE when a balance has left uint64
    frames,     \* the snapshots the interpreter holds, the transaction's preCall first
    phase,      \* "running", "settled" or "done"
    original,   \* history: the account fields the transaction found
    ended       \* history: whether the frame that ended last has succeeded

journalVars == <<db, journal, committed, err, frames, phase, original, ended>>

accountsOf(d) == [p \in AccountParts |-> d[p]]

(* The table New and Prepare leave, with nothing of the adapter's own but  *)
(* the sender warm.                                                        *)
freshPart(accounts, p) ==
    CASE p \in AccountParts -> accounts[p]
      [] p = "warmAddrs" -> [a \in Addr |-> a = Sender]
      [] p \in FlagParts \ {"warmAddrs"} -> [a \in Addr |-> FALSE]
      [] p = "transient" -> [a \in Addr |-> 0]
      [] p \in {"refund", "logs"} -> [k \in {Whole} |-> 0]
fresh(accounts) == [p \in Parts |-> freshPart(accounts, p)]

(* New and Prepare, and preCall := Snapshot().                             *)
JournalInit ==
    /\ original \in Accounts
    /\ db = fresh(original)
    /\ journal = <<>>
    /\ committed = <<>>
    /\ err = FALSE
    /\ frames = <<0>>
    /\ phase = "running"
    /\ ended = FALSE

-----------------------------------------------------------------------------
(* An undo closure puts back what it captured; that of SetCode captured    *)
(* the code without its tag and tags what it puts back.                    *)
undo(d, e) ==
    [d EXCEPT ![e.part][e.key] = IF e.part = "code" /\ e.prev # NoCode THEN Tagged ELSE e.prev]

(* For every length of the journal j, the table d with the entries beyond  *)
(* it undone, the latest first.                                            *)
history(d, j) ==
    LET at[id \in 0..Len(j)] == IF id = Len(j) THEN d ELSE undo(at[id + 1], j[id + 1])
    IN  at
undone(id) == history(db, journal)[id]

revert(id) ==
    /\ db' = undone(id)
    /\ journal' = SubSeq(journal, 1, id)

(* A write with its journal entry; a flag is journaled when it is first    *)
(* set.  A method's writes are made one upon the other.                    *)
now == [db |-> db, journal |-> journal]
set(s, part, key, value) ==
    [db |-> [s.db EXCEPT ![part][key] = value],
     journal |-> Append(s.journal, [part |-> part, key |-> key, prev |-> s.db[part][key]])]
flag(s, part, a) == IF s.db[part][a] THEN s ELSE set(s, part, a, TRUE)
touch(s, a) == flag(s, "touched", a)

become(s) ==
    /\ Len(s.journal) <= MaxJournal
    /\ db' = s.db
    /\ journal' = s.journal

Executing == phase = "running"
methodVars == <<frames, phase, original, ended>>

SetNonce(a) ==
    /\ Executing
    /\ become(set(touch(now, a), "nonce", a, db["nonce"][a] + 1))
    /\ UNCHANGED <<committed, err, methodVars>>

(* Mutant: balances wrap around.                                           *)
TransferWraps(a, b, amount) ==
    LET paid == set(touch(now, a), "balance", a, db["balance"][a] - amount)
        sum == paid.db["balance"][b] + amount
    IN  /\ Executing
        /\ amount <= db["balance"][a]
        /\ become(set(touch(paid, b), "balance", b, sum % Uint64))
        /\ UNCHANGED <<committed, err, methodVars>>

(* Transfer is SubBalance and AddBalance, after CanTransfer: an amount     *)
(* that would take the receiver out of uint64 is latched, and not added.   *)
Transfer(a, b, amount) ==
    LET paid == set(touch(now, a), "balance", a, db["balance"][a] - amount)
        sum == paid.db["balance"][b] + amount
        over == sum >= Uint64
    IN  /\ Executing
        /\ amount <= db["balance"][a]
        /\ become(IF over THEN touch(paid, b) ELSE set(touch(paid, b), "balance", b, sum))
        /\ err' = (err \/ over)
        /\ UNCHANGED <<committed, methodVars>>

(* Called for a newly created contract only, which has no code.            *)
SetCode(a) ==
    /\ Executing
    /\ db["code"][a] = NoCode
    /\ become(set(touch(now, a), "code", a, Tagged))
    /\ UNCHANGED <<committed, err, methodVars>>

SetRefund(gas) ==
    /\ Executing
    /\ become(set(now, "refund", Whole, gas))
    /\ UNCHANGED <<committed, err, methodVars>>

(* create: CreateAccount if it does not exist, CreateContract.             *)
CreateContract(a) ==
    /\ Executing
    /\ db["code"][a] = NoCode /\ db["nonce"][a] = 0
    /\ become(flag(touch(now, a), "newContracts", a))
    /\ UNCHANGED <<committed, err, methodVars>>

(* Called for contracts created in the transaction only.                   *)
SelfDestruct(a) ==
    /\ Executing
    /\ db["newContracts"][a]
    /\ become(flag(touch(now, a), "selfDestructed", a))
    /\ UNCHANGED <<committed, err, methodVars>>

AddSlotToAccessList(a) ==
    /\ Executing
    /\ become(flag(flag(now, "warmAddrs", a), "warmSlots", a))
    /\ UNCHANGED <<committed, err, methodVars>>

SetTransientState(a, v) ==
    /\ Executing
    /\ become(IF db["transient"][a] = v THEN now ELSE set(now, "transient", a, v))
    /\ UNCHANGED <<committed, err, methodVars>>

(* Mutant: logs are append-only.                                           *)
AddLogAppendOnly ==
    /\ Executing
    /\ db' = [db EXCEPT !["logs"][Whole] = 1]
    /\ UNCHANGED <<journal, committed, err, methodVars>>

AddLog ==
    /\ Executing
    /\ become(set(now, "logs", Whole, db["logs"][Whole] + 1))
    /\ UNCHANGED <<committed, err, methodVars>>

cacheCommitted(a) ==
    committed' = IF a \in DOMAIN committed THEN committed
                 ELSE [b \in DOMAIN committed \cup {a} |->
                         IF b = a THEN db["storage"][a] ELSE committed[b]]

GetStateAndCommittedState(a) ==
    /\ Executing
    /\ cacheCommitted(a)
    /\ UNCHANGED <<db, journal, err, methodVars>>

(* Mutant: the value is cached when it has been overwritten.               *)
SetStateCachingLate(a, v) ==
    /\ Executing
    /\ become(set(touch(now, a), "storage", a, v))
    /\ committed' = IF a \in DOMAIN committed THEN committed
                    ELSE [b \in DOMAIN committed \cup {a} |-> IF b = a THEN v ELSE committed[b]]
    /\ UNCHANGED <<err, methodVars>>

SetState(a, v) ==
    /\ Executing
    /\ cacheCommitted(a)
    /\ become(set(touch(now, a), "storage", a, v))
    /\ UNCHANGED <<err, methodVars>>

-----------------------------------------------------------------------------
(* The interpreter opens a call frame, leaves it well, or fails it.        *)
Snapshot ==
    /\ Executing
    /\ Len(frames) < MaxFrames
    /\ frames' = Append(frames, Len(journal))
    /\ UNCHANGED <<db, journal, committed, err, phase, original, ended>>

Leave ==
    /\ Executing
    /\ Len(frames) > 1
    /\ frames' = SubSeq(frames, 1, Len(frames) - 1)
    /\ ended' = TRUE
    /\ UNCHANGED <<db, journal, committed, err, phase, original>>

RevertToSnapshot ==
    /\ Executing
    /\ Len(frames) > 1
    /\ revert(frames[Len(frames)])
    /\ frames' = SubSeq(frames, 1, Len(frames) - 1)
    /\ ended' = FALSE
    /\ UNCHANGED <<committed, err, phase, original>>

(* Mutant: the latched error is not looked at.                             *)
SettleAnyhow ==
    /\ Executing
    /\ Len(frames) = 1
    /\ frames' = <<>>
    /\ phase' = "settled"
    /\ ended' = ~err
    /\ UNCHANGED <<db, journal, committed, err, original>>

(* applyEVMTx when the call returns: everything is undone if an error was  *)
(* latched.                                                                *)
Settle ==
    /\ Executing
    /\ Len(frames) = 1
    /\ IF err THEN revert(frames[1]) ELSE UNCHANGED <<db, journal>>
    /\ frames' = <<>>
    /\ phase' = "settled"
    /\ ended' = ~err
    /\ UNCHANGED <<committed, err, original>>

isEmpty(a) == db["balance"][a] = 0 /\ db["nonce"][a] = 0 /\ db["code"][a] = NoCode

(* The accounts that destroyed themselves or are empty go, with their      *)
(* flags.                                                                  *)
Finalise ==
    LET gone == {a \in Addr : db["touched"][a] /\ (db["selfDestructed"][a] \/ isEmpty(a))}
        cleared(p) == CASE p \in {"balance", "nonce", "storage"} -> 0
                        [] p = "code" -> NoCode
                        [] OTHER -> FALSE
    IN  /\ phase = "settled"
        /\ db' = [p \in DOMAIN db |->
                    [k \in DOMAIN db[p] |->
                       IF k \in gone /\ p \in AccountParts \cup
                                              {"touched", "selfDestructed", "newContracts"}
                       THEN cleared(p) ELSE db[p][k]]]
        /\ phase' = "done"
        /\ UNCHANGED <<journal, committed, err, frames, original, ended>>

JournalNext ==
    \/ \E a \in Addr : SetNonce(a)
    \/ \E a \in Contracts : \/ SetCode(a) \/ CreateContract(a) \/ SelfDestruct(a)
                            \/ AddSlotToAccessList(a) \/ GetStateAndCommittedState(a)
    \/ \E a, b \in Addr, amount \in Amounts : Transfer(a, b, amount)
    \/ \E a \in Contracts, v \in 0..1 : SetTransientState(a, v) \/ SetState(a, v)
    \/ \E gas \in 0..1 : SetRefund(gas)
    \/ AddLog
    \/ Snapshot \/ Leave \/ RevertToSnapshot \/ Settle \/ Finalise

JournalSpec == JournalInit /\ [][JournalNext]_journalVars

-----------------------------------------------------------------------------
(* The journal does what keeping copies of the whole state would, however  *)
(* snapshots nest: a frame that fails, or the transaction with a latched   *)
(* error, leaves nothing behind in the base state or in the adapter's own  *)
(* maps ("applying it restores s to the value it held immediately before   *)
(* the mutation"), and one that succeeds loses nothing.                    *)
copies == Append([i \in DOMAIN frames |-> undone(frames[i])], db)
Copies == INSTANCE Snapshots WITH stack <- copies, ok <- ended
JournalImplementsSnapshots == Copies!SnapshotsSpec

(* The committed value of a slot is the one it had before the transaction, *)
(* although it is read from a state already written to, and caching it is  *)
(* not undone ("stays true regardless of any intra-transaction             *)
(* Snapshot/RevertToSnapshot").                                            *)
CommittedIsOriginal == \A a \in DOMAIN committed : committed[a] = original["storage"][a]

(* A transaction that latched an error changes no account at all, whatever *)
(* was reverted or finalised.                                              *)
ErrorChangesNothing == phase = "done" /\ err => accountsOf(db) = original

(* No balance is made, and none is lost but that of an account that        *)
(* destroyed itself, however near to uint64's limit balances are.          *)
BalancesKept ==
    LET total(d) == SumFunctionOnSet(d["balance"], Addr)
    IN  /\ total(db) <= total(original)
        /\ phase = "running" /\ ~err => total(db) = total(original)
=============================================================================
