------------------------------ MODULE StackVM ------------------------------
(***************************************************************************)
(* vm/stackvm.go: one message executed by the stack machine.  Every frame  *)
(* buffers its writes in a scope of its own that reads through to the      *)
(* scopes below it and to the state; gas is one budget for all frames.     *)
(*                                                                         *)
(* A word has WordBytes bytes, 32 in the code.  Memory, calldata and code  *)
(* are sequences of bytes; all 32 PUSH instructions are there, and one     *)
(* with more bytes than a word of the model has keeps the low ones.        *)
(***************************************************************************)
EXTENDS Integers, Sequences, FiniteSets, SequencesExt, Functions

CONSTANTS
    WordBytes,     \* 32: the bytes of a word
    Uint64,        \* 2^64: the bound of amounts, below Word
    AddrSpace,     \* the number of addresses: 0..AddrSpace - 1
    NewAddress,    \* what CreateAddress hashes to
    MaxStack,
    MaxCallDepth,
    maxMemBytes,
    GasCreate,
    gasCall,
    Supply,        \* the sum of all balances
    Scenarios      \* [state, msg]: the accounts a message finds, and the message,
                   \* [to, value, gasLimit, data] with to = Nobody for a creation

ASSUME VMAssumption ==
    /\ {WordBytes, Uint64, AddrSpace, MaxStack, MaxCallDepth} \subseteq Nat \ {0}
    /\ {maxMemBytes, GasCreate, gasCall} \subseteq Nat
    /\ NewAddress \in 0..(AddrSpace - 1)
    /\ Supply \in 0..(Uint64 - 1)

VARIABLES
    base,    \* the StateDB: address -> [balance, code, storage]
    msg,     \* the message
    frames,  \* the frames of run, innermost last
    used,    \* gasMeter.used
    status   \* "start", "running", "success", "failed" or "out of gas"

vmVars == <<base, msg, frames, used, status>>

Word == 256^WordBytes
Address == 0..(AddrSpace - 1)
Sender == 0
Nobody == AddrSpace
Empty == <<>>

-----------------------------------------------------------------------------
(* A scope: the accounts, code and storage slots written, partial maps.    *)
(* An account is written whole, with the storage root and the code hash it *)
(* was read with: the model's accounts carry the storage and code.         *)
newScope == [acct |-> Empty, code |-> Empty, storage |-> Empty]

put(m, k, v) == [j \in DOMAIN m \cup {k} |-> IF j = k THEN v ELSE m[j]]
over(top, below) == [k \in DOMAIN top \cup DOMAIN below |->
                       IF k \in DOMAIN top THEN top[k] ELSE below[k]]

(* A read is decided by the innermost scope that was written there, or by  *)
(* the state.                                                              *)
readThrough(chain, part, k, inBase) ==
    LET writers == {i \in DOMAIN chain : k \in DOMAIN chain[i][part]}
    IN  IF writers = {} THEN inBase ELSE chain[Max(writers)][part][k]

stored(storage, k) == IF k \in DOMAIN storage THEN storage[k] ELSE 0

getAccount(chain, a) == readThrough(chain, "acct", a, base[a])
getCode(chain, a) == readThrough(chain, "code", a, base[a].code)
getStorage(chain, a, k) == readThrough(chain, "storage", <<a, k>>, stored(base[a].storage, k))

setAccount(sc, a, acct) == [sc EXCEPT !.acct = put(@, a, acct)]
setCode(sc, a, code) == [sc EXCEPT !.code = put(@, a, code)]
setStorage(sc, a, k, v) == [sc EXCEPT !.storage = put(@, <<a, k>>, v)]

(* commit of a child: its writes become its parent's.                      *)
commitChild(parent, child) ==
    [acct |-> over(child.acct, parent.acct), code |-> over(child.code, parent.code),
     storage |-> over(child.storage, parent.storage)]

(* SetStorage: a slot set to zero is a slot without an entry.              *)
flushStorage(storage, a, sc) ==
    LET slots  == {s[2] : s \in {t \in DOMAIN sc.storage : t[1] = a}}
        values == over([k \in slots |-> sc.storage[<<a, k>>]], storage)
    IN  [k \in {j \in DOMAIN values : values[j] # 0} |-> values[k]]

flushCode(code, a, sc) == IF a \in DOMAIN sc.code THEN sc.code[a] ELSE code
flushAccount(a, sc) == IF a \in DOMAIN sc.acct THEN sc.acct[a] ELSE base[a]

(* commit of the root: SetAccount, then SetCode, then SetStorage.          *)
commitRoot(sc) ==
    [a \in Address |->
       [flushAccount(a, sc) EXCEPT !.code = flushCode(@, a, sc),
                                   !.storage = flushStorage(@, a, sc)]]

cannotTransfer(chain, from, to, value) ==
    value # 0 /\ from # to /\ getAccount(chain, from).balance < value

(* Mutant: both accounts are read first, also when they are one.           *)
transferReadFirst(chain, from, to, value) ==
    LET f == getAccount(chain, from)
        t == getAccount(chain, to)
    IN  setAccount(setAccount(Last(chain), from, [f EXCEPT !.balance = @ - value]),
                   to, [t EXCEPT !.balance = (@ + value) % Uint64])

(* transfer, in the last of the scopes: what that scope is afterwards.     *)
transfer(chain, from, to, value) ==
    IF value = 0 \/ from = to THEN Last(chain)
    ELSE LET f == getAccount(chain, from)
             t == getAccount(chain, to)
             debited == setAccount(Last(chain), from, [f EXCEPT !.balance = @ - value])
         IN  setAccount(debited, to, [t EXCEPT !.balance = (@ + value) % Uint64])

-----------------------------------------------------------------------------
opSTOP == 0
opADD == 1
opMUL == 2
opSUB == 3
opDIV == 4
opLT == 16
opGT == 17
opEQ == 20
opISZERO == 21
opCALLVALUE == 52
opCALLDATALOAD == 53
opCALLDATASIZE == 54
opPOP == 80
opMLOAD == 81
opMSTORE == 82
opSLOAD == 84
opSSTORE == 85
opJUMP == 86
opJUMPI == 87
opJUMPDEST == 91
opPUSH1 == 96
opPUSH32 == 127
opDUP1 == 128
opSWAP1 == 144
opCALL == 241
opRETURN == 243

Pushes == opPUSH1..opPUSH32
pushSize(op) == op - opPUSH1 + 1

Binary == {opADD, opMUL, opSUB, opDIV, opLT, opGT, opEQ}
Known == Binary \cup Pushes \cup
         {opSTOP, opISZERO, opCALLVALUE, opCALLDATALOAD, opCALLDATASIZE, opPOP, opMLOAD, opMSTORE,
          opSLOAD, opSSTORE, opJUMP, opJUMPI, opJUMPDEST, opDUP1, opSWAP1, opCALL, opRETURN}

(* Mutant: jumps are free.                                                 *)
gasCostFreeJump(op) ==
    CASE op \in Pushes \cup {opJUMP, opJUMPDEST} -> 0
      [] op = opSSTORE -> 5000
      [] op = opSLOAD -> 200
      [] op = opCALL -> gasCall
      [] OTHER -> 3

gasCost(op) ==
    CASE op \in Pushes \cup {opADD, opSUB, opLT, opGT, opEQ, opISZERO, opCALLDATALOAD, opMLOAD,
                             opMSTORE, opDUP1, opSWAP1} -> 3
      [] op \in {opMUL, opDIV} -> 5
      [] op \in {opCALLVALUE, opCALLDATASIZE, opPOP} -> 2
      [] op = opSLOAD -> 200
      [] op = opSSTORE -> 5000
      [] op = opJUMP -> 8
      [] op = opJUMPI -> 10
      [] op = opJUMPDEST -> 1
      [] op = opCALL -> gasCall
      [] OTHER -> 0

(* Where instructions begin, PUSH taking its immediate with it.            *)
instructionStarts(code) ==
    LET scan[i \in 0..(Len(code) + 32)] ==
          IF i >= Len(code) THEN {}
          ELSE {i} \cup scan[i + (IF code[i + 1] \in Pushes THEN pushSize(code[i + 1]) + 1 ELSE 1)]
    IN  scan[0]

(* Mutant: every PUSH is taken to have one byte of data.                   *)
validJumpdestsShort(code) ==
    LET scan[i \in 0..(Len(code) + 1)] ==
          IF i >= Len(code) THEN {}
          ELSE {i} \cup scan[i + (IF code[i + 1] \in Pushes THEN 2 ELSE 1)]
    IN  {i \in scan[0] : code[i + 1] = opJUMPDEST}

validJumpdests(code) ==
    {i \in instructionStarts(code) : code[i + 1] = opJUMPDEST}

boolWord(b) == IF b THEN 1 ELSE 0

(* The word a binary instruction pushes; a was on top.                     *)
binary(op, a, b) ==
    CASE op = opADD -> (a + b) % Word
      [] op = opMUL -> (a * b) % Word
      [] op = opSUB -> (a - b) % Word
      [] op = opDIV -> IF b = 0 THEN 0 ELSE a \div b
      [] op = opLT -> boolWord(a < b)
      [] op = opGT -> boolWord(a > b)
      [] op = opEQ -> boolWord(a = b)

(* SetBytes and bigToHash: words and their bytes, the highest first.       *)
wordOf(bytes) == FoldLeft(LAMBDA w, byte : (w * 256 + byte) % Word, 0, bytes)
bytesOf(w) == [i \in 1..WordBytes |-> (w \div 256^(WordBytes - i)) % 256]

(* n bytes of data from off on; those beyond its end are zero.             *)
readBytes(data, off, n) ==
    [i \in 1..n |-> IF off + i <= Len(data) THEN data[off + i] ELSE 0]
readData(data, off) == readBytes(data, off, WordBytes)

ensureMem(mem, size) ==
    [i \in 1..(IF Len(mem) >= size THEN Len(mem) ELSE size) |->
       IF i <= Len(mem) THEN mem[i] ELSE 0]

(* copy(mem[off:], bytes).                                                 *)
copied(mem, off, bytes) ==
    [i \in DOMAIN mem |-> IF i - off \in DOMAIN bytes THEN bytes[i - off] ELSE mem[i]]

addrFromWord(w) == w % AddrSpace

-----------------------------------------------------------------------------
scopes == [i \in DOMAIN frames |-> frames[i].scope]
top == Last(frames)
Op == top.code[top.pc + 1]

newFrame(sc, code, self, value, input, retOff, retSize) ==
    [scope |-> sc, code |-> code, self |-> self, value |-> value, input |-> input, pc |-> 0,
     stack |-> <<>>, mem |-> <<>>, retOff |-> retOff, retSize |-> retSize, out |-> <<0, 0>>,
     returned |-> <<>>, resuming |-> FALSE]

VMInit ==
    /\ \E s \in Scenarios : base = s.state /\ msg = s.msg
    /\ frames = <<>>
    /\ used = 0
    /\ status = "start"

halt(outcome) == frames' = <<>> /\ status' = outcome

(* Execute of a creation: create.                                          *)
Create ==
    LET scope == transfer(<<newScope>>, Sender, NewAddress, msg.value) IN
    /\ status = "start" /\ msg.to = Nobody
    /\ IF GasCreate > msg.gasLimit
       THEN halt("out of gas") /\ used' = msg.gasLimit /\ UNCHANGED base
       ELSE /\ used' = GasCreate
            /\ IF cannotTransfer(<<newScope>>, Sender, NewAddress, msg.value)
               THEN halt("failed") /\ UNCHANGED base
               ELSE /\ base' = commitRoot(setCode(scope, NewAddress, msg.data))
                    /\ halt("success")
    /\ UNCHANGED msg

(* Execute of a call, up to run.                                           *)
Execute ==
    LET scope == transfer(<<newScope>>, Sender, msg.to, msg.value) IN
    /\ status = "start" /\ msg.to # Nobody
    /\ IF cannotTransfer(<<newScope>>, Sender, msg.to, msg.value)
       THEN halt("failed")
       ELSE /\ frames' = <<newFrame(scope, getCode(<<scope>>, msg.to), msg.to, msg.value,
                                    msg.data, 0, 0)>>
            /\ status' = "running"
    /\ UNCHANGED <<base, msg, used>>

Running == status = "running" /\ ~top.resuming
canPay(op) == used + gasCost(op) <= msg.gasLimit

(* run charges the next instruction, which is one of ops.                  *)
Executes(ops) ==
    /\ Running
    /\ top.pc < Len(top.code)
    /\ Op \in ops
    /\ canPay(Op)
    /\ used' = used + gasCost(Op)
    /\ UNCHANGED <<base, msg>>

(* A frame goes on, with n words popped and pushed on the stack.           *)
arg(i) == top.stack[Len(top.stack) + 1 - i]
hasArgs(n) == Len(top.stack) >= n
popped(n) == SubSeq(top.stack, 1, Len(top.stack) - n)

continue(f) == frames' = [frames EXCEPT ![Len(frames)] = f] /\ UNCHANGED status

(* Mutant: a frame that fails commits its scope to its caller's.           *)
failKeeping ==
    IF Len(frames) = 1 THEN halt("failed")
    ELSE LET below == Front(frames)
             caller == [Last(below) EXCEPT !.scope = commitChild(@, top.scope),
                                           !.stack = Append(@, 0), !.pc = @ + 1]
         IN  frames' = [below EXCEPT ![Len(below)] = caller] /\ UNCHANGED status

(* A frame fails: its scope is dropped, and its caller's CALL pushes 0.    *)
fail ==
    IF Len(frames) = 1 THEN halt("failed")
    ELSE LET below == Front(frames)
             caller == [Last(below) EXCEPT !.stack = Append(@, 0), !.pc = @ + 1]
         IN  frames' = [below EXCEPT ![Len(below)] = caller] /\ UNCHANGED status

pushOrFail(pushed) ==
    IF Len(pushed) > MaxStack THEN fail
    ELSE continue([top EXCEPT !.stack = pushed, !.pc = @ + 1])

(* The charge fails: the whole message does, and all its gas is used.      *)
OutOfGas ==
    /\ Running
    /\ top.pc < Len(top.code)
    /\ ~canPay(Op)
    /\ used' = msg.gasLimit
    /\ halt("out of gas")
    /\ UNCHANGED <<base, msg>>

Arithmetic ==
    /\ Executes(Binary)
    /\ IF ~hasArgs(2) THEN fail
       ELSE pushOrFail(Append(popped(2), binary(Op, arg(1), arg(2))))

IsZero ==
    /\ Executes({opISZERO})
    /\ IF ~hasArgs(1) THEN fail ELSE pushOrFail(Append(popped(1), boolWord(arg(1) = 0)))

Environment ==
    /\ Executes({opCALLVALUE, opCALLDATASIZE})
    /\ pushOrFail(Append(top.stack, IF Op = opCALLVALUE THEN top.value ELSE Len(top.input)))

CallDataLoad ==
    /\ Executes({opCALLDATALOAD})
    /\ IF ~hasArgs(1) THEN fail
       ELSE pushOrFail(Append(popped(1), wordOf(readData(top.input, arg(1)))))

Pop ==
    /\ Executes({opPOP})
    /\ IF ~hasArgs(1) THEN fail ELSE pushOrFail(popped(1))

MLoad ==
    /\ Executes({opMLOAD})
    /\ IF ~hasArgs(1) \/ arg(1) + WordBytes > maxMemBytes THEN fail
       ELSE LET mem == ensureMem(top.mem, arg(1) + WordBytes)
            IN  continue([top EXCEPT !.mem = mem, !.pc = @ + 1,
                                     !.stack = Append(popped(1), wordOf(readData(mem, arg(1))))])

MStore ==
    /\ Executes({opMSTORE})
    /\ IF ~hasArgs(2) \/ arg(1) + WordBytes > maxMemBytes THEN fail
       ELSE continue([top EXCEPT !.mem = copied(ensureMem(@, arg(1) + WordBytes), arg(1),
                                                bytesOf(arg(2))),
                                 !.stack = popped(2), !.pc = @ + 1])

SLoad ==
    /\ Executes({opSLOAD})
    /\ IF ~hasArgs(1) THEN fail
       ELSE pushOrFail(Append(popped(1), getStorage(scopes, top.self, arg(1))))

SStore ==
    /\ Executes({opSSTORE})
    /\ IF ~hasArgs(2) THEN fail
       ELSE continue([top EXCEPT !.scope = setStorage(@, top.self, arg(1), arg(2)),
                                 !.stack = popped(2), !.pc = @ + 1])

Jump ==
    /\ Executes({opJUMP})
    /\ IF ~hasArgs(1) \/ arg(1) \notin validJumpdests(top.code) THEN fail
       ELSE continue([top EXCEPT !.stack = popped(1), !.pc = arg(1)])

JumpI ==
    /\ Executes({opJUMPI})
    /\ IF ~hasArgs(2) \/ (arg(2) # 0 /\ arg(1) \notin validJumpdests(top.code)) THEN fail
       ELSE continue([top EXCEPT !.stack = popped(2),
                                 !.pc = IF arg(2) # 0 THEN arg(1) ELSE @ + 1])

JumpDest ==
    /\ Executes({opJUMPDEST})
    /\ continue([top EXCEPT !.pc = @ + 1])

(* The bytes of the immediate that are missing read as zero.               *)
Push ==
    /\ Executes(Pushes)
    /\ IF Len(top.stack) >= MaxStack THEN fail
       ELSE LET n == pushSize(Op)
            IN  continue([top EXCEPT !.stack = Append(@, wordOf(readBytes(top.code, top.pc + 1, n))),
                                     !.pc = @ + 1 + n])

Dup ==
    /\ Executes({opDUP1})
    /\ IF ~hasArgs(1) THEN fail ELSE pushOrFail(Append(top.stack, arg(1)))

Swap ==
    /\ Executes({opSWAP1})
    /\ IF ~hasArgs(2) THEN fail ELSE pushOrFail(popped(2) \o <<arg(1), arg(2)>>)

Invalid ==
    /\ Executes(0..255 \ Known)
    /\ fail

-----------------------------------------------------------------------------
(* opCall up to the callee's run.  Words that are no uint64 carry no value.*)
Call ==
    LET to    == addrFromWord(arg(2))
        value == IF arg(3) < Uint64 THEN arg(3) ELSE 0
        args  == <<arg(4), arg(5)>>
        mem   == ensureMem(top.mem, args[1] + args[2])
        mine  == [top EXCEPT !.stack = popped(7), !.mem = mem]
        inner == Append(scopes, newScope)
        scope == transfer(inner, top.self, to, value)
    IN  /\ Executes({opCALL})
        /\ IF ~hasArgs(7) THEN fail
           ELSE IF Len(frames) > MaxCallDepth
           THEN continue([top EXCEPT !.stack = Append(popped(7), 0), !.pc = @ + 1])
           ELSE IF args[1] + args[2] > maxMemBytes THEN fail
           ELSE IF cannotTransfer(inner, top.self, to, value)
           THEN continue([mine EXCEPT !.stack = Append(@, 0), !.pc = @ + 1])
           ELSE /\ frames' = Append([frames EXCEPT ![Len(frames)] = mine],
                                    newFrame(scope, getCode(Append(scopes, scope), to), to, value,
                                             SubSeq(mem, args[1] + 1, args[1] + args[2]),
                                             arg(6), arg(7)))
                /\ UNCHANGED status

(* A frame ends well: its scope is committed to its caller's, or, of the   *)
(* first frame, to the state.                                              *)
returns(data) ==
    LET callee == top
        caller == frames[Len(frames) - 1]
    IN  IF Len(frames) = 1 THEN base' = commitRoot(top.scope) /\ halt("success")
        ELSE /\ frames' = Append(SubSeq(frames, 1, Len(frames) - 2),
                                 [caller EXCEPT !.scope = commitChild(@, callee.scope),
                                                !.out = <<callee.retOff, callee.retSize>>,
                                                !.returned = data, !.resuming = TRUE])
             /\ UNCHANGED <<base, status>>

(* STOP, or the end of the code.                                           *)
Stop ==
    /\ Running
    /\ top.pc < Len(top.code) => Op = opSTOP
    /\ returns(<<>>)
    /\ UNCHANGED <<msg, used>>

Return ==
    LET mem == ensureMem(top.mem, arg(1) + arg(2)) IN
    /\ Running
    /\ top.pc < Len(top.code)
    /\ Op = opRETURN
    /\ IF ~hasArgs(2) \/ arg(1) + arg(2) > maxMemBytes THEN fail /\ UNCHANGED base
       ELSE returns(SubSeq(mem, arg(1) + 1, arg(1) + arg(2)))
    /\ UNCHANGED <<msg, used>>

(* opCall after the callee: its return data is copied, or does not fit,    *)
(* which fails the caller with all that was committed to it.               *)
Resume ==
    LET off  == top.out[1]
        size == top.out[2]
        n    == IF size > Len(top.returned) THEN Len(top.returned) ELSE size
        mem  == IF size = 0 THEN top.mem ELSE ensureMem(top.mem, off + size)
    IN  /\ status = "running" /\ top.resuming
        /\ IF off + size > maxMemBytes THEN fail
           ELSE continue([top EXCEPT !.mem = copied(mem, off, SubSeq(top.returned, 1, n)),
                                     !.stack = Append(@, 1), !.pc = @ + 1,
                                     !.returned = <<>>, !.out = <<0, 0>>, !.resuming = FALSE])
        /\ UNCHANGED <<base, msg, used>>

VMStep ==
    \/ Create \/ Execute \/ OutOfGas
    \/ Arithmetic \/ IsZero \/ Environment \/ CallDataLoad \/ Pop \/ MLoad \/ MStore
    \/ SLoad \/ SStore \/ Jump \/ JumpI \/ JumpDest \/ Push \/ Dup \/ Swap \/ Invalid
    \/ Call \/ Stop \/ Return \/ Resume

Halted == status \notin {"start", "running"}

VMSpec == VMInit /\ [][VMStep]_vmVars /\ WF_vmVars(VMStep)

-----------------------------------------------------------------------------
(* The state as the code in a frame reads it.                              *)
viewThrough(inner) ==
    [a \in Address |->
       LET slots  == DOMAIN base[a].storage \cup
                     UNION {{s[2] : s \in {t \in DOMAIN inner[i].storage : t[1] = a}} :
                            i \in DOMAIN inner}
       IN  [balance |-> getAccount(inner, a).balance,
            code    |-> getCode(inner, a),
            storage |-> [k \in {j \in slots : getStorage(inner, a, j) # 0} |->
                           getStorage(inner, a, k)]]]

(* Scopes do what copies of the whole state would: a call that fails       *)
(* leaves nothing ("Discarding a scope (never calling commit) reverts every *)
(* write it holds"), one that succeeds leaves all its writes to its caller, *)
(* reads see what the frames around wrote, and the state has nothing of a  *)
(* message that failed, and all of one that did not.                       *)
Copies == INSTANCE Snapshots WITH
    stack <- [i \in 1..(Len(frames) + 1) |-> viewThrough(SubSeq(scopes, 1, i - 1))],
    ok    <- IF frames = <<>> THEN status = "success" ELSE top.resuming
ImplementsSnapshots == Copies!SnapshotsSpec

(* Every message halts: "When the budget is exhausted, Execute returns".   *)
VMTerminates == <>Halted

(* However calls nest and fail, value moves and is never made or lost.     *)
VMConserves ==
    \A i \in 0..Len(frames) :
        MapThenSumSet(LAMBDA a : getAccount(SubSeq(scopes, 1, i), a).balance, Address) = Supply

(* Jumps never lead into the data of a PUSH: run only ever executes bytes  *)
(* that validJumpdests' scan takes for instructions.                       *)
OnInstructions ==
    \A i \in DOMAIN frames :
        frames[i].pc < Len(frames[i].code) => frames[i].pc \in instructionStarts(frames[i].code)
=============================================================================
