------------------------------ MODULE MCStackVM ------------------------------
EXTENDS StackVM

A == 1
B == 2

P(v) == <<opPUSH1, v>>
P2(v, w) == <<opPUSH1 + 1, v, w>>
sstore(k, v) == P(v) \o P(k) \o <<opSSTORE>>
callTo(to, value, retOff) == P(1) \o P(retOff) \o P(1) \o P(0) \o P(value) \o P(to) \o P(0) \o <<opCALL>>
return == P(1) \o P(0) \o <<opRETURN>>
fails == <<254>>

(* Pieces of code; the last call asks for return data beyond the memory.   *)
Pieces == {sstore(0, 7), sstore(0, 0), sstore(1, 9), callTo(B, 1, 0), callTo(A, 1, 0),
           callTo(B, 200, 0), callTo(B, 3, 0), callTo(B, 1, 9), fails}

CodesOfA == {<<>>} \cup Pieces \cup {p \o q : p, q \in Pieces}
                   \cup {callTo(B, 1, 0) \o <<opPOP>> \o p : p \in Pieces}
CodesOfB == {<<>>, sstore(0, 3), sstore(0, 3) \o fails, callTo(A, 1, 0) \o fails,
             sstore(0, 3) \o callTo(A, 0, 0) \o return}

(* Every instruction, jumps there and nowhere, both ends of the stack, the *)
(* memory's limit, a loop, jumps into data of one byte and of two, and     *)
(* words of two bytes.                                                     *)
Exercises ==
    {P(5) \o P(3) \o <<op>> \o P(1) \o <<opSSTORE>> : op \in Binary}
    \cup {<<op>> : op \in Known}
    \cup {P(1) \o <<opMSTORE>>, P(0) \o P(1) \o P(1) \o <<opMSTORE, opMLOAD, opISZERO>>,
          P(9) \o <<opMLOAD>>, P(9) \o <<opCALLDATALOAD>>, P(0) \o <<opCALLDATALOAD, opSLOAD>>,
          P(1) \o <<opDUP1, opSWAP1, opSWAP1, opPOP, opCALLVALUE, opCALLDATASIZE>> \o return,
          P(9) \o P(9) \o <<opRETURN>>, P(1) \o <<opDUP1, opDUP1, opDUP1>> \o callTo(B, 1, 0),
          P(1) \o P(6) \o <<opJUMPI, 254, opJUMPDEST>> \o sstore(1, 1),
          P(0) \o P(6) \o <<opJUMPI, 254, opJUMPDEST>> \o sstore(1, 1),
          <<opJUMPDEST>> \o P(0) \o <<opJUMP>>,
          P(4) \o <<opJUMP>> \o P(opJUMPDEST) \o sstore(1, 1),
          P(1) \o P(5) \o <<opJUMPI>> \o P(opJUMPDEST) \o sstore(1, 1), <<opPUSH1>>,
          P(1) \o [i \in 1..8 |-> opDUP1],
          P(5) \o <<opJUMP>> \o P2(opJUMPDEST, opJUMPDEST) \o sstore(1, 1),
          P2(2, 3) \o P(2) \o <<opMSTORE>> \o P(1) \o <<opMLOAD>> \o P2(1, 0) \o <<opSSTORE>>,
          P(1) \o P(3) \o <<opMSTORE>>, P(3) \o <<opMLOAD>>,
          P2(255, 255) \o P2(0, 2) \o <<opADD>> \o P(1) \o <<opSSTORE>>,
          <<opPUSH1 + 1, 1>>, <<opPUSH32>> \o [i \in 1..32 |-> opJUMPDEST] \o P(9) \o <<opJUMP>>}

account(balance, code, storage) == [balance |-> balance, code |-> code, storage |-> storage]
stateOf(a, b) == <<account(2, a, 0 :> 5), account(0, b, <<>>), account(0, <<>>, <<>>)>>
withSender(accounts) == [i \in 0..3 |-> IF i = 0 THEN account(3, <<>>, <<>>) ELSE accounts[i]]

CallStates == {withSender(stateOf(a, b)) : a \in CodesOfA, b \in CodesOfB}
ExerciseStates == {withSender(stateOf(a, b)) : a \in Exercises, b \in {<<>>, <<opJUMPDEST>>}}

message(to, value, gasLimit) == [to |-> to, value |-> value, gasLimit |-> gasLimit, data |-> <<1>>]
CallMessages == {message(A, 1, g) : g \in {5030, 20000}}
ExerciseMessages == {message(to, value, g) : to \in {A, 4}, value \in {0, 4}, g \in {25, 900, 9000}}

AllScenarios == [state : CallStates, msg : CallMessages]
                \cup [state : ExerciseStates, msg : ExerciseMessages]
=============================================================================
