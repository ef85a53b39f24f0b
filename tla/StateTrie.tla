----------------------------- MODULE StateTrie -----------------------------
(***************************************************************************)
(* state/mpt.go and state/proof.go: a trie of accounts, each with the root *)
(* of a trie of its storage, under calls of the StateDB's setters in any   *)
(* order, and a light client that is given proofs and keeps them.          *)
(***************************************************************************)
EXTENDS Trie

CONSTANTS
    Addresses,
    Keys,        \* storage keys
    Codes,
    NoCode,
    Clients,     \* light clients
    Worlds,      \* what a run writes, records of World
    path         \* raw key -> nibbles of its hash

(* The addresses whose balances are set, those that code and storage are   *)
(* set for, the slots and their values, the balances (0 among both), and   *)
(* the clients that ask for proofs.                                        *)
World == [addresses : SUBSET Addresses, contracts : SUBSET Addresses, keys : SUBSET Keys,
          words : SUBSET Nat, balances : SUBSET Nat, clients : SUBSET Clients]

ASSUME PathAssumption ==
    /\ Worlds \subseteq World
    /\ Addresses \cup Keys \subseteq DOMAIN path
    /\ \A x, y \in DOMAIN path : Len(path[x]) = Len(path[y]) /\ (path[x] = path[y] => x = y)

VARIABLES
    world,
    root,      \* the world trie
    contents,  \* the accounts written: address -> [balance, code, storage]
    held       \* the storage proofs a client was given last: a set of at most one

trieVars == <<world, root, contents, held>>

(* The balance stands for the balance and the nonce, and a code for its    *)
(* hash: the code map has every code whose hash an account names.          *)
noAccount == [balance |-> 0, codeHash |-> NoCode, storageRoot |-> NoNode]
isEmpty(acct) == acct = noAccount

encodeAccount(a) == <<a.balance, a.codeHash, a.storageRoot>>
decodeAccount(b) == [balance |-> b[1], codeHash |-> b[2], storageRoot |-> b[3]]

only(found, default) == IF found = {} THEN default ELSE CHOOSE v \in found : TRUE

GetAccount(addr) ==
    LET found == get(root, path[addr])
    IN  IF found = {} THEN noAccount ELSE decodeAccount(only(found, <<>>))
GetCode(addr) == GetAccount(addr).codeHash
GetStorage(addr, key) == only(get(GetAccount(addr).storageRoot, path[key]), 0)

setAccount(addr, acct) ==
    root' = IF isEmpty(acct) THEN del(root, path[addr])
            ELSE put(root, path[addr], encodeAccount(acct))

nothing == [balance |-> 0, code |-> NoCode, storage |-> [k \in Keys |-> 0]]

TrieInit ==
    /\ world \in Worlds
    /\ root = NoNode
    /\ contents = [a \in Addresses |-> nothing]
    /\ held = [c \in Clients |-> {}]

-----------------------------------------------------------------------------
(* SetAccount as transfers call it, on the account just read.              *)
SetBalance(addr, balance) ==
    /\ setAccount(addr, [GetAccount(addr) EXCEPT !.balance = balance])
    /\ contents' = [contents EXCEPT ![addr].balance = balance]
    /\ UNCHANGED <<world, held>>

(* SetAccount of the zero account, as Finalise calls it.                   *)
Destroy(addr) ==
    /\ setAccount(addr, noAccount)
    /\ contents' = [contents EXCEPT ![addr] = nothing]
    /\ UNCHANGED <<world, held>>

SetCode(addr, code) ==
    /\ setAccount(addr, [GetAccount(addr) EXCEPT !.codeHash = code])
    /\ contents' = [contents EXCEPT ![addr].code = code]
    /\ UNCHANGED <<world, held>>

SetStorage(addr, key, val) ==
    /\ setAccount(addr, [GetAccount(addr) EXCEPT
                           !.storageRoot = IF val = 0 THEN del(@, path[key])
                                           ELSE put(@, path[key], val)])
    /\ contents' = [contents EXCEPT ![addr].storage[key] = val]
    /\ UNCHANGED <<world, held>>

GenerateAccountProof(addr) ==
    [account |-> GetAccount(addr), proof |-> genProof(root, path[addr])]

(* GenerateStorageProof; a client keeps what it is given.                  *)
StorageProof(client, addr, key) ==
    /\ GetStorage(addr, key) # 0
    /\ held' = [held EXCEPT ![client] =
                  {[addr |-> addr, key |-> key, value |-> GetStorage(addr, key),
                    accountProof |-> GenerateAccountProof(addr),
                    slotProof |-> genProof(GetAccount(addr).storageRoot, path[key])]}]
    /\ UNCHANGED <<world, root, contents>>

VerifyAccountProof(stateRoot, addr, ap) ==
    VerifyProof(stateRoot, path[addr], encodeAccount(ap.account), ap.proof)

(* Mutant: the slot's proof is checked by itself, beside the account's.    *)
VerifyStorageProofUnchained(stateRoot, addr, key, sp) ==
    /\ VerifyAccountProof(stateRoot, addr, sp.accountProof)
    /\ sp.slotProof # <<>>
    /\ VerifyProof(Head(sp.slotProof), path[key], sp.value, sp.slotProof)

(* The slot's proof is checked against the root the account's proof showed.*)
VerifyStorageProof(stateRoot, addr, key, sp) ==
    /\ VerifyAccountProof(stateRoot, addr, sp.accountProof)
    /\ VerifyProof(sp.accountProof.account.storageRoot, path[key], sp.value, sp.slotProof)

TrieNext ==
    \/ \E a \in world.addresses, x \in world.balances : SetBalance(a, x)
    \/ \E a \in world.contracts : Destroy(a) \/ \E c \in Codes \cup {NoCode} : SetCode(a, c)
    \/ \E a \in world.contracts, k \in world.keys, v \in world.words : SetStorage(a, k, v)
    \/ \E c \in world.clients, a \in world.contracts, k \in world.keys : StorageProof(c, a, k)

TrieSpec == TrieInit /\ [][TrieNext]_trieVars

-----------------------------------------------------------------------------
(* The trie of a finite map from paths to values, by its contents alone.   *)
RECURSIVE canonical(_)
canonical(m) ==
    LET ps == DOMAIN m
        cp == LongestCommonPrefix(ps)
        n  == Len(cp)
        under(x) == {p \in ps : p[n + 1] = x}
        below(x) == [q \in {from(p, n + 2) : p \in under(x)} |-> m[cp \o <<x>> \o q]]
        b  == branchNode([x \in Nibble |-> canonical(below(x))])
    IN  CASE ps = {} -> NoNode
          [] Cardinality(ps) = 1 -> LET p == CHOOSE p \in ps : TRUE IN leafNode(p, m[p])
          [] OTHER -> IF n = 0 THEN b ELSE extensionNode(cp, b)

inverse(p) == CHOOSE x \in DOMAIN path : path[x] = p

canonicalAccount(c) ==
    LET slots == {path[k] : k \in {j \in Keys : c.storage[j] # 0}}
    IN  [balance |-> c.balance, codeHash |-> c.code,
         storageRoot |-> canonical([p \in slots |-> c.storage[inverse(p)]])]

(* The state root is a function of the state: whatever was set, cleared    *)
(* and destroyed before, and in which order, equal states have equal roots *)
(* ("independent of insertion/deletion history, not just of insertion      *)
(* order"), so that nodes that took different ways agree on StateRoot.     *)
RootIsCanonical ==
    LET present == {path[a] : a \in {x \in Addresses : contents[x] # nothing}}
    IN  root = canonical([p \in present |-> encodeAccount(canonicalAccount(contents[inverse(p)]))])

(* Every read returns the last write, whatever was written elsewhere.      *)
ReadsLastWrite ==
    \A a \in Addresses : /\ GetAccount(a).balance = contents[a].balance
                         /\ GetCode(a) = contents[a].code
                         /\ \A k \in Keys : GetStorage(a, k) = contents[a].storage[k]

(* A storage proof that a client accepts for a root shows what the state   *)
(* of that root has, also when it was made for an earlier one, when its    *)
(* slot half is of an earlier moment and its account half of this one, and *)
(* when it is shown for another address or slot, or with another value.    *)
ProofsShowTheState ==
    \A sp \in UNION {held[c] : c \in Clients} :
        LET fresh == {GenerateAccountProof(b) : b \in {x \in Addresses : get(root, path[x]) # {}}}
        IN  \A ap \in {sp.accountProof} \cup fresh,
               a \in Addresses, k \in Keys, v \in world.words :
                VerifyStorageProof(root, a, k, [sp EXCEPT !.value = v, !.accountProof = ap])
                    => contents[a].storage[k] = v

(* Every slot that is set has a proof, and the client accepts it.          *)
ProofsAreAccepted ==
    \A a \in Addresses, k \in Keys :
        contents[a].storage[k] # 0 =>
            VerifyStorageProof(root, a, k,
                [addr |-> a, key |-> k, value |-> contents[a].storage[k],
                 accountProof |-> GenerateAccountProof(a),
                 slotProof |-> genProof(GetAccount(a).storageRoot, path[k])])
=============================================================================
