---------------------------- MODULE MCPrimitives ----------------------------
(* Small instances of Primitives for TLC.                                   *)
EXTENDS Primitives, SequencesExt

PublicKey == [i \in 1..33 |-> 2]
Evaluate(s) == [how |-> "evaluate", script |-> s]
VerifyCall(s, sig, key, witness) ==
    [how |-> "verify", script |-> s, signature |-> sig, key |-> key, witness |-> witness]
P2SHCall(s, sig, hash) ==
    [how |-> "p2sh", script |-> s, signature |-> sig, key |-> <<1, 81>>, hash |-> hash]

\* The bytes of scripts, without the calls that are made of them.
I == INSTANCE Script WITH Call <- {}

\* Every short script of conditionals, truth values and one-byte pushes.
Short == BoundedSeq({0, 1, 81, I!OP_IF, I!OP_NOTIF, I!OP_ELSE, I!OP_ENDIF}, 4)

\* Two values and a conditional, then nested ones.
Nested ==
    {<<a, b, I!OP_IF>> \o s : a, b \in {0, 81},
        s \in BoundedSeq({81, I!OP_IF, I!OP_ELSE, I!OP_ENDIF}, 5)}

\* The other operations, on a stack that holds up to two items.
Operations ==
    {v \o s :
        v \in {<<>>, <<0>>, <<81>>, <<1, 0>>, <<81, 81>>, <<0, 81>>, <<82, 82, 81>>, <<82, 81, 81>>,
               <<4, 0, 0, 0, 128>>},
        s \in BoundedSeq({I!OP_DUP, I!OP_HASH160, I!OP_EQUAL, I!OP_EQUALVERIFY, I!OP_VERIFY,
                I!OP_RETURN, I!OP_CHECKSIG, I!OP_CHECKMULTISIG, I!OP_CHECKLOCKTIMEVERIFY,
                I!OP_CHECKSEQUENCEVERIFY, 79}, 2)}

Bytes(n) == [i \in 1..n |-> 7]
Pushed == {I!FromOps(<<[data |-> Bytes(n)], [op |-> I!OP_DUP]>>) : n \in {0, 1, 75, 76, 256}}

Spend(key) == I!FromOps(<<[data |-> <<1, 1>>], [data |-> key]>>) \o I!P2PKH(I!Hash160(key))

MCCall ==
    {Evaluate(s) : s \in Short \cup Nested \cup Operations \cup Pushed \cup {Spend(PublicKey)}}
    \cup {VerifyCall(s, sig, key, witness) :
            s \in {I!P2PKH(I!Hash160(PublicKey)), I!P2SH(I!Hash160(<<81>>)), I!P2WPKH(I!Hash160(PublicKey)), <<81>>},
            sig \in {<<>>, <<1, 1>>}, key \in {<<>>, PublicKey},
            witness \in {<<>>, <<<<1, 1>>, PublicKey>>, <<<<1, 1>>, <<81>>>>}}
    \cup {P2SHCall(s, <<1, 9>>, I!Hash160(<<81>>)) : s \in {<<81>>, <<0>>}}

MCActualTimespan == {-9, 0, 1, 2, 3, 5, 8, 11, 17, 31, 32, 33, 200}
MCPowLimit == 2^22 - 1
=============================================================================
