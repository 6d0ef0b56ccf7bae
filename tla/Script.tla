------------------------------- MODULE Script -------------------------------
(***************************************************************************)
(* ordex/core/script.py: scripts as bytes, the standard templates, and the *)
(* interpreter, one step per operation.  hash160 stands outside: a digest  *)
(* of twenty bytes no opcode has.                                          *)
(***************************************************************************)
EXTENDS Integers, Sequences, SequencesExt

CONSTANTS
    None,
    Call            \* the calls of verify_script, evaluate and verify_p2sh

VARIABLES
    call,           \* the call that is answered
    script,         \* the bytes the interpreter runs
    pc,             \* the place of the next operation, from 1
    stack,
    marks,          \* violation_stack
    verdict,        \* "none" until the call returns, "valid" or "invalid" then
    ran,            \* history: the places of the operations that were run
    chosen          \* history: place of a conditional -> its branch was taken

scriptVars == <<call, script, pc, stack, marks, verdict, ran, chosen>>

OP_0 == 0           OP_1 == 81          OP_16 == 96
OP_IF == 99         OP_NOTIF == 100     OP_ELSE == 103      OP_ENDIF == 104
OP_VERIFY == 105    OP_RETURN == 106    OP_DUP == 118
OP_EQUAL == 135     OP_EQUALVERIFY == 136   OP_HASH160 == 169
OP_CHECKSIG == 172  OP_CHECKMULTISIG == 174
OP_CHECKLOCKTIMEVERIFY == 177           OP_CHECKSEQUENCEVERIFY == 178

Pushes == 1..75
Conditionals == {OP_IF, OP_NOTIF}

Hash160(data) ==
    LET digest == FoldLeft(LAMBDA acc, b : (acc * 31 + b + 1) % 65521, 7, data)
    IN [i \in 1..20 |-> 256 + digest]

-----------------------------------------------------------------------------
(* Builders and templates. *)

LengthBytes(n, width) == [i \in 1..width |-> (n \div 256^(i - 1)) % 256]

PushData(data) ==
    LET n == Len(data)
    IN CASE n = 0 -> <<OP_0>>
         [] n \in Pushes -> <<n>> \o data
         [] n \in 76..255 -> <<76, n>> \o data
         [] OTHER -> <<77>> \o LengthBytes(n, 2) \o data

\* from_ops of elements [op |-> opcode] and [data |-> bytes].
FromOps(elements) ==
    FlattenSeq([i \in DOMAIN elements |->
        IF "op" \in DOMAIN elements[i] THEN <<elements[i].op>> ELSE PushData(elements[i].data)])

P2PKH(hash) == <<OP_DUP, OP_HASH160, 20>> \o hash \o <<OP_EQUALVERIFY, OP_CHECKSIG>>
P2SH(hash) == <<OP_HASH160, 20>> \o hash \o <<OP_EQUAL>>
P2WPKH(hash) == <<OP_0, 20>> \o hash

IsP2PKH(s) == Len(s) = 25 /\ s = P2PKH(SubSeq(s, 4, 23))
IsP2SH(s) == Len(s) = 23 /\ s = P2SH(SubSeq(s, 3, 22))
IsWitnessKeyHash(s) == Len(s) = 22 /\ s = P2WPKH(SubSeq(s, 3, 22))

ValidKey(key) ==
    \/ Len(key) = 33 /\ key[1] \in {2, 3}
    \/ Len(key) = 65 /\ key[1] = 4

-----------------------------------------------------------------------------
(* The calls. *)

Runs(s) == script = s /\ verdict = "none"
Answers(valid) == script = <<>> /\ verdict = IF valid THEN "valid" ELSE "invalid"

VerifyP2SH(c) ==
    IF Hash160(c.script) # c.hash THEN Answers(FALSE) ELSE Runs(c.signature \o c.key \o c.script)

VerifyWitness(hash, witness) == Answers(ValidKey(witness[2]) /\ Hash160(witness[2]) = hash)

VerifyScript(c) ==
    CASE IsP2PKH(c.script) ->
            IF c.signature # <<>> /\ c.key # <<>> THEN Runs(c.script) ELSE Answers(TRUE)
      [] IsP2SH(c.script) -> Answers(TRUE)
      [] IsWitnessKeyHash(c.script) ->
            IF Len(c.witness) = 2 THEN VerifyWitness(SubSeq(c.script, 3, 22), c.witness)
            ELSE Answers(TRUE)
      [] OTHER -> Runs(c.script)

Init ==
    /\ call \in Call
    /\ CASE call.how = "evaluate" -> Runs(call.script)
         [] call.how = "p2sh" -> VerifyP2SH(call)
         [] call.how = "verify" -> VerifyScript(call)
    /\ pc = 1 /\ stack = <<>> /\ marks = <<>> /\ ran = {} /\ chosen = <<>>

-----------------------------------------------------------------------------
(* The operations. *)

Truthy(item) == item # <<>> /\ item # <<0>>
True == <<1>>
False == <<>>
Held(n) == Len(stack) >= n
Top(n) == stack[Len(stack) + 1 - n]
Popped(n) == SubSeq(stack, 1, Len(stack) - n)

\* The operation at pc is one of these, and the interpreter runs it.
At(ops) ==
    /\ verdict = "none" /\ pc <= Len(script) /\ script[pc] \in ops
    /\ ran' = ran \cup {pc}
    /\ UNCHANGED <<call, script>>

Onward(newStack, next) ==
    /\ stack' = newStack /\ pc' = next
    /\ UNCHANGED <<marks, verdict, chosen>>

Stop(valid) ==
    /\ verdict' = IF valid THEN "valid" ELSE "invalid"
    /\ UNCHANGED <<pc, stack, marks, chosen>>

\* The operation needs n items, or the script fails.
With(n, newStack) == IF Held(n) THEN Onward(newStack, pc + 1) ELSE Stop(FALSE)

Push ==
    /\ At(Pushes)
    /\ LET n == script[pc]
       IN IF pc + n > Len(script) THEN Stop(FALSE)
          ELSE Onward(Append(stack, SubSeq(script, pc + 1, pc + n)), pc + n + 1)

PushNumber ==
    /\ At({OP_0} \cup OP_1..OP_16)
    /\ Onward(Append(stack, IF script[pc] = OP_0 THEN False ELSE <<script[pc] - OP_1 + 1>>), pc + 1)

Dup == At({OP_DUP}) /\ With(1, Append(stack, Top(1)))

HashTop == At({OP_HASH160}) /\ With(1, Append(Popped(1), Hash160(Top(1))))

Equal == At({OP_EQUAL}) /\ With(2, Append(Popped(2), IF Top(1) = Top(2) THEN True ELSE False))

EqualVerify ==
    /\ At({OP_EQUALVERIFY})
    /\ IF Held(2) /\ Top(1) # Top(2) THEN Stop(FALSE) ELSE With(2, Popped(2))

\* The message of a signature is never computed: the module does not import
\* the hash it names, the exception is caught and the check answers false.
CheckSig == At({OP_CHECKSIG}) /\ With(2, Append(Popped(2), False))

CheckMultiSig ==
    /\ At({OP_CHECKMULTISIG})
    /\ LET count == IF Top(1) = <<>> THEN 0 ELSE Top(1)[1]
       IN IF ~Held(3) \/ ~Held(count + 2) THEN Stop(FALSE)
          ELSE Onward(Append(Popped(count + 2), IF Top(count + 2) = <<>> THEN False ELSE True), pc + 1)

Return == At({OP_RETURN}) /\ Stop(FALSE)

Verify == At({OP_VERIFY}) /\ IF Held(1) /\ ~Truthy(Top(1)) THEN Stop(FALSE) ELSE With(1, Popped(1))

\* The interpreter never learns a lock time: it is zero, and the check fails.
CheckLockTime == At({OP_CHECKLOCKTIMEVERIFY}) /\ Stop(FALSE)

CheckSequence ==
    /\ At({OP_CHECKSEQUENCEVERIFY})
    /\ IF ~Held(1) THEN Stop(FALSE)
       ELSE LET top == Top(1)
            IN CASE top = <<>> -> Stop(FALSE)
                 [] Len(top) >= 4 /\ top[4] >= 128 -> Stop(TRUE)
                 [] \E i \in DOMAIN top : top[i] # 0 -> Stop(FALSE)
                 [] OTHER -> Onward(stack, pc + 1)

\* How many conditionals are open after the bytes from p to q.
Depth(p, q) ==
    1 + Cardinality({i \in p..q : script[i] \in Conditionals})
      - Cardinality({i \in p..q : script[i] = OP_ENDIF})

Closes(q) == script[q] = OP_ENDIF /\ Depth(pc + 1, q) = 0

\* Mutant: the alternative of a nested conditional ends the skipping as well.
AlternatesAny(q) == script[q] = OP_ELSE

Alternates(q) == script[q] = OP_ELSE /\ Depth(pc + 1, q) = 1

Ahead == pc + 1..Len(script)

\* Where the next operation is when a skipped branch may end at any of the
\* bytes in ends: bytes of data count as well.
SkipTo(ends) == IF ends = {} THEN Len(script) + 1 ELSE 1 + Min(ends)

If ==
    /\ At(Conditionals)
    /\ LET execute == Held(1) /\ (Truthy(Top(1)) <=> script[pc] = OP_IF)
       IN /\ pc' = IF execute THEN pc + 1 ELSE SkipTo({q \in Ahead : Closes(q) \/ Alternates(q)})
          /\ chosen' = [p \in DOMAIN chosen \cup {pc} |-> IF p = pc THEN execute ELSE chosen[p]]
    /\ stack' = IF Held(1) THEN Popped(1) ELSE stack
    /\ UNCHANGED <<marks, verdict>>

\* Reached in a branch that was taken.  Only the second one at a level skips.
Else ==
    /\ At({OP_ELSE})
    /\ IF marks # <<>> THEN pc' = SkipTo({q \in Ahead : Closes(q)}) /\ UNCHANGED marks
       ELSE pc' = pc + 1 /\ marks' = Append(marks, FALSE)
    /\ UNCHANGED <<stack, verdict, chosen>>

EndIf ==
    /\ At({OP_ENDIF})
    /\ pc' = pc + 1
    /\ marks' = IF marks = <<>> THEN marks ELSE Front(marks)
    /\ UNCHANGED <<stack, verdict, chosen>>

Known ==
    Pushes \cup OP_1..OP_16 \cup Conditionals \cup
    {OP_0, OP_ELSE, OP_ENDIF, OP_VERIFY, OP_RETURN, OP_DUP, OP_EQUAL, OP_EQUALVERIFY, OP_HASH160,
     OP_CHECKSIG, OP_CHECKMULTISIG, OP_CHECKLOCKTIMEVERIFY, OP_CHECKSEQUENCEVERIFY}

Unknown ==
    /\ verdict = "none" /\ pc <= Len(script) /\ script[pc] \notin Known
    /\ Stop(FALSE)
    /\ UNCHANGED <<call, script, ran>>

\* The end: the top of the stack is the answer.
Finish ==
    /\ verdict = "none" /\ pc > Len(script)
    /\ Stop(Held(1) /\ Truthy(Top(1)))
    /\ UNCHANGED <<call, script, ran>>

Next ==
    \/ Push \/ PushNumber \/ Dup \/ HashTop \/ Equal \/ EqualVerify
    \/ CheckSig \/ CheckMultiSig \/ Return \/ Verify \/ CheckLockTime \/ CheckSequence
    \/ If \/ Else \/ EndIf \/ Unknown \/ Finish

-----------------------------------------------------------------------------
(* What a script should mean. *)

\* The places before pc where an operation starts, reading from the head.
Starts ==
    LET read(seen, p) ==
            IF p # seen.next THEN seen
            ELSE [at |-> seen.at \cup {p},
                  next |-> p + 1 + IF script[p] \in Pushes THEN script[p] ELSE 0]
    IN FoldLeft(read, [at |-> {}, next |-> 1], [p \in 1..pc - 1 |-> p]).at

Level(starts, i, p) ==
    Cardinality({q \in starts \cap i..p : script[q] \in Conditionals})
    - Cardinality({q \in starts \cap i..p : script[q] = OP_ENDIF})

\* The conditional at i is still open at p, which stands in its first branch
\* or, after an alternative of its own, in the second, and so on.
Encloses(starts, i, p) == i < p /\ \A q \in i..p : Level(starts, i, q) >= 1
InFirst(starts, i, p) ==
    LET own == {q \in starts \cap i..p - 1 : script[q] = OP_ELSE /\ Level(starts, i, q) = 1}
    IN Cardinality(own) % 2 = 0

Branching == Conditionals \cup {OP_ELSE, OP_ENDIF}

\* No alternative was met after a branch that was taken (the interpreter runs
\* both then), and no data looks like a conditional's operation.
Ordinary(starts) ==
    /\ \A p \in ran : script[p] # OP_ELSE
    /\ \A p \in 1..pc - 1 : p \in starts \/ script[p] \notin Branching

\* An operation was run exactly when every conditional around it had selected
\* the branch it stands in, however they are nested and whatever is missing.
BranchesRight ==
    verdict # "none" =>
        LET starts == Starts
            around(p) == {i \in starts : script[i] \in Conditionals /\ Encloses(starts, i, p)}
            selected(p) == \A i \in around(p) : i \in DOMAIN chosen /\ (chosen[i] <=> InFirst(starts, i, p))
        IN Ordinary(starts) =>
            \A p \in starts : script[p] \notin Branching => (p \in ran <=> selected(p))
=============================================================================
