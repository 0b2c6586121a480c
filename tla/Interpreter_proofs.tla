-------------------------- MODULE Interpreter_proofs --------------------------
(***************************************************************************)
(* The interpreter: its type invariant - gas within the limit, a stack     *)
(* within its depth, byte strings no longer than the gas limit - and the   *)
(* fact that success is reported with no call left open.                   *)
(***************************************************************************)
EXTENDS Interpreter, DataLemmas

Kinds    == {"Integer", "Bytes", "Builder", "Cell", "Slice"}
Raises   == {"none", "panic", "OutOfGas", "IntegerOverflow", "AbsentNode", "MalformedCell", "TypeMismatch"}
Statuses == {"running", "success", "exception", "panicked"}

Fits(v) ==
    /\ v.kind = "Bytes" => v.val \in 0 .. program.limit
    /\ v.kind = "Integer" => v.val \in MinInt .. Wide \cup 0 .. program.limit

Values == {v \in [kind : Kinds, val : Int] : Fits(v)}

\* Where a continuation resumes: at an instruction, or at the end of its code.
Places == {c \in [code : DOMAIN program.code, pc : Nat] : c.pc <= Len(program.code[c.code])}

Shape ==
    [stack : Seq(Values), calls : Seq(Places), code : DOMAIN program.code, pc : Nat, gas : Nat,
     c0 : SUBSET Places, raised : Raises, status : Statuses]

Machine(m) ==
    /\ m \in Shape
    /\ Len(m.stack) <= MaxStackDepth
    /\ m.gas <= program.limit
    /\ m.pc <= Len(program.code[m.code])

\* n is a machine that stands where m stands: only stack, gas and exception differ.
Kept(m, n) ==
    /\ Machine(n)
    /\ n.calls = m.calls /\ n.c0 = m.c0 /\ n.code = m.code /\ n.pc = m.pc
    /\ n.status = m.status

VmInv ==
    /\ program \in Programs
    /\ Machine(vm)
    /\ OpenCallsCanReturn
    /\ SuccessMeansReturned

-----------------------------------------------------------------------------
(* Numbers *)

LEMMA IntegersInRange ==
    /\ MinInt \in Int /\ MaxInt \in Int /\ Wide \in Int
    /\ MinInt <= -4 /\ MaxInt = -MinInt - 1 /\ Wide = -MinInt
<1>1. IntBits - 1 \in Nat /\ 2 \in 0 .. IntBits - 1
  BY InterpreterAssumption
<1>2. TwoTo(IntBits - 1) \in Nat /\ 4 <= TwoTo(IntBits - 1)
  BY <1>1, TwoToGrows, TwoToTwo
<1> QED BY <1>2 DEF MinInt, MaxInt, Wide

LEMMA ToI128InRange ==
    ASSUME NEW n \in Int
    PROVE  ToI128(n) \in MinInt .. MaxInt
<1> DEFINE w == MaxInt - MinInt + 1
           r == (n - MinInt) % w
<1>1. w \in Nat /\ w > 0 /\ n - MinInt \in Int
  BY IntegersInRange
<1>2. r \in 0 .. w - 1
  <2> HIDE DEF w
  <2> QED BY <1>1
<1>3. ToI128(n) = r + MinInt
  BY DEF ToI128
<1> HIDE DEF r
<1> QED BY <1>2, <1>3, IntegersInRange

LEMMA ProgramFacts ==
    ASSUME program \in Programs
    PROVE  /\ program.limit \in Nat /\ "main" \in DOMAIN program.code
           /\ \A c \in DOMAIN program.code :
                  /\ Len(program.code[c]) \in Nat
                  /\ \A n \in 1 .. Len(program.code[c]) : Decoded(program.code[c][n])
           /\ \A h \in program.handler : h.code \in DOMAIN program.code /\ h.pc \in 0 .. Len(program.code[h.code])
  BY ProgramsAssumption

LEMMA NumIsValue ==
    ASSUME program \in Programs, NEW n \in Int, n \in MinInt .. Wide \cup 0 .. program.limit
    PROVE  Num(n) \in Values
  BY DEF Num, Values, Fits, Kinds

LEMMA BytesIsValue ==
    ASSUME program \in Programs, NEW n \in 0 .. program.limit
    PROVE  Bytes(n) \in Values
  BY ProgramFacts DEF Bytes, Values, Fits, Kinds

LEMMA ThingIsValue ==
    ASSUME NEW k \in {"Builder", "Cell", "Slice"}
    PROVE  Thing(k) \in Values
  BY DEF Thing, Values, Fits, Kinds

LEMMA BoolIsValue ==
    ASSUME program \in Programs, NEW b \in BOOLEAN
    PROVE  Bool(b) \in Values
<1>1. (IF b THEN 1 ELSE 0) \in Int /\ (IF b THEN 1 ELSE 0) \in MinInt .. Wide
  BY IntegersInRange
<1> QED BY <1>1, NumIsValue DEF Bool

-----------------------------------------------------------------------------
(* The fields of a machine, and changing them. *)

LEMMA FieldsOf ==
    ASSUME NEW m, Machine(m)
    PROVE  /\ m.stack \in Seq(Values) /\ Len(m.stack) \in Nat /\ Len(m.stack) <= MaxStackDepth
           /\ m.gas \in Nat /\ m.gas <= program.limit
           /\ m.calls \in Seq(Places) /\ m.c0 \subseteq Places
           /\ m.code \in DOMAIN program.code /\ m.pc \in Nat /\ m.pc <= Len(program.code[m.code])
           /\ m.raised \in Raises /\ m.status \in Statuses
           /\ Kept(m, m)
<1>1. m \in Shape
  BY DEF Machine
<1>2. /\ m.stack \in Seq(Values) /\ m.gas \in Nat /\ m.calls \in Seq(Places) /\ m.c0 \subseteq Places
      /\ m.code \in DOMAIN program.code /\ m.pc \in Nat
      /\ m.raised \in Raises /\ m.status \in Statuses
  BY <1>1 DEF Shape
<1> QED BY <1>2 DEF Machine, Kept

LEMMA SetStack ==
    ASSUME NEW m, Machine(m), NEW s \in Seq(Values), Len(s) <= MaxStackDepth
    PROVE  Kept(m, [m EXCEPT !.stack = s]) /\ [m EXCEPT !.stack = s].raised = m.raised
             /\ [m EXCEPT !.stack = s].stack = s /\ [m EXCEPT !.stack = s].gas = m.gas
<1> DEFINE n == [m EXCEPT !.stack = s]
<1>1. m \in Shape
  BY DEF Machine
<1>2. n \in Shape /\ n.stack = s /\ n.gas = m.gas /\ n.pc = m.pc /\ n.code = m.code
      /\ n.calls = m.calls /\ n.c0 = m.c0 /\ n.status = m.status /\ n.raised = m.raised
  BY <1>1 DEF Shape
<1> HIDE DEF n
<1>3. Machine(n)
  BY <1>2 DEF Machine
<1>4. Kept(m, n) /\ n.raised = m.raised /\ n.stack = s /\ n.gas = m.gas
  BY <1>2, <1>3 DEF Kept
<1> QED BY <1>4 DEF n

LEMMA SetGas ==
    ASSUME NEW m, Machine(m), NEW g \in Nat, g <= program.limit
    PROVE  Kept(m, [m EXCEPT !.gas = g]) /\ [m EXCEPT !.gas = g].raised = m.raised
             /\ [m EXCEPT !.gas = g].stack = m.stack
<1> DEFINE n == [m EXCEPT !.gas = g]
<1>1. m \in Shape
  BY DEF Machine
<1>2. n \in Shape /\ n.stack = m.stack /\ n.gas = g /\ n.pc = m.pc /\ n.code = m.code
      /\ n.calls = m.calls /\ n.c0 = m.c0 /\ n.status = m.status /\ n.raised = m.raised
  BY <1>1 DEF Shape
<1> HIDE DEF n
<1>3. Machine(n)
  BY <1>2 DEF Machine
<1>4. Kept(m, n) /\ n.raised = m.raised /\ n.stack = m.stack
  BY <1>2, <1>3 DEF Kept
<1> QED BY <1>4 DEF n

LEMMA SetRaised ==
    ASSUME NEW m, Machine(m), NEW k \in Raises
    PROVE  Kept(m, [m EXCEPT !.raised = k]) /\ [m EXCEPT !.raised = k].raised = k
             /\ [m EXCEPT !.raised = k].stack = m.stack
<1> DEFINE n == [m EXCEPT !.raised = k]
<1>1. m \in Shape
  BY DEF Machine
<1>2. n \in Shape /\ n.stack = m.stack /\ n.gas = m.gas /\ n.pc = m.pc /\ n.code = m.code
      /\ n.calls = m.calls /\ n.c0 = m.c0 /\ n.status = m.status /\ n.raised = k
  BY <1>1 DEF Shape
<1> HIDE DEF n
<1>3. Machine(n)
  BY <1>2 DEF Machine
<1>4. Kept(m, n) /\ n.raised = k /\ n.stack = m.stack
  BY <1>2, <1>3 DEF Kept
<1> QED BY <1>4 DEF n

LEMMA KeptChain ==
    ASSUME NEW l, NEW m, NEW n, Kept(l, m), Kept(m, n)
    PROVE  Kept(l, n)
  BY DEF Kept

-----------------------------------------------------------------------------
(* Gas and the stack. *)

LEMMA RaiseKept ==
    ASSUME NEW m, Machine(m), NEW k \in Raises \ {"none"}
    PROVE  Kept(m, Raise(m, k)) /\ Raise(m, k).raised # "none"
<1>1. CASE m.raised = "none"
  <2>1. Raise(m, k) = [m EXCEPT !.raised = k]
    BY <1>1 DEF Raise
  <2>2. Kept(m, [m EXCEPT !.raised = k]) /\ [m EXCEPT !.raised = k].raised = k
    BY SetRaised
  <2> QED BY <2>1, <2>2
<1>2. CASE m.raised # "none"
  BY <1>2, FieldsOf DEF Raise
<1> QED BY <1>1, <1>2

\* What the provers need of a machine that has paid.
Paid(m, n, cost) ==
    /\ Kept(m, n)
    /\ n.raised = "none" => m.raised = "none" /\ n.stack = m.stack /\ m.gas + cost <= program.limit

LEMMA PayKept ==
    ASSUME program \in Programs, NEW m, Machine(m), NEW cost, m.raised = "none" => cost \in Nat
    PROVE  Paid(m, Pay(m, cost), cost)
<1>1. CASE m.raised # "none"
  BY <1>1, FieldsOf DEF Pay, Paid
<1>2. CASE m.raised = "none" /\ m.gas + cost > program.limit
  <2> DEFINE l == [m EXCEPT !.gas = program.limit]
  <2>1. program.limit \in Nat /\ program.limit <= program.limit
    BY ProgramFacts
  <2>2. Kept(m, l)
    BY <2>1, SetGas
  <2>3. Machine(l)
    BY <2>2 DEF Kept
  <2>4. Pay(m, cost) = Raise(l, "OutOfGas")
    BY <1>2 DEF Pay
  <2> HIDE DEF l
  <2>5. Kept(l, Raise(l, "OutOfGas")) /\ Raise(l, "OutOfGas").raised # "none"
    BY <2>3, RaiseKept DEF Raises
  <2> QED BY <2>2, <2>4, <2>5, KeptChain DEF Paid
<1>3. CASE m.raised = "none" /\ ~(m.gas + cost > program.limit)
  <2> DEFINE g == m.gas + cost
  <2>1. g \in Nat /\ g <= program.limit
    BY <1>3, ProgramFacts, FieldsOf
  <2>2. Pay(m, cost) = [m EXCEPT !.gas = g]
    BY <1>3 DEF Pay
  <2>3. m.gas + cost <= program.limit
    BY <2>1
  <2> HIDE DEF g
  <2>4. Kept(m, [m EXCEPT !.gas = g]) /\ [m EXCEPT !.gas = g].stack = m.stack
    BY <2>1, SetGas
  <2> QED BY <1>3, <2>2, <2>3, <2>4 DEF Paid
<1> QED BY <1>1, <1>2, <1>3

\* A machine that took a value of the kind from the top.
Popped(m, n, kind) ==
    /\ Kept(m, n)
    /\ n.raised = "none" =>
           /\ m.raised = "none" /\ m.stack # <<>> /\ kind \in {"any", m.stack[Len(m.stack)].kind}
           /\ n.stack = SubSeq(m.stack, 1, Len(m.stack) - 1)

LEMMA PopKept ==
    ASSUME NEW m, Machine(m), NEW kind
    PROVE  Popped(m, Pop(m, kind), kind)
<1>1. CASE m.raised # "none"
  BY <1>1, FieldsOf DEF Pop, Popped
<1>2. CASE m.raised = "none" /\ m.stack = <<>>
  <2>1. Pop(m, kind) = Raise(m, "MalformedCell")
    BY <1>2 DEF Pop
  <2>2. Kept(m, Raise(m, "MalformedCell")) /\ Raise(m, "MalformedCell").raised # "none"
    BY RaiseKept DEF Raises
  <2> QED BY <2>1, <2>2 DEF Popped
<1>3. CASE m.raised = "none" /\ m.stack # <<>>
  <2> DEFINE s == SubSeq(m.stack, 1, Len(m.stack) - 1)
             l == [m EXCEPT !.stack = s]
  <2>1. m.stack \in Seq(Values) /\ Len(m.stack) <= MaxStackDepth
    BY FieldsOf
  <2>2. s \in Seq(Values) /\ Len(s) <= MaxStackDepth
    BY <1>3, <2>1, InterpreterAssumption
  <2>3. [m EXCEPT !.stack = Front(@)] = l
    BY DEF Front
  <2>4. Kept(m, l) /\ l.stack = s /\ l.raised = m.raised
    <3> HIDE DEF s
    <3> QED BY <2>2, SetStack
  <2> HIDE DEF l
  <2>5. Machine(l)
    BY <2>4 DEF Kept
  <2>6. CASE kind \in {"any", Last(m.stack).kind}
    <3>1. Pop(m, kind) = l
      BY <1>3, <2>3, <2>6 DEF Pop
    <3> QED BY <1>3, <2>4, <2>6, <3>1 DEF Popped, Last
  <2>7. CASE kind \notin {"any", Last(m.stack).kind}
    <3>1. Pop(m, kind) = Raise(l, "TypeMismatch")
      BY <1>3, <2>3, <2>7 DEF Pop
    <3>2. Kept(l, Raise(l, "TypeMismatch")) /\ Raise(l, "TypeMismatch").raised # "none"
      BY <2>5, RaiseKept DEF Raises
    <3> QED BY <2>4, <3>1, <3>2, KeptChain DEF Popped
  <2> QED BY <2>6, <2>7
<1> QED BY <1>1, <1>2, <1>3

LEMMA PushKept ==
    ASSUME NEW m, Machine(m), NEW v, m.raised = "none" => v \in Values
    PROVE  Kept(m, Push(m, v))
<1>1. CASE m.raised # "none"
  BY <1>1, FieldsOf DEF Push
<1>2. CASE m.raised = "none" /\ Len(m.stack) >= MaxStackDepth
  <2>1. Push(m, v) = Raise(m, "MalformedCell")
    BY <1>2 DEF Push
  <2> QED BY <2>1, RaiseKept DEF Raises
<1>3. CASE m.raised = "none" /\ ~(Len(m.stack) >= MaxStackDepth)
  <2> DEFINE s == Append(m.stack, v)
  <2>1. m.stack \in Seq(Values) /\ Len(m.stack) \in Nat
    BY FieldsOf
  <2>2. s \in Seq(Values) /\ Len(s) <= MaxStackDepth
    BY <1>3, <2>1, InterpreterAssumption
  <2>3. Push(m, v) = [m EXCEPT !.stack = s]
    BY <1>3 DEF Push
  <2> HIDE DEF s
  <2> QED BY <2>2, <2>3, SetStack
<1> QED BY <1>1, <1>2, <1>3

LEMMA PushAllKept ==
    ASSUME NEW m, Machine(m), NEW values, m.raised = "none" => values \in Seq(Values)
    PROVE  Kept(m, PushAll(m, values))
<1> DEFINE room == MaxStackDepth - Len(m.stack)
<1>1. CASE m.raised # "none"
  BY <1>1, FieldsOf DEF PushAll
<1>2. CASE m.raised = "none"
  <2>1. m.stack \in Seq(Values) /\ Len(m.stack) \in Nat /\ values \in Seq(Values) /\ room \in Nat
    BY <1>2, FieldsOf, InterpreterAssumption
  <2>2. CASE Len(values) <= room
    <3> DEFINE s == m.stack \o values
    <3>1. s \in Seq(Values) /\ Len(s) <= MaxStackDepth
      BY <2>1, <2>2, InterpreterAssumption
    <3>2. PushAll(m, values) = [m EXCEPT !.stack = s]
      BY <1>2, <2>2 DEF PushAll
    <3> HIDE DEF s
    <3> QED BY <3>1, <3>2, SetStack
  <2>3. CASE ~(Len(values) <= room)
    <3> DEFINE t == SubSeq(values, 1, room)
               s == m.stack \o t
               l == [m EXCEPT !.stack = s]
    <3>1. t \in Seq(Values) /\ Len(t) = room
      BY <2>1, <2>3
    <3>2. s \in Seq(Values) /\ Len(s) <= MaxStackDepth
      <4> HIDE DEF t
      <4> QED BY <2>1, <3>1, InterpreterAssumption
    <3>3. PushAll(m, values) = Raise(l, "MalformedCell")
      BY <1>2, <2>3 DEF PushAll
    <3> HIDE DEF s
    <3>4. Kept(m, l)
      BY <3>2, SetStack
    <3> HIDE DEF l
    <3>5. Machine(l)
      BY <3>4 DEF Kept
    <3>6. Kept(l, Raise(l, "MalformedCell"))
      BY <3>5, RaiseKept DEF Raises
    <3> QED BY <3>3, <3>4, <3>6, KeptChain
  <2> QED BY <2>2, <2>3
<1> QED BY <1>1, <1>2

LEMMA NeedsKept ==
    ASSUME NEW m, Machine(m), NEW n \in Nat
    PROVE  /\ Kept(m, Needs(m, n))
           /\ Needs(m, n).raised = "none" => Needs(m, n) = m /\ n <= Len(m.stack)
<1>1. CASE Len(m.stack) < n
  BY <1>1, RaiseKept DEF Needs, Raises
<1>2. CASE ~(Len(m.stack) < n)
  BY <1>2, FieldsOf DEF Needs
<1> QED BY <1>1, <1>2

LEMMA NthIsValue ==
    ASSUME NEW m, Machine(m), NEW n \in Nat, n < Len(m.stack)
    PROVE  Nth(m, n) \in Values
<1>1. m.stack \in Seq(Values) /\ Len(m.stack) - n \in 1 .. Len(m.stack)
  BY FieldsOf
<1> QED BY <1>1 DEF Nth

LEMMA Joined ==
    ASSUME NEW V, NEW s \in Seq(V), NEW t \in Seq(V)
    PROVE  s \o t \in Seq(V) /\ Len(s \o t) = Len(s) + Len(t)
  OBVIOUS

(* What is left of a sequence without its last n. *)
LEMMA Cut ==
    ASSUME NEW V, NEW s \in Seq(V), NEW n \in Nat, n <= Len(s), NEW t, t = SubSeq(s, 1, Len(s) - n)
    PROVE  /\ t \in Seq(V) /\ Len(t) = Len(s) - n
           /\ t # <<>> => n < Len(s) /\ t[Len(t)] = s[Len(s) - n]
<1>1. t \in Seq(V) /\ Len(t) = Len(s) - n /\ Len(s) \in Nat
  OBVIOUS
<1>2. t # <<>> => Len(t) # 0
  BY <1>1
<1>3. Len(t) # 0 => n < Len(s) /\ t[Len(t)] = s[Len(s) - n]
  BY <1>1
<1> QED BY <1>1, <1>2, <1>3

\* A machine that took values of these kinds, topmost first.
Took(m, n, kinds) ==
    /\ Kept(m, n)
    /\ n.raised = "none" =>
           /\ m.raised = "none" /\ Len(kinds) <= Len(m.stack)
           /\ \A k \in 1 .. Len(kinds) : kinds[k] \in {"any", Nth(m, k - 1).kind}

LEMMA PopTwice ==
    ASSUME NEW m, Machine(m), NEW a, NEW b
    PROVE  LET n == Pop(Pop(m, a), b)
           IN /\ Kept(m, n)
              /\ n.raised = "none" =>
                     /\ m.raised = "none" /\ 2 <= Len(m.stack)
                     /\ a \in {"any", Nth(m, 0).kind} /\ b \in {"any", Nth(m, 1).kind}
                     /\ n.stack = SubSeq(m.stack, 1, Len(m.stack) - 2)
<1> DEFINE l == Pop(m, a)
           n == Pop(l, b)
<1>1. Popped(m, l, a)
  BY PopKept
<1>2. Machine(l)
  BY <1>1 DEF Popped, Kept
<1>3. Popped(l, n, b)
  <2> HIDE DEF l
  <2> QED BY <1>2, PopKept
<1>4. Kept(m, n)
  <2> HIDE DEF l, n
  <2> QED BY <1>1, <1>3, KeptChain DEF Popped
<1>5. ASSUME n.raised = "none"
      PROVE  /\ m.raised = "none" /\ 2 <= Len(m.stack)
             /\ a \in {"any", Nth(m, 0).kind} /\ b \in {"any", Nth(m, 1).kind}
             /\ n.stack = SubSeq(m.stack, 1, Len(m.stack) - 2)
  <2> HIDE DEF l, n
  <2>1. l.raised = "none" /\ l.stack # <<>> /\ b \in {"any", l.stack[Len(l.stack)].kind}
        /\ n.stack = SubSeq(l.stack, 1, Len(l.stack) - 1)
    BY <1>3, <1>5 DEF Popped
  <2>2. /\ m.raised = "none" /\ m.stack # <<>> /\ a \in {"any", m.stack[Len(m.stack)].kind}
        /\ l.stack = SubSeq(m.stack, 1, Len(m.stack) - 1)
    BY <1>1, <2>1 DEF Popped
  <2>3. m.stack \in Seq(Values) /\ Len(m.stack) \in Nat
    BY FieldsOf
  <2>4. Len(m.stack) # 0 /\ 1 <= Len(m.stack) /\ 1 \in Nat
    BY <2>2, <2>3
  <2>5. 1 < Len(m.stack) /\ Len(l.stack) = Len(m.stack) - 1 /\ l.stack[Len(l.stack)] = m.stack[Len(m.stack) - 1]
    BY <2>1, <2>2, <2>3, <2>4, Cut
  <2>6. 2 <= Len(m.stack)
    BY <2>3, <2>5
  <2>7. n.stack = SubSeq(m.stack, 1, Len(m.stack) - 2)
    BY <2>1, <2>2, <2>3, <2>5, <2>6
  <2>8. Nth(m, 0) = m.stack[Len(m.stack)] /\ Nth(m, 1) = m.stack[Len(m.stack) - 1]
    BY <2>3 DEF Nth
  <2> QED BY <2>1, <2>2, <2>5, <2>6, <2>7, <2>8
<1> QED BY <1>4, <1>5

LEMMA PopAllKept ==
    ASSUME NEW m, Machine(m), NEW kinds, Len(kinds) \in 0 .. 3
    PROVE  Took(m, PopAll(m, kinds), kinds)
<1>0. m.stack \in Seq(Values) /\ Len(m.stack) \in Nat /\ Kept(m, m)
  BY FieldsOf
<1>1. CASE Len(kinds) = 0
  <2>1. PopAll(m, kinds) = m
    BY <1>1 DEF PopAll
  <2> QED BY <1>0, <1>1, <2>1 DEF Took
<1>2. CASE Len(kinds) = 1
  <2>1. PopAll(m, kinds) = Pop(m, kinds[1])
    BY <1>2 DEF PopAll
  <2>2. Popped(m, Pop(m, kinds[1]), kinds[1])
    BY PopKept
  <2>3. Nth(m, 0) = m.stack[Len(m.stack)]
    BY <1>0 DEF Nth
  <2>4. m.stack # <<>> => 1 <= Len(m.stack)
    BY <1>0
  <2>5. \A k \in 1 .. 1 : k = 1 /\ k - 1 = 0
    OBVIOUS
  <2> QED BY <1>2, <2>1, <2>2, <2>3, <2>4, <2>5 DEF Took, Popped
<1>3. CASE Len(kinds) = 2
  <2>1. PopAll(m, kinds) = Pop(Pop(m, kinds[1]), kinds[2])
    BY <1>3 DEF PopAll
  <2> DEFINE n == Pop(Pop(m, kinds[1]), kinds[2])
  <2>2. /\ Kept(m, n)
        /\ n.raised = "none" =>
               /\ m.raised = "none" /\ 2 <= Len(m.stack)
               /\ kinds[1] \in {"any", Nth(m, 0).kind} /\ kinds[2] \in {"any", Nth(m, 1).kind}
    BY PopTwice
  <2> HIDE DEF n
  <2>3. \A k \in 1 .. 2 : (k = 1 /\ k - 1 = 0) \/ (k = 2 /\ k - 1 = 1)
    OBVIOUS
  <2>4. Took(m, n, kinds)
    BY <1>3, <2>2, <2>3 DEF Took
  <2> QED BY <2>1, <2>4 DEF n
<1>4. CASE Len(kinds) = 3
  <2> DEFINE l == Pop(Pop(m, kinds[1]), kinds[2])
             n == Pop(l, kinds[3])
  <2>1. PopAll(m, kinds) = n
    BY <1>4 DEF PopAll
  <2>2. /\ Kept(m, l)
        /\ l.raised = "none" =>
               /\ m.raised = "none" /\ 2 <= Len(m.stack)
               /\ kinds[1] \in {"any", Nth(m, 0).kind} /\ kinds[2] \in {"any", Nth(m, 1).kind}
               /\ l.stack = SubSeq(m.stack, 1, Len(m.stack) - 2)
    BY PopTwice
  <2> HIDE DEF l
  <2>3. Machine(l)
    BY <2>2 DEF Kept
  <2>4. Popped(l, n, kinds[3])
    BY <2>3, PopKept
  <2> HIDE DEF n
  <2>5. Kept(m, n)
    BY <2>2, <2>4, KeptChain DEF Popped
  <2>6. ASSUME n.raised = "none"
        PROVE  m.raised = "none" /\ 3 <= Len(m.stack) /\ kinds[3] \in {"any", Nth(m, 2).kind} /\ l.raised = "none"
    <3>1. /\ l.raised = "none" /\ l.stack # <<>> /\ kinds[3] \in {"any", l.stack[Len(l.stack)].kind}
      BY <2>4, <2>6 DEF Popped
    <3>2. m.raised = "none" /\ 2 <= Len(m.stack) /\ l.stack = SubSeq(m.stack, 1, Len(m.stack) - 2)
      BY <2>2, <3>1
    <3>3. 2 < Len(m.stack) /\ l.stack[Len(l.stack)] = m.stack[Len(m.stack) - 2]
      BY <1>0, <3>1, <3>2, Cut
    <3>4. 3 <= Len(m.stack) /\ l.stack[Len(l.stack)] = m.stack[Len(m.stack) - 2]
      BY <1>0, <3>3
    <3> QED BY <3>1, <3>2, <3>4 DEF Nth
  <2>7. \A k \in 1 .. 3 : (k = 1 /\ k - 1 = 0) \/ (k = 2 /\ k - 1 = 1) \/ (k = 3 /\ k - 1 = 2)
    OBVIOUS
  <2>8. Took(m, n, kinds)
    BY <1>4, <2>2, <2>5, <2>6, <2>7 DEF Took
  <2> QED BY <2>1, <2>8
<1> QED BY <1>1, <1>2, <1>3, <1>4

LEMMA RearrangeKept ==
    ASSUME program \in Programs, NEW m, Machine(m), NEW n \in Nat,
           NEW indices \in Seq(0 .. n - 1)
    PROVE  Kept(m, Rearrange(m, n, indices))
<1> DEFINE gone == Pay(m, 1)
           paid == Needs(gone, n)
<1>1. Paid(m, gone, 1)
  BY PayKept
<1> HIDE DEF gone
<1>2. Machine(gone)
  BY <1>1 DEF Paid, Kept
<1>3. /\ Kept(gone, paid)
      /\ paid.raised = "none" => paid = gone /\ n <= Len(gone.stack)
  BY <1>2, NeedsKept
<1> HIDE DEF paid
<1>4. Kept(m, paid)
  BY <1>1, <1>3, KeptChain DEF Paid
<1>5. CASE paid.raised # "none"
  <2>1. Rearrange(m, n, indices) = paid
    BY <1>5 DEF Rearrange, paid, gone
  <2> QED BY <1>4, <2>1
<1>6. CASE paid.raised = "none"
  <2> DEFINE cut == SubSeq(paid.stack, 1, Len(paid.stack) - n)
             l == [paid EXCEPT !.stack = cut]
             values == [i \in DOMAIN indices |-> Nth(m, indices[i])]
  <2>1. Rearrange(m, n, indices) = PushAll(l, values)
    BY <1>6 DEF Rearrange, paid, gone
  <2>2. paid.stack = m.stack /\ n <= Len(m.stack)
    BY <1>1, <1>3, <1>6 DEF Paid
  <2>3. m.stack \in Seq(Values) /\ Len(m.stack) \in Nat /\ Len(m.stack) <= MaxStackDepth
    BY FieldsOf
  <2>4. Machine(paid)
    BY <1>4 DEF Kept
  <2>5. cut \in Seq(Values) /\ Len(cut) <= MaxStackDepth
    BY <2>2, <2>3, InterpreterAssumption
  <2>6. Kept(paid, l)
    <3> HIDE DEF cut
    <3> QED BY <2>4, <2>5, SetStack
  <2>7. \A i \in DOMAIN indices : Nth(m, indices[i]) \in Values
    <3>1. \A i \in DOMAIN indices : indices[i] \in 0 .. n - 1
      OBVIOUS
    <3>2. \A k \in 0 .. n - 1 : k \in Nat /\ k < Len(m.stack)
      BY <2>2, <2>3
    <3> QED BY <3>1, <3>2, NthIsValue
  <2>8. values \in Seq(Values)
    <3>1. DOMAIN indices = 1 .. Len(indices) /\ Len(indices) \in Nat
      OBVIOUS
    <3>2. values \in [1 .. Len(indices) -> Values]
      BY <2>7, <3>1
    <3> HIDE DEF values
    <3> QED BY <3>1, <3>2
  <2> HIDE DEF l, values
  <2>9. Machine(l)
    BY <2>6 DEF Kept
  <2>10. Kept(l, PushAll(l, values))
    BY <2>8, <2>9, PushAllKept
  <2> QED BY <1>4, <2>1, <2>6, <2>10, KeptChain
<1> QED BY <1>5, <1>6

-----------------------------------------------------------------------------
(* Instructions on the stack alone. *)

LEMMA PayIsMachine ==
    ASSUME program \in Programs, NEW m, Machine(m), NEW cost \in Nat
    PROVE  Kept(m, Pay(m, cost)) /\ Machine(Pay(m, cost))
  BY PayKept DEF Paid, Kept

LEMMA PayThenPop ==
    ASSUME program \in Programs, NEW m, Machine(m), NEW cost \in Nat, NEW kinds, Len(kinds) \in 0 .. 3
    PROVE  Took(m, PopAll(Pay(m, cost), kinds), kinds)
<1> DEFINE l == Pay(m, cost)
           n == PopAll(l, kinds)
<1>1. Paid(m, l, cost)
  BY PayKept
<1> HIDE DEF l
<1>2. Machine(l)
  BY <1>1 DEF Paid, Kept
<1>3. Took(l, n, kinds)
  BY <1>2, PopAllKept
<1> HIDE DEF n
<1>4. Kept(m, n)
  BY <1>1, <1>3, KeptChain DEF Paid, Took
<1>5. n.raised = "none" => m.raised = "none" /\ l.stack = m.stack
  BY <1>1, <1>3 DEF Paid, Took
<1>6. Took(m, n, kinds)
  BY <1>3, <1>4, <1>5 DEF Took, Nth
<1> QED BY <1>6 DEF n, l

LEMMA PayThenNeed ==
    ASSUME program \in Programs, NEW m, Machine(m), NEW n \in Nat, NEW paid, paid = Needs(Pay(m, 1), n)
    PROVE  /\ Kept(m, paid) /\ Machine(paid)
           /\ paid.raised = "none" => paid.stack = m.stack /\ n <= Len(m.stack)
<1> DEFINE l == Pay(m, 1)
<1>1. Paid(m, l, 1)
  BY PayKept
<1>0. paid = Needs(l, n)
  OBVIOUS
<1> HIDE DEF l
<1>2. Machine(l)
  BY <1>1 DEF Paid, Kept
<1>3. /\ Kept(l, paid)
      /\ paid.raised = "none" => paid = l /\ n <= Len(l.stack)
  BY <1>0, <1>2, NeedsKept
<1>4. Kept(m, paid) /\ Machine(paid)
  BY <1>1, <1>3, KeptChain DEF Paid, Kept
<1> QED BY <1>1, <1>3, <1>4 DEF Paid

LEMMA StackKept ==
    ASSUME program \in Programs, NEW m, Machine(m), NEW i, Decoded(i), i.op \in StackOps
    PROVE  Kept(m, Stack(m, i))
<1>0. m.stack \in Seq(Values) /\ Len(m.stack) \in Nat /\ Len(m.stack) <= MaxStackDepth
  BY FieldsOf
<1>1. CASE i.op = "NOP"
  <2>1. Stack(m, i) = Pay(m, 1)
    BY <1>1 DEF Stack
  <2> QED BY <2>1, PayIsMachine
<1>2. CASE i.op = "DROP"
  <2>1. Stack(m, i) = Pop(Pay(m, 1), "any")
    BY <1>2 DEF Stack
  <2>2. Kept(m, Pay(m, 1)) /\ Machine(Pay(m, 1))
    BY PayIsMachine
  <2>3. Kept(Pay(m, 1), Pop(Pay(m, 1), "any"))
    BY <2>2, PopKept DEF Popped
  <2> QED BY <2>1, <2>2, <2>3, KeptChain
<1>3. CASE i.op = "DUP"
  <2>1. Stack(m, i) = Rearrange(m, 1, <<0, 0>>)
    BY <1>3 DEF Stack
  <2>2. <<0, 0>> \in Seq(0 .. 1 - 1)
    OBVIOUS
  <2> QED BY <2>1, <2>2, RearrangeKept
<1>4. CASE i.op = "SWAP"
  <2>1. CASE Len(m.stack) < 2
    <3>1. Stack(m, i) = PopAll(Pay(m, 1), <<"any", "any">>)
      BY <1>4, <2>1 DEF Stack
    <3>2. Len(<<"any", "any">>) \in 0 .. 3
      OBVIOUS
    <3> QED BY <3>1, <3>2, PayThenPop DEF Took
  <2>2. CASE ~(Len(m.stack) < 2)
    <3>1. Stack(m, i) = Rearrange(m, 2, <<0, 1>>)
      BY <1>4, <2>2 DEF Stack
    <3>2. <<0, 1>> \in Seq(0 .. 2 - 1)
      OBVIOUS
    <3> QED BY <3>1, <3>2, RearrangeKept
  <2> QED BY <2>1, <2>2
<1>5. CASE i.op = "OVER"
  <2>1. Stack(m, i) = Rearrange(m, 2, <<1, 0, 1>>)
    BY <1>5 DEF Stack
  <2>2. <<1, 0, 1>> \in Seq(0 .. 2 - 1)
    OBVIOUS
  <2> QED BY <2>1, <2>2, RearrangeKept
<1>6. CASE i.op = "ROT"
  <2>1. CASE Len(m.stack) < 3
    <3>1. Stack(m, i) = PopAll(Pay(m, 1), <<"any", "any", "any">>)
      BY <1>6, <2>1 DEF Stack
    <3>2. Len(<<"any", "any", "any">>) \in 0 .. 3
      OBVIOUS
    <3> QED BY <3>1, <3>2, PayThenPop DEF Took
  <2>2. CASE ~(Len(m.stack) < 3)
    <3>1. Stack(m, i) = Rearrange(m, 3, <<1, 0, 2>>)
      BY <1>6, <2>2 DEF Stack
    <3>2. <<1, 0, 2>> \in Seq(0 .. 3 - 1)
      OBVIOUS
    <3> QED BY <3>1, <3>2, RearrangeKept
  <2> QED BY <2>1, <2>2
<1>7. CASE i.op \in {"PICK", "ROLL"}
  <2> DEFINE paid == Needs(Pay(m, 1), i.a + 1)
  <2>0. i.a \in Nat /\ i.a + 1 \in Nat
    BY <1>7 DEF Decoded
  <2>1. /\ Kept(m, paid) /\ Machine(paid)
        /\ paid.raised = "none" => paid.stack = m.stack /\ i.a + 1 <= Len(m.stack)
    BY <2>0, PayThenNeed
  <2>2. ASSUME paid.raised # "none" PROVE Stack(m, i) = paid
    BY <1>7, <2>2 DEF Stack
  <2>3. ASSUME paid.raised = "none", i.op = "PICK" PROVE Stack(m, i) = Push(paid, Nth(m, i.a))
    BY <2>3 DEF Stack
  <2>4. ASSUME paid.raised = "none", i.op = "ROLL"
        PROVE Stack(m, i) = [paid EXCEPT !.stack = Append(RemoveAt(@, Len(@) - i.a), Nth(m, i.a))]
    BY <2>4 DEF Stack
  <2> HIDE DEF paid
  <2>5. CASE paid.raised # "none"
    BY <2>1, <2>2, <2>5
  <2>6. CASE paid.raised = "none"
    <3>1. paid.stack = m.stack /\ i.a < Len(m.stack) /\ Nth(m, i.a) \in Values
      BY <1>0, <2>0, <2>1, <2>6, NthIsValue
    <3>2. CASE i.op = "PICK"
      BY <2>1, <2>3, <2>6, <3>1, <3>2, PushKept, KeptChain
    <3>3. CASE i.op = "ROLL"
      <4> DEFINE k == Len(m.stack) - i.a
                 r == RemoveAt(m.stack, k)
                 t == Append(r, Nth(m, i.a))
      <4>1. k \in 1 .. Len(m.stack)
        BY <1>0, <2>0, <3>1
      <4>2. r \in Seq(Values) /\ Len(r) = Len(m.stack) - 1
        <5> HIDE DEF k
        <5> DEFINE below == SubSeq(m.stack, 1, k - 1)
                   above == SubSeq(m.stack, k + 1, Len(m.stack))
        <5>1. below \in Seq(Values) /\ Len(below) = k - 1
          BY <1>0, <4>1
        <5>2. above \in Seq(Values) /\ Len(above) = Len(m.stack) - k
          BY <1>0, <4>1
        <5>3. r = below \o above
          BY DEF RemoveAt
        <5> HIDE DEF below, above, r
        <5>4. r \in Seq(Values) /\ Len(r) = Len(below) + Len(above)
          BY <5>1, <5>2, <5>3, Joined
        <5> QED BY <1>0, <4>1, <5>1, <5>2, <5>4
      <4> HIDE DEF k, r
      <4>3. t \in Seq(Values) /\ Len(t) <= MaxStackDepth
        BY <1>0, <3>1, <4>2, InterpreterAssumption
      <4>4. Stack(m, i) = [paid EXCEPT !.stack = t]
        BY <2>4, <2>6, <3>1, <3>3 DEF k, r
      <4> HIDE DEF t
      <4>5. Kept(paid, [paid EXCEPT !.stack = t])
        BY <2>1, <4>3, SetStack
      <4> QED BY <2>1, <4>4, <4>5, KeptChain
    <3> QED BY <1>7, <3>2, <3>3
  <2> QED BY <2>5, <2>6
<1>8. CASE i.op = "PUSHINT"
  <2>1. Stack(m, i) = Push(Pay(m, 1), Num(i.a))
    BY <1>8 DEF Stack
  <2>2. i.a \in MinInt .. Wide
    BY <1>8 DEF Decoded
  <2>3. i.a \in Int
    BY <2>2, IntegersInRange
  <2>4. Num(i.a) \in Values
    BY <2>2, <2>3, NumIsValue
  <2>5. Kept(m, Pay(m, 1)) /\ Machine(Pay(m, 1))
    BY PayIsMachine
  <2> QED BY <2>1, <2>4, <2>5, PushKept, KeptChain
<1>9. CASE i.op = "PUSHBYTES"
  <2> DEFINE l == Pay(m, 1 + i.a)
  <2>1. Stack(m, i) = Push(l, Bytes(i.a))
    BY <1>9 DEF Stack
  <2>2. i.a \in Nat /\ 1 + i.a \in Nat
    BY <1>9 DEF Decoded
  <2>3. Paid(m, l, 1 + i.a)
    BY <2>2, PayKept
  <2> HIDE DEF l
  <2>4. Kept(m, l) /\ Machine(l)
    BY <2>3 DEF Paid, Kept
  <2>5. l.raised = "none" => i.a \in 0 .. program.limit
    BY <2>2, <2>3, FieldsOf, ProgramFacts DEF Paid
  <2>6. l.raised = "none" => Bytes(i.a) \in Values
    BY <2>5, BytesIsValue
  <2> QED BY <2>1, <2>4, <2>6, PushKept, KeptChain
<1>10. CASE i.op = "NIP"
  <2>1. Stack(m, i) = Rearrange(m, 2, <<0>>)
    BY <1>10 DEF Stack
  <2>2. <<0>> \in Seq(0 .. 2 - 1)
    OBVIOUS
  <2> QED BY <2>1, <2>2, RearrangeKept
<1>11. CASE i.op = "TUCK"
  <2>1. Stack(m, i) = Rearrange(m, 2, <<0, 1, 0>>)
    BY <1>11 DEF Stack
  <2>2. <<0, 1, 0>> \in Seq(0 .. 2 - 1)
    OBVIOUS
  <2> QED BY <2>1, <2>2, RearrangeKept
<1>12. CASE i.op = "BLKSWAP"
  <2>0. i.a \in Nat /\ i.b \in Nat
    BY <1>12 DEF Decoded
  <2>1. CASE i.a = 0 \/ i.b = 0
    <3>1. Stack(m, i) = Raise(Pay(m, 1), "MalformedCell")
      BY <1>12, <2>1 DEF Stack
    <3>2. Kept(m, Pay(m, 1)) /\ Machine(Pay(m, 1))
      BY PayIsMachine
    <3>3. Kept(Pay(m, 1), Raise(Pay(m, 1), "MalformedCell"))
      BY <3>2, RaiseKept DEF Raises
    <3> QED BY <3>1, <3>2, <3>3, KeptChain
  <2>2. CASE ~(i.a = 0 \/ i.b = 0)
    <3> DEFINE n == i.a + i.b
               index(k) == IF k <= i.b THEN i.b - k ELSE i.a + 2 * i.b - k
               indices == [k \in 1 .. n |-> index(k)]
    <3>1. Stack(m, i) = Rearrange(m, n, indices)
      BY <1>12, <2>2 DEF Stack
    <3>2. n \in Nat
      BY <2>0
    <3>3. \A k \in 1 .. n : index(k) \in 0 .. n - 1
      BY <2>0
    <3>4. indices \in [1 .. n -> 0 .. n - 1]
      <4> HIDE DEF n, index
      <4> QED BY <3>3
    <3> HIDE DEF n, indices
    <3>5. indices \in Seq(0 .. n - 1)
      BY <3>2, <3>4
    <3> QED BY <3>1, <3>2, <3>5, RearrangeKept
  <2> QED BY <2>1, <2>2
<1> QED BY <1>1, <1>2, <1>3, <1>4, <1>5, <1>6, <1>7, <1>8, <1>9, <1>10, <1>11, <1>12 DEF StackOps

-----------------------------------------------------------------------------
(* Instructions on typed operands. *)

TypedOps ==
    {"ADD", "SUB", "NEG", "MUL", "DIVMOD", "CMP", "ISZERO", "CONV", "DIV", "SHL", "SHR", "BYTELEN", "NEWC",
     "SUBBYTES", "ENDC", "STBITS", "CTOS", "STREF", "LDBITS", "LDREF", "SINFO", "ISEXOTIC", "HASHBYTES",
     "HASHCELL", "CHKSIGNU"}

LEMMA TypedDomain == DOMAIN Typed = TypedOps
  BY DEF Typed, TypedOps

LEMMA TypedFacts ==
    ASSUME NEW op \in TypedOps
    PROVE  Typed[op].cost \in Nat /\ Len(Typed[op].takes) \in 0 .. 3
<1>1. /\ Len(<<>>) = 0
      /\ \A a : Len(<<a>>) = 1
      /\ \A a, b : Len(<<a, b>>) = 2
      /\ \A a, b, c : Len(<<a, b, c>>) = 3
  OBVIOUS
<1> QED BY <1>1 DEF Typed, TypedOps, Operation, Two

LEMMA OperandKinds ==
    /\ Typed["CONV"].takes = <<"Integer">> /\ Typed["BYTELEN"].takes = <<"Bytes">>
    /\ Typed["SUBBYTES"].takes = <<"Integer", "Integer", "Bytes">>
  BY DEF Typed, Operation

GoodOutcome(o) == o.raise \in Raises /\ (o.raise = "none" => o.push \in Seq(Values))

LEMMA GoodGives ==
    ASSUME NEW s \in Seq(Values)
    PROVE  GoodOutcome(Gives(s))
  BY DEF GoodOutcome, Gives, Raises

LEMMA GoodFails ==
    ASSUME NEW k \in Raises \ {"none"}
    PROVE  GoodOutcome(Fails(k))
  BY DEF GoodOutcome, Fails

LEMMA FinishKept ==
    ASSUME NEW m, Machine(m), NEW o, GoodOutcome(o)
    PROVE  Kept(m, Finish(m, o))
<1>1. CASE o.raise # "none"
  BY <1>1, RaiseKept DEF Finish, GoodOutcome
<1>2. CASE o.raise = "none"
  <2>1. Finish(m, o) = PushAll(m, o.push)
    BY <1>2 DEF Finish
  <2> QED BY <1>2, <2>1, PushAllKept DEF GoodOutcome
<1> QED BY <1>1, <1>2

LEMMA GivesNum ==
    ASSUME program \in Programs, NEW n \in Int, n \in MinInt .. Wide \cup 0 .. program.limit
    PROVE  GoodOutcome(Gives(<<Num(n)>>))
<1>1. <<Num(n)>> \in Seq(Values)
  BY NumIsValue
<1> QED BY <1>1, GoodGives

LEMMA CheckedGood ==
    ASSUME program \in Programs, NEW n \in Int, NEW o \in Checked(n)
    PROVE  GoodOutcome(o)
<1>1. CASE Representable(n)
  <2>1. n \in MinInt .. Wide
    BY <1>1, IntegersInRange DEF Representable
  <2>2. o = Gives(<<Num(n)>>)
    BY <1>1 DEF Checked
  <2> QED BY <2>1, <2>2, GivesNum
<1>2. CASE ~Representable(n)
  <2>1. o = Fails("IntegerOverflow")
    BY <1>2 DEF Checked
  <2> QED BY <2>1, GoodFails DEF Raises
<1> QED BY <1>1, <1>2

LEMMA FitGood ==
    ASSUME program \in Programs, NEW n \in Int, NEW width \in 1 .. IntBits, NEW flavour \in 0 .. 2,
           NEW o \in Fit(n, width, flavour)
    PROVE  GoodOutcome(o)
<1> DEFINE limit == ToI128(TwoTo(width - 1))
           wrapped == n % (2 * limit)
<1>1. limit \in Int
  <2>1. width - 1 \in Nat /\ width - 1 \in 0 .. width - 1
    BY InterpreterAssumption
  <2>2. TwoTo(width - 1) \in Int
    BY <2>1, TwoToGrows
  <2> QED BY <2>2, ToI128InRange, IntegersInRange
<1>2. \/ o = Fails("IntegerOverflow") \/ o = Fails("panic")
      \/ o = Gives(<<Num(n)>>) /\ Representable(n)
      \/ o = Gives(<<Num(wrapped)>>) /\ Representable(2 * limit)
  BY DEF Fit
<1>3. ASSUME Representable(2 * limit) PROVE wrapped \in MinInt .. Wide
  <2>1. TwoTo(width - 1) \in Nat /\ 1 <= TwoTo(width - 1) /\ TwoTo(width - 1) <= -MinInt
    <3>1. IntBits - 1 \in Nat /\ width - 1 \in 0 .. IntBits - 1
      BY InterpreterAssumption
    <3> QED BY <3>1, TwoToGrows DEF MinInt
  <2> DEFINE t == TwoTo(width - 1)
  <2>2. t \in Int /\ 1 <= t /\ t <= -MinInt
    BY <2>1
  <2> HIDE DEF t
  <2>3. limit = ToI128(t)
    BY DEF t
  <2> HIDE DEF limit
  <2>4. limit = ((t - MinInt) % (MaxInt - MinInt + 1)) + MinInt
    BY <2>3 DEF ToI128
  <2> DEFINE x == t - MinInt
             w == MaxInt - MinInt + 1
  <2>5. x \in Int /\ w \in Int /\ w > 0 /\ w = -2 * MinInt /\ 0 <= x /\ x <= w /\ -MinInt < x
    BY <2>2, IntegersInRange
  <2>6. limit = (x % w) + MinInt
    BY <2>4
  <2>7. x < w => x % w = x
    <3> HIDE DEF x, w
    <3> QED BY <2>5
  <2>8. x = w => x % w = 0
    <3> HIDE DEF x, w
    <3> QED BY <2>5
  <2>9. CASE x = w
    <3>1. limit = MinInt
      BY <2>6, <2>8, <2>9, IntegersInRange
    <3> QED BY <1>3, <3>1, IntegersInRange DEF Representable
  <2>10. CASE x < w
    <3>1. limit = t
      BY <2>2, <2>6, <2>7, <2>10, IntegersInRange
    <3>2. 2 * limit \in Nat /\ 2 * limit > 0 /\ 2 * limit <= MaxInt
      BY <1>3, <2>2, <3>1, IntegersInRange DEF Representable
    <3> DEFINE d == 2 * limit
    <3>3. d \in Nat /\ d > 0 /\ d <= MaxInt
      BY <3>2
    <3> HIDE DEF d
    <3>4. n % d \in 0 .. d - 1
      BY <3>3
    <3>5. wrapped = n % d
      BY DEF d
    <3> HIDE DEF wrapped
    <3> QED BY <3>3, <3>4, <3>5, IntegersInRange
  <2> QED BY <2>5, <2>9, <2>10
<1> HIDE DEF wrapped, limit
<1>4. Representable(n) => n \in MinInt .. Wide
  BY IntegersInRange DEF Representable
<1>5. CASE o = Fails("IntegerOverflow") \/ o = Fails("panic")
  BY <1>5, GoodFails DEF Raises
<1>6. CASE o = Gives(<<Num(n)>>) /\ Representable(n)
  BY <1>4, <1>6, GivesNum
<1>7. CASE o = Gives(<<Num(wrapped)>>) /\ Representable(2 * limit)
  <2>1. wrapped \in MinInt .. Wide /\ wrapped \in Int
    BY <1>3, <1>7, IntegersInRange
  <2> QED BY <1>7, <2>1, GivesNum
<1> QED BY <1>2, <1>5, <1>6, <1>7

(* Division leaves a remainder smaller than the divisor. *)
LEMMA Remainder ==
    ASSUME NEW x \in Nat, NEW y \in Nat \ {0}
    PROVE  x \div y \in Nat /\ 0 <= x - y * (x \div y) /\ x - y * (x \div y) < y
  OBVIOUS

LEMMA QuotientFacts ==
    ASSUME NEW a \in MinInt .. MaxInt, NEW b \in MinInt .. MaxInt \ {0}
    PROVE  /\ Quotient(a, b) \in Int
           /\ a - b * Quotient(a, b) \in MinInt .. MaxInt
<1> DEFINE x == IF a < 0 THEN -a ELSE a
           y == IF b < 0 THEN -b ELSE b
           q == x \div y
           r == x - y * q
<1>1. a \in Int /\ b \in Int /\ x \in Nat /\ y \in Nat \ {0} /\ y <= -MinInt
  BY IntegersInRange
<1>2. q \in Nat /\ 0 <= r /\ r < y
  <2> HIDE DEF x, y
  <2> QED BY <1>1, Remainder
<1>3. Quotient(a, b) = IF (a < 0) = (b < 0) THEN q ELSE -q
  BY DEF Quotient
<1> HIDE DEF q
<1>4. Quotient(a, b) \in Int
  BY <1>2, <1>3
<1>5. a - b * Quotient(a, b) = IF a < 0 THEN -r ELSE r
  <2>1. CASE a < 0 /\ b < 0
    <3>1. Quotient(a, b) = q /\ x = -a /\ y = -b
      BY <1>3, <2>1
    <3> QED BY <1>1, <1>2, <2>1, <3>1
  <2>2. CASE a < 0 /\ ~(b < 0)
    <3>1. Quotient(a, b) = -q /\ x = -a /\ y = b
      BY <1>3, <2>2
    <3> QED BY <1>1, <1>2, <2>2, <3>1
  <2>3. CASE ~(a < 0) /\ b < 0
    <3>1. Quotient(a, b) = -q /\ x = a /\ y = -b
      BY <1>3, <2>3
    <3> QED BY <1>1, <1>2, <2>3, <3>1
  <2>4. CASE ~(a < 0) /\ ~(b < 0)
    <3>1. Quotient(a, b) = q /\ x = a /\ y = b
      BY <1>3, <2>4
    <3> QED BY <1>1, <1>2, <2>4, <3>1
  <2> QED BY <2>1, <2>2, <2>3, <2>4
<1>6. r \in Int
  BY <1>1, <1>2
<1> HIDE DEF r, y, x
<1> QED BY <1>1, <1>2, <1>4, <1>5, <1>6, IntegersInRange

LEMMA ArithmeticGood ==
    ASSUME program \in Programs, NEW i, Decoded(i), i.op \in ArithmeticOps,
           NEW a \in MinInt .. MaxInt, NEW b \in MinInt .. MaxInt, NEW o \in Arithmetic(i, a, b)
    PROVE  GoodOutcome(o)
<1>0. a \in Int /\ b \in Int
  BY IntegersInRange
<1>1. CASE i.op \in {"ADD", "SUB", "NEG", "MUL"}
  <2>1. \E n \in {a + b, a - b, -b, a * b} : o \in Checked(n)
    BY <1>1 DEF Arithmetic
  <2>2. \A n \in {a + b, a - b, -b, a * b} : n \in Int
    BY <1>0
  <2> QED BY <2>1, <2>2, CheckedGood
<1>2. CASE i.op = "CMP"
  <2> DEFINE c == IF a < b THEN -1 ELSE IF a > b THEN 1 ELSE 0
  <2>1. o = Gives(<<Num(c)>>)
    BY <1>2 DEF Arithmetic
  <2>2. c \in Int /\ c \in MinInt .. Wide
    BY IntegersInRange
  <2> HIDE DEF c
  <2> QED BY <2>1, <2>2, GivesNum
<1>3. CASE i.op \in {"DIV", "DIVMOD"} /\ b = 0
  <2>1. o = Fails("IntegerOverflow")
    BY <1>3 DEF Arithmetic
  <2> QED BY <2>1, GoodFails DEF Raises
<1>4. CASE i.op = "DIVMOD" /\ b # 0
  <2> DEFINE q == Quotient(a, b)
             r == a - b * q
  <2>1. q \in Int /\ r \in MinInt .. MaxInt
    BY <1>4, QuotientFacts
  <2>2. o = IF Representable(q) THEN Gives(<<Num(q), Num(r)>>) ELSE Fails("panic")
    BY <1>4 DEF Arithmetic
  <2> HIDE DEF q, r
  <2>3. CASE Representable(q)
    <3>1. q \in MinInt .. Wide /\ r \in MinInt .. Wide /\ r \in Int
      BY <2>1, <2>3, IntegersInRange DEF Representable
    <3>2. Num(q) \in Values /\ Num(r) \in Values
      BY <2>1, <3>1, NumIsValue
    <3>3. <<Num(q), Num(r)>> \in Seq(Values)
      BY <3>2
    <3> QED BY <2>2, <2>3, <3>3, GoodGives
  <2>4. CASE ~Representable(q)
    BY <2>2, <2>4, GoodFails DEF Raises
  <2> QED BY <2>3, <2>4
<1>5. CASE i.op = "DIV" /\ b # 0
  <2>1. o \in Fit(Quotient(a, b), i.a, i.b)
    BY <1>5 DEF Arithmetic
  <2>2. Quotient(a, b) \in Int /\ i.a \in 1 .. IntBits /\ i.b \in 0 .. 2
    BY <1>5, QuotientFacts DEF Decoded
  <2> QED BY <2>1, <2>2, FitGood
<1>6. CASE i.op \in {"SHL", "SHR"}
  <2>0. i.a \in 1 .. IntBits /\ i.b \in 0 .. 2
    BY <1>6 DEF Decoded
  <2>1. CASE b \notin 0 .. i.a - 1
    <3>1. o = Fails("IntegerOverflow")
      BY <1>6, <2>1 DEF Arithmetic
    <3> QED BY <3>1, GoodFails DEF Raises
  <2>2. CASE b \in 0 .. i.a - 1
    <3> DEFINE n == IF i.op = "SHL" THEN ToI128(a * TwoTo(b)) ELSE a \div TwoTo(b)
    <3>1. o \in Fit(n, i.a, i.b)
      BY <1>6, <2>2 DEF Arithmetic
    <3>2. b \in Nat /\ b \in 0 .. b
      BY <2>0, <2>2, InterpreterAssumption
    <3>3. TwoTo(b) \in Nat /\ 1 <= TwoTo(b)
      BY <3>2, TwoToGrows
    <3>4. a * TwoTo(b) \in Int /\ a \div TwoTo(b) \in Int
      BY <1>0, <3>3
    <3>5. ToI128(a * TwoTo(b)) \in Int
      BY <3>4, ToI128InRange, IntegersInRange
    <3>6. n \in Int
      BY <3>4, <3>5
    <3> HIDE DEF n
    <3> QED BY <2>0, <3>1, <3>6, FitGood
  <2> QED BY <2>1, <2>2
<1> QED BY <1>1, <1>2, <1>3, <1>4, <1>5, <1>6 DEF ArithmeticOps

LEMMA ResultsGood ==
    ASSUME program \in Programs, NEW op \in TypedOps \ ArithmeticOps,
           NEW top \in Int, NEW second \in Int, NEW third \in Int,
           op \in {"CONV", "BYTELEN"} => top \in MinInt .. Wide \cup 0 .. program.limit,
           op = "SUBBYTES" => third \in 0 .. program.limit,
           NEW o \in Results(op, top, second, third)
    PROVE  GoodOutcome(o)
<1>1. CASE op = "ISZERO"
  <2> DEFINE c == IF top = 0 THEN 1 ELSE 0
  <2>1. o = Gives(<<Num(c)>>)
    BY <1>1 DEF Results, Bool
  <2>2. c \in Int /\ c \in MinInt .. Wide
    BY IntegersInRange
  <2> HIDE DEF c
  <2> QED BY <2>1, <2>2, GivesNum
<1>2. CASE op \in {"CONV", "BYTELEN"}
  <2>1. o = Gives(<<Num(top)>>)
    BY <1>2 DEF Results
  <2> QED BY <1>2, <2>1, GivesNum
<1>3. CASE op = "SUBBYTES"
  <2> DEFINE length == ToI128(top)
             offset == ToI128(second)
  <2>1. length \in Int /\ offset \in Int
    BY ToI128InRange, IntegersInRange
  <2>2. o \in SubBytes(length, offset, third)
    BY <1>3 DEF Results
  <2> HIDE DEF length, offset
  <2>3. CASE length < 0 \/ offset < 0
    <3>1. o \in {Fails("MalformedCell"), Fails("panic")}
      BY <2>2, <2>3 DEF SubBytes
    <3> QED BY <3>1, GoodFails DEF Raises
  <2>4. CASE ~(length < 0 \/ offset < 0) /\ offset + length > third
    <3>1. o = Fails("MalformedCell")
      BY <2>2, <2>4 DEF SubBytes
    <3> QED BY <3>1, GoodFails DEF Raises
  <2>5. CASE ~(length < 0 \/ offset < 0) /\ ~(offset + length > third)
    <3>1. o = Gives(<<Bytes(length)>>)
      BY <2>2, <2>5 DEF SubBytes
    <3>2. length \in 0 .. program.limit
      BY <1>3, <2>1, <2>5, ProgramFacts
    <3>3. Bytes(length) \in Values
      BY <3>2, BytesIsValue
    <3>4. <<Bytes(length)>> \in Seq(Values)
      BY <3>3
    <3> QED BY <3>1, <3>4, GoodGives
  <2> QED BY <2>3, <2>4, <2>5
<1>4. CASE op \in {"NEWC", "ENDC", "STBITS", "STREF", "CTOS", "LDREF"}
  <2>1. o \in {Gives(<<Thing("Builder")>>), Gives(<<Thing("Cell")>>), Gives(<<Thing("Slice")>>),
               Gives(<<Thing("Slice"), Thing("Cell")>>), Fails("MalformedCell"), Fails("AbsentNode")}
    BY <1>4 DEF Results
  <2>2. Thing("Builder") \in Values /\ Thing("Cell") \in Values /\ Thing("Slice") \in Values
    BY ThingIsValue
  <2>3. /\ <<Thing("Builder")>> \in Seq(Values) /\ <<Thing("Cell")>> \in Seq(Values)
        /\ <<Thing("Slice")>> \in Seq(Values) /\ <<Thing("Slice"), Thing("Cell")>> \in Seq(Values)
    BY <2>2
  <2>4. "MalformedCell" \in Raises \ {"none"} /\ "AbsentNode" \in Raises \ {"none"}
    BY DEF Raises
  <2> QED BY <2>1, <2>3, <2>4, GoodGives, GoodFails
<1>5. CASE op = "LDBITS"
  <2>1. o = Fails("MalformedCell") \/ \E n \in {0, Wide} : o = Gives(<<Thing("Slice"), Num(n)>>)
    BY <1>5 DEF Results
  <2>2. \A n \in {0, Wide} : n \in Int /\ n \in MinInt .. Wide
    BY IntegersInRange
  <2>3. \A n \in {0, Wide} : Num(n) \in Values
    BY <2>2, NumIsValue
  <2>4. Thing("Slice") \in Values
    BY ThingIsValue
  <2>5. \A n \in {0, Wide} : <<Thing("Slice"), Num(n)>> \in Seq(Values)
    BY <2>3, <2>4
  <2>6. "MalformedCell" \in Raises \ {"none"}
    BY DEF Raises
  <2> QED BY <2>1, <2>5, <2>6, GoodGives, GoodFails
<1>6. CASE op \in {"ISEXOTIC", "SINFO", "CHKSIGNU"}
  <2>1. o = Fails("TypeMismatch") \/ \E b \in BOOLEAN : o = Gives(<<Bool(b)>>)
    BY <1>6 DEF Results
  <2>2. \A b \in BOOLEAN : <<Bool(b)>> \in Seq(Values)
    BY BoolIsValue
  <2>3. "TypeMismatch" \in Raises \ {"none"}
    BY DEF Raises
  <2> QED BY <2>1, <2>2, <2>3, GoodGives, GoodFails
<1>7. CASE op \in {"HASHBYTES", "HASHCELL"}
  <2>1. o = Gives(<<Num(Wide)>>)
    BY <1>7 DEF Results
  <2>2. Wide \in Int /\ Wide \in MinInt .. Wide
    BY IntegersInRange
  <2> QED BY <2>1, <2>2, GivesNum
<1> QED BY <1>1, <1>2, <1>3, <1>4, <1>5, <1>6, <1>7 DEF TypedOps, ArithmeticOps

(* The value of an operand, or 0 when there is none. *)
LEMMA OperandIsInt ==
    ASSUME NEW m, Machine(m), NEW n \in Nat
    PROVE  (IF n < Len(m.stack) THEN Nth(m, n).val ELSE 0) \in Int
<1>1. CASE n < Len(m.stack)
  <2>1. Nth(m, n) \in Values
    BY <1>1, NthIsValue
  <2>2. Nth(m, n).val \in Int
    BY <2>1 DEF Values
  <2> QED BY <1>1, <2>2
<1>2. CASE ~(n < Len(m.stack))
  BY <1>2
<1> QED BY <1>1, <1>2

LEMMA OnTypedKept ==
    ASSUME program \in Programs, NEW m, Machine(m), NEW i, Decoded(i), i.op \in DOMAIN Typed,
           NEW n \in OnTyped(m, i)
    PROVE  Kept(m, n)
<1> DEFINE kinds == Typed[i.op].takes
           taken == PopAll(Pay(m, Typed[i.op].cost), kinds)
           operand(k) == IF k < Len(m.stack) THEN Nth(m, k).val ELSE 0
           outcomes == IF i.op \in ArithmeticOps
                       THEN Arithmetic(i, ToI128(operand(1)), ToI128(operand(0)))
                       ELSE Results(i.op, operand(0), operand(1), operand(2))
<1>0. i.op \in TypedOps /\ m.stack \in Seq(Values) /\ Len(m.stack) \in Nat
  BY TypedDomain, FieldsOf
<1>1. Typed[i.op].cost \in Nat /\ Len(kinds) \in 0 .. 3
  BY <1>0, TypedFacts
<1>2. Took(m, taken, kinds)
  BY <1>1, PayThenPop
<1>3. operand(0) \in Int /\ operand(1) \in Int /\ operand(2) \in Int
  BY OperandIsInt
<1>4. n \in IF taken.raised # "none" THEN {taken} ELSE {Finish(taken, o) : o \in outcomes}
  BY DEF OnTyped
<1> HIDE DEF operand, taken
<1>5. CASE taken.raised # "none"
  BY <1>2, <1>4, <1>5 DEF Took
<1>6. CASE taken.raised = "none"
  <2>1. PICK o \in outcomes : n = Finish(taken, o)
    BY <1>4, <1>6
  <2>2. Len(kinds) <= Len(m.stack) /\ \A k \in 1 .. Len(kinds) : kinds[k] \in {"any", Nth(m, k - 1).kind}
    BY <1>2, <1>6 DEF Took
  <2>3. GoodOutcome(o)
    <3>1. CASE i.op \in ArithmeticOps
      <4>1. ToI128(operand(1)) \in MinInt .. MaxInt /\ ToI128(operand(0)) \in MinInt .. MaxInt
        BY <1>3, ToI128InRange
      <4>2. o \in Arithmetic(i, ToI128(operand(1)), ToI128(operand(0)))
        BY <3>1
      <4> QED BY <3>1, <4>1, <4>2, ArithmeticGood
    <3>2. CASE i.op \notin ArithmeticOps
      <4>1. o \in Results(i.op, operand(0), operand(1), operand(2))
        BY <3>2
      <4>2. i.op \in {"CONV", "BYTELEN"} => operand(0) \in MinInt .. Wide \cup 0 .. program.limit
        <5> SUFFICES ASSUME i.op \in {"CONV", "BYTELEN"}
                     PROVE  operand(0) \in MinInt .. Wide \cup 0 .. program.limit
          OBVIOUS
        <5>1. kinds \in {<<"Integer">>, <<"Bytes">>}
          BY OperandKinds
        <5>2. Len(kinds) = 1 /\ kinds[1] \in {"Integer", "Bytes"}
          BY <5>1
        <5>3. 1 \in 1 .. Len(kinds) /\ 0 < Len(m.stack) /\ 1 - 1 = 0
          BY <1>0, <2>2, <5>2
        <5>4. Nth(m, 0).kind \in {"Integer", "Bytes"}
          BY <2>2, <5>2, <5>3
        <5>5. Nth(m, 0) \in Values
          BY <5>3, NthIsValue
        <5>6. operand(0) = Nth(m, 0).val
          BY <5>3 DEF operand
        <5> QED BY <5>4, <5>5, <5>6 DEF Values, Fits
      <4>3. i.op = "SUBBYTES" => operand(2) \in 0 .. program.limit
        <5> SUFFICES ASSUME i.op = "SUBBYTES" PROVE operand(2) \in 0 .. program.limit
          OBVIOUS
        <5>1. kinds = <<"Integer", "Integer", "Bytes">>
          BY OperandKinds
        <5>2. Len(kinds) = 3 /\ kinds[3] = "Bytes"
          BY <5>1
        <5>3. 3 \in 1 .. Len(kinds) /\ 2 < Len(m.stack) /\ 3 - 1 = 2
          BY <1>0, <2>2, <5>2
        <5>4. Nth(m, 2).kind = "Bytes"
          BY <2>2, <5>2, <5>3
        <5>5. Nth(m, 2) \in Values
          BY <5>3, NthIsValue
        <5>6. operand(2) = Nth(m, 2).val
          BY <5>3 DEF operand
        <5> QED BY <5>4, <5>5, <5>6 DEF Values, Fits
      <4> QED BY <1>0, <1>3, <3>2, <4>1, <4>2, <4>3, ResultsGood
    <3> QED BY <3>1, <3>2
  <2>4. Machine(taken) /\ Kept(m, taken)
    BY <1>2 DEF Took, Kept
  <2> QED BY <2>1, <2>3, <2>4, FinishKept, KeptChain
<1> QED BY <1>5, <1>6

LEMMA OnPayLateKept ==
    ASSUME program \in Programs, NEW m, Machine(m), NEW op \in PayLateOps, NEW n \in OnPayLate(m, op)
    PROVE  Kept(m, n)
<1> DEFINE words(k) == IF k < Len(m.stack) THEN Nth(m, k).val ELSE 0
           least == IF words(0) < words(1) THEN words(0) ELSE words(1)
           two == <<"Bytes", "Bytes">>
           taken == PopAll(m, two)
<1>0. m.stack \in Seq(Values) /\ Len(m.stack) \in Nat
  BY FieldsOf
<1>1. Len(two) = 2 /\ two[1] = "Bytes" /\ two[2] = "Bytes"
  OBVIOUS
<1>2. Took(m, taken, two)
  <2>1. Len(two) \in 0 .. 3
    BY <1>1
  <2> QED BY <2>1, PopAllKept
<1>3. ASSUME NEW k \in Nat, k < Len(m.stack), Nth(m, k).kind = "Bytes" PROVE words(k) \in 0 .. program.limit
  <2>1. Nth(m, k) \in Values
    BY <1>3, NthIsValue
  <2> QED BY <1>3, <2>1 DEF Values, Fits
<1>4. op = "CONCAT" => n = Push(Pay(taken, 4 + words(0) + words(1)), Bytes(words(0) + words(1)))
  BY DEF OnPayLate
<1>5. op = "BYTEEQ" => \E b \in {FALSE, words(0) = words(1)} : n = Push(Pay(taken, 1 + least), Bool(b))
  BY DEF OnPayLate
<1>6. op = "STBYTES" =>
          n \in {Push(Pop(Pay(Pop(m, "Bytes"), 10 + words(0)), "Builder"), Thing("Builder")),
                Raise(Pop(Pay(Pop(m, "Bytes"), 10 + words(0)), "Builder"), "MalformedCell")}
  BY DEF OnPayLate
<1> HIDE DEF words, taken, two
<1>7. Kept(m, taken) /\ Machine(taken)
  BY <1>2 DEF Took, Kept
<1>8. ASSUME taken.raised = "none"
      PROVE  words(0) \in 0 .. program.limit /\ words(1) \in 0 .. program.limit
  <2>1. 2 <= Len(m.stack) /\ 1 \in 1 .. Len(two) /\ 2 \in 1 .. Len(two) /\ 1 - 1 = 0 /\ 2 - 1 = 1
    BY <1>1, <1>2, <1>8 DEF Took
  <2>2. Nth(m, 0).kind = "Bytes" /\ Nth(m, 1).kind = "Bytes"
    BY <1>1, <1>2, <1>8, <2>1 DEF Took
  <2>3. 0 < Len(m.stack) /\ 1 < Len(m.stack)
    BY <1>0, <2>1
  <2> QED BY <1>3, <2>2, <2>3
<1>9. CASE op = "CONCAT"
  <2> DEFINE sum == words(0) + words(1)
             l == Pay(taken, 4 + words(0) + words(1))
  <2>1. taken.raised = "none" => sum \in Nat /\ 4 + words(0) + words(1) \in Nat
    BY <1>8, ProgramFacts
  <2>2. Paid(taken, l, 4 + words(0) + words(1))
    BY <1>7, <2>1, PayKept
  <2>3. n = Push(l, Bytes(sum))
    BY <1>4, <1>9
  <2> HIDE DEF l
  <2>4. Kept(m, l) /\ Machine(l)
    BY <1>7, <2>2, KeptChain DEF Paid, Kept
  <2>5. ASSUME l.raised = "none" PROVE sum \in 0 .. program.limit
    <3>1. taken.raised = "none" /\ taken.gas + (4 + words(0) + words(1)) <= program.limit
      BY <2>2, <2>5 DEF Paid
    <3>2. taken.gas \in Nat /\ program.limit \in Nat
      BY <1>7, FieldsOf, ProgramFacts
    <3> QED BY <1>8, <3>1, <3>2
  <2> HIDE DEF sum
  <2>6. l.raised = "none" => Bytes(sum) \in Values
    BY <2>5, BytesIsValue
  <2> QED BY <2>3, <2>4, <2>6, PushKept, KeptChain
<1>10. CASE op = "BYTEEQ"
  <2> DEFINE l == Pay(taken, 1 + least)
  <2>1. taken.raised = "none" => 1 + least \in Nat
    BY <1>8, ProgramFacts
  <2>2. Paid(taken, l, 1 + least)
    BY <1>7, <2>1, PayKept
  <2>3. \E b \in BOOLEAN : n = Push(l, Bool(b))
    BY <1>5, <1>10
  <2> HIDE DEF l
  <2>4. Kept(m, l) /\ Machine(l)
    BY <1>7, <2>2, KeptChain DEF Paid, Kept
  <2> QED BY <2>3, <2>4, BoolIsValue, PushKept, KeptChain
<1>11. CASE op = "STBYTES"
  <2> DEFINE k == Pop(m, "Bytes")
             l == Pay(k, 10 + words(0))
             t == Pop(l, "Builder")
  <2>1. n \in {Push(t, Thing("Builder")), Raise(t, "MalformedCell")}
    BY <1>6, <1>11
  <2>2. Popped(m, k, "Bytes")
    BY PopKept
  <2> HIDE DEF k
  <2>3. Kept(m, k) /\ Machine(k)
    BY <2>2 DEF Popped, Kept
  <2>4. k.raised = "none" => 10 + words(0) \in Nat
    <3> SUFFICES ASSUME k.raised = "none" PROVE 10 + words(0) \in Nat
      OBVIOUS
    <3>1. m.stack # <<>> /\ m.stack[Len(m.stack)].kind = "Bytes"
      BY <2>2 DEF Popped
    <3>2. 0 < Len(m.stack) /\ Nth(m, 0) = m.stack[Len(m.stack)]
      BY <1>0, <3>1 DEF Nth
    <3>3. words(0) \in 0 .. program.limit
      BY <1>3, <3>1, <3>2
    <3> QED BY <3>3, ProgramFacts
  <2>5. Paid(k, l, 10 + words(0))
    BY <2>3, <2>4, PayKept
  <2> HIDE DEF l
  <2>6. Kept(m, l) /\ Machine(l)
    BY <2>3, <2>5, KeptChain DEF Paid, Kept
  <2>7. Popped(l, t, "Builder")
    BY <2>6, PopKept
  <2> HIDE DEF t
  <2>8. Kept(m, t) /\ Machine(t)
    BY <2>6, <2>7, KeptChain DEF Popped, Kept
  <2>9. Thing("Builder") \in Values /\ "MalformedCell" \in Raises \ {"none"}
    BY ThingIsValue DEF Raises
  <2>10. Kept(t, Push(t, Thing("Builder"))) /\ Kept(t, Raise(t, "MalformedCell"))
    BY <2>8, <2>9, PushKept, RaiseKept
  <2> QED BY <2>1, <2>8, <2>10, KeptChain
<1> QED BY <1>9, <1>10, <1>11 DEF PayLateOps

-----------------------------------------------------------------------------
(* Control flow: the machine moves, and c0 with the call stack. *)

\* A machine with a return to take while a call is open, and none open at success.
Sound(m) ==
    /\ Machine(m)
    /\ m.calls # <<>> => m.c0 # {}
    /\ m.status = "success" => m.calls = <<>>

LEMMA KeptIsSound ==
    ASSUME NEW m, Sound(m), NEW n, Kept(m, n)
    PROVE  Sound(n)
  BY DEF Sound, Kept

LEMMA JumpIsMachine ==
    ASSUME NEW m, Machine(m), NEW c, c.code \in DOMAIN program.code, c.pc \in Nat,
           c.pc <= Len(program.code[c.code])
    PROVE  /\ Machine(JumpTo(m, c))
           /\ JumpTo(m, c).calls = m.calls /\ JumpTo(m, c).c0 = m.c0 /\ JumpTo(m, c).status = m.status
<1> DEFINE n == [m EXCEPT !.code = c.code, !.pc = c.pc]
<1>1. m \in Shape
  BY DEF Machine
<1>2. n \in Shape /\ n.stack = m.stack /\ n.gas = m.gas /\ n.pc = c.pc /\ n.code = c.code
      /\ n.calls = m.calls /\ n.c0 = m.c0 /\ n.status = m.status
  BY <1>1 DEF Shape
<1>3. JumpTo(m, c) = n
  BY DEF JumpTo
<1> HIDE DEF n
<1> QED BY <1>2, <1>3 DEF Machine

WithCalls(m, calls, c0) == [m EXCEPT !.calls = calls, !.c0 = c0]

LEMMA SetCalls ==
    ASSUME NEW m, Machine(m), NEW calls \in Seq(Places), NEW c0 \in SUBSET Places
    PROVE  /\ Machine(WithCalls(m, calls, c0))
           /\ WithCalls(m, calls, c0).calls = calls /\ WithCalls(m, calls, c0).c0 = c0
           /\ WithCalls(m, calls, c0).status = m.status
<1> DEFINE n == [m EXCEPT !.calls = calls, !.c0 = c0]
<1>0. WithCalls(m, calls, c0) = n
  BY DEF WithCalls
<1>1. m \in Shape
  BY DEF Machine
<1>2. n \in Shape /\ n.stack = m.stack /\ n.gas = m.gas /\ n.pc = m.pc /\ n.code = m.code
      /\ n.calls = calls /\ n.c0 = c0 /\ n.status = m.status
  BY <1>1 DEF Shape
<1> HIDE DEF n
<1> QED BY <1>0, <1>2 DEF Machine

LEMMA SetStatus ==
    ASSUME NEW m, Sound(m), NEW st \in Statuses, st = "success" => m.calls = <<>>
    PROVE  Sound([m EXCEPT !.status = st])
<1> DEFINE n == [m EXCEPT !.status = st]
<1>1. m \in Shape
  BY DEF Machine, Sound
<1>2. n \in Shape /\ n.stack = m.stack /\ n.gas = m.gas /\ n.pc = m.pc /\ n.code = m.code
      /\ n.calls = m.calls /\ n.c0 = m.c0 /\ n.status = st
  BY <1>1 DEF Shape
<1> HIDE DEF n
<1>3. Sound(n)
  BY <1>2 DEF Machine, Sound
<1> QED BY <1>3 DEF n

LEMMA CallTopFacts ==
    ASSUME NEW calls \in Seq(Places)
    PROVE  CallTop(calls) \in SUBSET Places
<1>1. CASE calls = <<>>
  BY <1>1 DEF CallTop
<1>2. CASE calls # <<>>
  <2>1. Len(calls) \in DOMAIN calls
    BY <1>2
  <2>2. calls[Len(calls)] \in Places
    BY <2>1
  <2> QED BY <1>2, <2>2 DEF CallTop, Last
<1> QED BY <1>1, <1>2

LEMMA ReturnSound ==
    ASSUME NEW m, Sound(m), m.status = "running"
    PROVE  Sound(Return(m))
<1>1. CASE m.c0 = {}
  <2>1. Return(m) = [m EXCEPT !.status = "success"]
    BY <1>1 DEF Return
  <2>2. m.calls = <<>>
    BY <1>1 DEF Sound
  <2> QED BY <2>1, <2>2, SetStatus DEF Statuses
<1>2. CASE m.c0 # {}
  <2> DEFINE c == CHOOSE x \in m.c0 : TRUE
             back == JumpTo(m, c)
             left == IF m.calls = <<>> THEN <<>> ELSE Front(m.calls)
             n == WithCalls(back, left, CallTop(left))
  <2>1. Return(m) = n
    BY <1>2 DEF Return, WithCalls
  <2>2. Machine(m) /\ m.calls \in Seq(Places) /\ m.c0 \subseteq Places
    BY FieldsOf DEF Sound
  <2>3. c \in Places
    BY <1>2, <2>2
  <2> HIDE DEF c
  <2>4. Machine(back) /\ back.status = "running"
    BY <2>2, <2>3, JumpIsMachine DEF Places
  <2>5. left \in Seq(Places)
    BY <2>2 DEF Front
  <2> HIDE DEF back, left
  <2>6. CallTop(left) \in SUBSET Places
    BY <2>5, CallTopFacts
  <2>7. Machine(n) /\ n.calls = left /\ n.c0 = CallTop(left) /\ n.status = "running"
    BY <2>4, <2>5, <2>6, SetCalls
  <2> HIDE DEF n
  <2>8. left # <<>> => CallTop(left) # {}
    BY DEF CallTop
  <2> QED BY <2>1, <2>7, <2>8 DEF Sound
<1> QED BY <1>1, <1>2

LEMMA TransferSound ==
    ASSUME program \in Programs, NEW m, Sound(m), m.status = "running", NEW i, NEW call \in BOOLEAN
    PROVE  Sound(Transfer(m, i, call))
<1>0. Machine(m)
  BY DEF Sound
<1>1. CASE i.a \notin DOMAIN program.code
  <2>1. Transfer(m, i, call) = Raise(m, "MalformedCell")
    BY <1>1 DEF Transfer
  <2> QED BY <1>0, <2>1, RaiseKept, KeptIsSound DEF Raises
<1>2. CASE i.a \in DOMAIN program.code
  <2> DEFINE target == [code |-> i.a, pc |-> 0]
             here == Here(m)
             longer == Append(m.calls, here)
             called == WithCalls(m, longer, {here})
  <2>1. target.code \in DOMAIN program.code /\ target.pc \in Nat /\ target.pc <= Len(program.code[target.code])
    BY <1>2, ProgramFacts
  <2>2. Transfer(m, i, call) = IF call THEN JumpTo(called, target) ELSE JumpTo(m, target)
    BY <1>2 DEF Transfer, WithCalls
  <2> HIDE DEF target
  <2>3. here \in Places
    BY <1>0, FieldsOf DEF Here, Places
  <2>4. m.calls \in Seq(Places)
    BY <1>0, FieldsOf
  <2> HIDE DEF here
  <2>5. longer \in Seq(Places) /\ {here} \in SUBSET Places
    BY <2>3, <2>4
  <2> HIDE DEF longer
  <2>6. Machine(called) /\ called.c0 # {} /\ called.status = "running"
    <3>1. Machine(called) /\ called.c0 = {here} /\ called.status = m.status
      BY <1>0, <2>5, SetCalls
    <3> HIDE DEF called
    <3> QED BY <3>1
  <2> HIDE DEF called
  <2>7. Sound(JumpTo(m, target))
    BY <1>0, <2>1, JumpIsMachine DEF Sound
  <2>8. Sound(JumpTo(called, target))
    BY <2>1, <2>6, JumpIsMachine DEF Sound
  <2> QED BY <2>2, <2>7, <2>8
<1> QED BY <1>1, <1>2

LEMMA BranchSound ==
    ASSUME program \in Programs, NEW m, Sound(m), NEW offset \in Int
    PROVE  Sound(Branch(m, offset))
<1>0. Machine(m) /\ m.pc \in Nat /\ m.code \in DOMAIN program.code
  BY FieldsOf DEF Sound
<1>1. CASE m.pc + offset \notin 0 .. Len(program.code[m.code])
  <2>1. Branch(m, offset) = Raise(m, "MalformedCell")
    BY <1>1 DEF Branch
  <2> QED BY <1>0, <2>1, RaiseKept, KeptIsSound DEF Raises
<1>2. CASE m.pc + offset \in 0 .. Len(program.code[m.code])
  <2> DEFINE to == m.pc + offset
             n == [m EXCEPT !.pc = to]
  <2>1. Branch(m, offset) = n
    BY <1>2 DEF Branch
  <2>2. to \in Nat /\ to <= Len(program.code[m.code])
    BY <1>0, <1>2, ProgramFacts
  <2> HIDE DEF to
  <2>3. m \in Shape
    BY <1>0 DEF Machine
  <2>4. n \in Shape /\ n.stack = m.stack /\ n.gas = m.gas /\ n.pc = to /\ n.code = m.code
        /\ n.calls = m.calls /\ n.c0 = m.c0 /\ n.status = m.status
    BY <2>2, <2>3 DEF Shape
  <2> HIDE DEF n
  <2> QED BY <2>1, <2>2, <2>4 DEF Sound, Machine
<1> QED BY <1>1, <1>2

LEMMA ControlSound ==
    ASSUME program \in Programs, NEW m, Sound(m), m.status = "running",
           NEW i, Decoded(i), i.op \in ControlOps
    PROVE  Sound(Control(m, i))
<1> DEFINE paid == IF i.op \in Conditional THEN Pop(Pay(m, 4), "Integer") ELSE Pay(m, 4)
           set == IF m.stack = <<>> THEN FALSE ELSE ToI128(Nth(m, 0).val) # 0
<1>1. Machine(m) /\ Kept(m, Pay(m, 4)) /\ Machine(Pay(m, 4))
  BY PayIsMachine DEF Sound
<1>2. Kept(Pay(m, 4), Pop(Pay(m, 4), "Integer"))
  BY <1>1, PopKept DEF Popped
<1>3. Kept(m, paid)
  BY <1>1, <1>2, KeptChain
<1>4. \/ Control(m, i) \in {paid, Transfer(paid, i, FALSE), Transfer(paid, i, TRUE), Return(paid)}
      \/ i.op = "THROW" /\ Control(m, i) = Raise(paid, i.a)
      \/ i.op \in {"IFELSE", "REPEAT", "UNTIL"} /\ \E o \in {i.a, i.b} : Control(m, i) = Branch(paid, o)
  <2>1. CASE paid.raised # "none"
    BY <2>1 DEF Control
  <2>2. CASE paid.raised = "none"
    <3> HIDE DEF paid, set
    <3>1. Control(m, i) =
            CASE i.op = "JMPREF"       -> Transfer(paid, i, FALSE)
              [] i.op = "CALLREF"      -> Transfer(paid, i, TRUE)
              [] i.op = "IFJMPREF"     -> IF set THEN Transfer(paid, i, FALSE) ELSE paid
              [] i.op = "IFNOTJMPREF"  -> IF set THEN paid ELSE Transfer(paid, i, FALSE)
              [] i.op = "IFCALLREF"    -> IF set THEN Transfer(paid, i, TRUE) ELSE paid
              [] i.op = "IFNOTCALLREF" -> IF set THEN paid ELSE Transfer(paid, i, TRUE)
              [] i.op = "RET"          -> Return(paid)
              [] i.op = "IFRET"        -> IF set THEN Return(paid) ELSE paid
              [] i.op = "THROW"        -> Raise(paid, i.a)
              [] i.op = "IFELSE"       -> Branch(paid, IF set THEN i.a ELSE i.b)
              [] i.op = "REPEAT"       -> IF i.a > 0 THEN Branch(paid, i.b) ELSE paid
              [] i.op = "UNTIL"        -> IF set THEN paid ELSE Branch(paid, i.a)
      BY <2>2 DEF Control, paid, set
    <3>2. i.op \in {"JMPREF", "CALLREF", "IFJMPREF", "IFNOTJMPREF", "IFCALLREF", "IFNOTCALLREF", "RET",
                    "IFRET", "THROW", "IFELSE", "REPEAT", "UNTIL"}
      BY DEF ControlOps, Conditional
    <3>3. (IF set THEN i.a ELSE i.b) \in {i.a, i.b}
      OBVIOUS
    <3> QED BY <3>1, <3>2, <3>3
  <2> QED BY <2>1, <2>2
<1> HIDE DEF paid
<1>5. Sound(paid) /\ Machine(paid) /\ paid.status = "running"
  BY <1>3, KeptIsSound DEF Kept
<1>6. CASE Control(m, i) \in {paid, Transfer(paid, i, FALSE), Transfer(paid, i, TRUE), Return(paid)}
  BY <1>5, <1>6, TransferSound, ReturnSound
<1>7. CASE i.op = "THROW" /\ Control(m, i) = Raise(paid, i.a)
  <2>1. i.a \in Raises \ {"none"}
    <3>1. PICK n \in DOMAIN Exceptions : i.a = Exceptions[n]
      BY <1>7 DEF Decoded
    <3> QED BY <3>1 DEF Exceptions, Raises
  <2> QED BY <1>5, <1>7, <2>1, RaiseKept, KeptIsSound
<1>8. CASE i.op \in {"IFELSE", "REPEAT", "UNTIL"} /\ \E o \in {i.a, i.b} : Control(m, i) = Branch(paid, o)
  <2>1. i.a \in Int /\ i.b \in Int
    BY <1>8 DEF Decoded
  <2> QED BY <1>5, <1>8, <2>1, BranchSound
<1> QED BY <1>4, <1>6, <1>7, <1>8

LEMMA ExecuteSound ==
    ASSUME program \in Programs, NEW m, Sound(m), m.status = "running",
           NEW i, Decoded(i), NEW n \in Execute(m, i)
    PROVE  Sound(n)
<1>0. Machine(m)
  BY DEF Sound
<1>1. CASE i.op \in StackOps
  <2>1. n = Stack(m, i)
    BY <1>1 DEF Execute, StackOps, Typed, PayLateOps, ControlOps, Conditional
  <2> QED BY <1>0, <1>1, <2>1, StackKept, KeptIsSound
<1>2. CASE i.op \in TypedOps
  <2>1. n \in OnTyped(m, i)
    <3>1. i.op \notin StackOps /\ i.op \notin PayLateOps /\ i.op \notin ControlOps /\ i.op # "BAD"
      BY <1>2 DEF TypedOps, StackOps, PayLateOps, ControlOps, Conditional
    <3> QED BY <1>2, <3>1, TypedDomain DEF Execute
  <2> QED BY <1>0, <1>2, <2>1, TypedDomain, OnTypedKept, KeptIsSound
<1>3. CASE i.op \in PayLateOps
  <2>1. n \in OnPayLate(m, i.op)
    <3>1. i.op \notin StackOps /\ i.op \notin TypedOps /\ i.op \notin ControlOps /\ i.op # "BAD"
      BY <1>3 DEF TypedOps, StackOps, PayLateOps, ControlOps, Conditional
    <3> QED BY <1>3, <3>1, TypedDomain DEF Execute
  <2> QED BY <1>0, <1>3, <2>1, OnPayLateKept, KeptIsSound
<1>4. CASE i.op \in ControlOps
  <2>1. n = Control(m, i)
    <3>1. i.op \notin StackOps /\ i.op \notin TypedOps /\ i.op \notin PayLateOps /\ i.op # "BAD"
      BY <1>4 DEF TypedOps, StackOps, PayLateOps, ControlOps, Conditional
    <3> QED BY <1>4, <3>1, TypedDomain DEF Execute
  <2> QED BY <1>4, <2>1, ControlSound
<1>5. CASE i.op = "BAD"
  <2>1. n = Raise(Pay(m, i.a), "MalformedCell")
    <3>1. i.op \notin StackOps /\ i.op \notin TypedOps /\ i.op \notin PayLateOps /\ i.op \notin ControlOps
      BY <1>5 DEF TypedOps, StackOps, PayLateOps, ControlOps, Conditional
    <3> QED BY <1>5, <3>1, TypedDomain DEF Execute
  <2>2. i.a \in Nat
    BY <1>5 DEF Decoded
  <2>3. Kept(m, Pay(m, i.a)) /\ Machine(Pay(m, i.a))
    BY <1>0, <2>2, PayIsMachine
  <2>4. Kept(Pay(m, i.a), Raise(Pay(m, i.a), "MalformedCell"))
    BY <2>3, RaiseKept DEF Raises
  <2> QED BY <2>1, <2>3, <2>4, KeptChain, KeptIsSound
<1> QED BY <1>1, <1>2, <1>3, <1>4, <1>5, TypedDomain DEF Decoded

LEMMA HandledSound ==
    ASSUME program \in Programs, NEW m, Sound(m)
    PROVE  Sound(Handled(m))
<1>0. Machine(m) /\ m.raised \in Raises
  BY FieldsOf DEF Sound
<1>1. CASE m.raised = "none"
  BY <1>1 DEF Handled
<1>2. CASE m.raised = "panic"
  <2>1. Handled(m) = [m EXCEPT !.status = "panicked"]
    BY <1>2 DEF Handled
  <2> QED BY <2>1, SetStatus DEF Statuses
<1>3. CASE m.raised \notin {"none", "panic"}
  <2> DEFINE number == (CHOOSE n \in DOMAIN Exceptions : Exceptions[n] = m.raised) - 1
             quiet == [m EXCEPT !.raised = "none"]
             pushed == Push(quiet, Num(number))
             h == CHOOSE x \in program.handler : TRUE
  <2>1. Handled(m) = IF program.handler # {} /\ pushed.raised = "none" THEN JumpTo(pushed, h)
                     ELSE [m EXCEPT !.status = "exception"]
    BY <1>3 DEF Handled
  <2>2. Sound([m EXCEPT !.status = "exception"])
    BY SetStatus DEF Statuses
  <2>3. number \in 0 .. 4
    <3>1. DOMAIN Exceptions = 1 .. 5
      BY DEF Exceptions
    <3>2. \E n \in DOMAIN Exceptions : Exceptions[n] = m.raised
      BY <1>0, <1>3, <3>1 DEF Exceptions, Raises
    <3>3. (CHOOSE n \in DOMAIN Exceptions : Exceptions[n] = m.raised) \in 1 .. 5
      BY <3>1, <3>2
    <3> QED BY <3>3
  <2> HIDE DEF number
  <2>4. Num(number) \in Values
    <3>1. number \in Int /\ number \in MinInt .. Wide
      BY <2>3, IntegersInRange
    <3> QED BY <3>1, NumIsValue
  <2>5. Kept(m, quiet)
    BY <1>0, SetRaised DEF Raises
  <2> HIDE DEF quiet
  <2>6. Kept(quiet, pushed)
    BY <2>4, <2>5, PushKept DEF Kept
  <2> HIDE DEF pushed
  <2>7. Sound(pushed) /\ Machine(pushed)
    BY <2>5, <2>6, KeptChain, KeptIsSound DEF Kept
  <2>8. program.handler # {} => Sound(JumpTo(pushed, h))
    <3> SUFFICES ASSUME program.handler # {} PROVE Sound(JumpTo(pushed, h))
      OBVIOUS
    <3>1. h \in program.handler
      OBVIOUS
    <3> HIDE DEF h
    <3>2. h.code \in DOMAIN program.code /\ h.pc \in Nat /\ h.pc <= Len(program.code[h.code])
      BY <3>1, ProgramFacts
    <3> QED BY <2>7, <3>2, JumpIsMachine DEF Sound
  <2> QED BY <2>1, <2>2, <2>8
<1> QED BY <1>1, <1>2, <1>3

-----------------------------------------------------------------------------
LEMMA VmInvIsSound == VmInv <=> program \in Programs /\ Sound(vm)
  BY DEF VmInv, Sound, OpenCallsCanReturn, SuccessMeansReturned

LEMMA VmInitInv == VmInit => VmInv
<1> SUFFICES ASSUME VmInit PROVE VmInv
  OBVIOUS
<1>1. program \in Programs
  BY DEF VmInit
<1>2. "main" \in DOMAIN program.code /\ Len(program.code["main"]) \in Nat /\ program.limit \in Nat
  BY <1>1, ProgramFacts
<1>3. vm = [stack |-> <<>>, calls |-> <<>>, code |-> "main", pc |-> 0, gas |-> 0, c0 |-> {},
            raised |-> "none", status |-> "running"]
  BY DEF VmInit
<1>4. vm \in Shape
  BY <1>2, <1>3 DEF Shape, Raises, Statuses
<1>5. Machine(vm)
  BY <1>2, <1>3, <1>4, InterpreterAssumption DEF Machine
<1>6. OpenCallsCanReturn /\ SuccessMeansReturned
  BY <1>3 DEF OpenCallsCanReturn, SuccessMeansReturned
<1> QED BY <1>1, <1>5, <1>6 DEF VmInv

LEMMA FallOffEndStep ==
    ASSUME VmInv, FallOffEnd
    PROVE  VmInv'
<1>0. /\ program \in Programs /\ program' = program /\ Sound(vm) /\ Machine(vm)
      /\ vm.status = "running"
  BY VmInvIsSound DEF FallOffEnd, Sound
<1>1. Sound(vm')
  <2>1. CASE vm.calls = <<>>
    <3>1. vm' = [vm EXCEPT !.status = "success"]
      BY <2>1 DEF FallOffEnd
    <3> QED BY <1>0, <2>1, <3>1, SetStatus DEF Statuses
  <2>2. CASE vm.calls # <<>>
    <3> DEFINE c == Last(vm.calls)
               l == JumpTo(vm, c)
    <3>1. vm' = [l EXCEPT !.calls = Front(@)]
      BY <2>2 DEF FallOffEnd
    <3>2. vm.calls \in Seq(Places)
      BY <1>0, FieldsOf
    <3>3. c \in Places
      <4>1. Len(vm.calls) \in DOMAIN vm.calls
        BY <2>2, <3>2
      <4> QED BY <3>2, <4>1 DEF Last
    <3> HIDE DEF c
    <3>4. Machine(l) /\ l.calls = vm.calls /\ l.c0 = vm.c0 /\ l.status = vm.status
      BY <1>0, <3>3, JumpIsMachine DEF Places
    <3> HIDE DEF l
    <3>5. Front(vm.calls) \in Seq(Places)
      BY <2>2, <3>2 DEF Front
    <3>6. l \in Shape
      BY <3>4 DEF Machine
    <3> DEFINE short == Front(l.calls)
               n == [l EXCEPT !.calls = short]
    <3>7. short \in Seq(Places)
      BY <3>4, <3>5
    <3>8. vm' = n
      BY <3>1
    <3> HIDE DEF short
    <3>9. n \in Shape /\ n.stack = l.stack /\ n.gas = l.gas /\ n.pc = l.pc /\ n.code = l.code
          /\ n.c0 = l.c0 /\ n.status = l.status
      BY <3>6, <3>7 DEF Shape
    <3> HIDE DEF n
    <3>10. vm.c0 # {}
      BY <1>0, <2>2 DEF Sound
    <3> QED BY <1>0, <3>4, <3>8, <3>9, <3>10 DEF Sound, Machine
  <2> QED BY <2>1, <2>2
<1>2. Sound(vm)'
  BY <1>0, <1>1 DEF Sound, Machine, Shape, Places, Values, Fits
<1> QED BY <1>0, <1>2 DEF VmInv, Sound, OpenCallsCanReturn, SuccessMeansReturned

LEMMA ExecuteNextStep ==
    ASSUME VmInv, ExecuteNext
    PROVE  VmInv'
<1>0. /\ program \in Programs /\ program' = program /\ Sound(vm) /\ Machine(vm)
      /\ vm.status = "running"
  BY VmInvIsSound DEF ExecuteNext, Sound
<1> DEFINE next == vm.pc + 1
           m == [vm EXCEPT !.pc = next]
           i == program.code[vm.code][vm.pc + 1]
<1>1. PICK n \in Execute(m, i) : vm' = Handled(n)
  BY DEF ExecuteNext
<1>2. /\ vm.code \in DOMAIN program.code /\ vm.pc \in Nat /\ Len(program.code[vm.code]) \in Nat
      /\ vm \in Shape
  BY <1>0, FieldsOf, ProgramFacts DEF Machine
<1>3. next \in 1 .. Len(program.code[vm.code]) /\ next \in Nat
  BY <1>2 DEF ExecuteNext, AtEnd
<1>4. Decoded(i)
  BY <1>0, <1>2, <1>3, ProgramFacts
<1> HIDE DEF next, i
<1>5. m \in Shape /\ m.stack = vm.stack /\ m.gas = vm.gas /\ m.pc = next /\ m.code = vm.code
      /\ m.calls = vm.calls /\ m.c0 = vm.c0 /\ m.status = vm.status
  BY <1>2, <1>3 DEF Shape
<1> HIDE DEF m
<1>6. Sound(m) /\ m.status = "running"
  BY <1>0, <1>2, <1>3, <1>5 DEF Sound, Machine
<1>7. Sound(vm')
  BY <1>0, <1>1, <1>4, <1>6, ExecuteSound, HandledSound
<1>8. Sound(vm)'
  BY <1>0, <1>7 DEF Sound, Machine, Shape, Places, Values, Fits
<1> QED BY <1>0, <1>8 DEF VmInv, Sound, OpenCallsCanReturn, SuccessMeansReturned

LEMMA VmStepInv == VmInv /\ [VmNext]_vmVars => VmInv'
<1> SUFFICES ASSUME VmInv, [VmNext]_vmVars PROVE VmInv'
  OBVIOUS
<1>1. CASE FallOffEnd
  BY <1>1, FallOffEndStep
<1>2. CASE ExecuteNext
  BY <1>2, ExecuteNextStep
<1>3. CASE UNCHANGED vmVars
  BY <1>3 DEF vmVars, VmInv, Machine, Shape, Places, Values, Fits, OpenCallsCanReturn, SuccessMeansReturned
<1> QED BY <1>1, <1>2, <1>3 DEF VmNext

LEMMA VmInvImplies == VmInv => VmTypeOK /\ SuccessMeansReturned
<1> SUFFICES ASSUME VmInv PROVE VmTypeOK /\ SuccessMeansReturned
  OBVIOUS
<1>1. /\ vm.stack \in Seq(Values) /\ Len(vm.stack) <= MaxStackDepth
      /\ vm.gas \in Nat /\ vm.gas <= program.limit
      /\ vm.code \in DOMAIN program.code /\ vm.pc \in Nat /\ vm.pc <= Len(program.code[vm.code])
      /\ vm.status \in Statuses
  BY FieldsOf DEF VmInv
<1>2. program.limit \in Nat /\ Len(program.code[vm.code]) \in Nat
  BY <1>1, ProgramFacts DEF VmInv
<1>3. \A n \in DOMAIN vm.stack : Fits(vm.stack[n])
  <2>1. \A n \in DOMAIN vm.stack : vm.stack[n] \in Values
    BY <1>1
  <2> QED BY <2>1 DEF Values
<1>4. vm.gas \in 0 .. program.limit /\ vm.pc \in 0 .. Len(program.code[vm.code])
  BY <1>1, <1>2
<1> QED BY <1>1, <1>3, <1>4 DEF VmTypeOK, VmInv, Fits, Statuses

(* The inductive invariant of the interpreter. *)
THEOREM VmInductive == VmSpec => []VmInv
  BY VmInitInv, VmStepInv, PTL DEF VmSpec

(* VmTypeOK, of every program the decoder lets through: gas never passes    *)
(* the limit, the stack never its depth, no byte string is longer than the  *)
(* gas limit, and pc never leaves the code - whatever was called, branched  *)
(* to, returned to or raised.                                               *)
THEOREM VmTypeCorrect == VmSpec => []VmTypeOK
  BY VmInductive, VmInvImplies, PTL

(* SuccessMeansReturned: success is never reported with a call still open,  *)
(* although code that runs off its end leaves c0 behind and handlers are    *)
(* entered from any depth.                                                  *)
THEOREM SuccessIsReturned == VmSpec => []SuccessMeansReturned
  BY VmInductive, VmInvImplies, PTL
=============================================================================
