----------------------------- MODULE Interpreter -----------------------------
(***************************************************************************)
(* The bytecode interpreter (interpreter.rs, continuation.rs, types.rs):   *)
(* operand stack, call stack, the registers c0 (return) and c2 (exception  *)
(* handler), gas, and the loop of run.                                     *)
(*                                                                         *)
(* Code is a sequence of decoded instructions and pc counts them; BAD      *)
(* stands for an opcode or operand that does not decode.  An integer is    *)
(* 256 bits wide and arithmetic sees the low half of it, MinInt..MaxInt    *)
(* (i128, scaled); bytes are their number of 32-byte words; of cells,      *)
(* slices and builders only the kind is kept, so that what depends on      *)
(* their content has every outcome it can have.  An operation on a machine *)
(* that has raised does nothing: the `?` of the code.                      *)
(***************************************************************************)
EXTENDS Integers, Sequences, FiniteSets, SequencesExt, Sums

CONSTANTS
    Programs,         \* [code, handler, limit]: code maps "main" and "sub" to instructions
    MaxStackDepth,    \* MAX_STACK_DEPTH, scaled
    IntBits           \* the bits of i128, scaled

ASSUME InterpreterAssumption ==
    MaxStackDepth \in Nat \ {0} /\ IntBits \in Nat \ 0..2

VARIABLES
    program,  \* what runs: its code, its c2 and its gas limit
    vm        \* the machine

vmVars == <<program, vm>>

MinInt == -TwoTo(IntBits - 1)
MaxInt == TwoTo(IntBits - 1) - 1

Num(n)      == [kind |-> "Integer", val |-> n]
Bool(b)     == Num(IF b THEN 1 ELSE 0)
Bytes(n)    == [kind |-> "Bytes", val |-> n]
Thing(kind) == [kind |-> kind, val |-> 0]

\* to_i128: the low half, as a signed number.  Wide is an integer beyond it.
ToI128(n) == ((n - MinInt) % (MaxInt - MinInt + 1)) + MinInt
Wide      == MaxInt + 1

Exceptions == <<"OutOfGas", "IntegerOverflow", "AbsentNode", "MalformedCell", "TypeMismatch">>

VmInit ==
    /\ program \in Programs
    /\ vm = [stack |-> <<>>, calls |-> <<>>, code |-> "main", pc |-> 0, gas |-> 0, c0 |-> {},
             raised |-> "none", status |-> "running"]

-----------------------------------------------------------------------------
(* Gas and the stack. *)

Raise(m, kind) == IF m.raised = "none" THEN [m EXCEPT !.raised = kind] ELSE m

\* (Slip: the limit is checked and the gas not recorded.)
PayUnrecorded(m, cost) == IF m.gas + cost > program.limit THEN Raise(m, "OutOfGas") ELSE m

\* consume_gas
Pay(m, cost) ==
    IF m.raised # "none" THEN m
    ELSE IF m.gas + cost > program.limit THEN Raise([m EXCEPT !.gas = program.limit], "OutOfGas")
    ELSE [m EXCEPT !.gas = @ + cost]

\* pop, and its typed forms: a value of another kind is gone all the same.
Pop(m, kind) ==
    IF m.raised # "none" THEN m
    ELSE IF m.stack = <<>> THEN Raise(m, "MalformedCell")
    ELSE LET popped == [m EXCEPT !.stack = Front(@)]
         IN IF kind \in {"any", Last(m.stack).kind} THEN popped ELSE Raise(popped, "TypeMismatch")

Push(m, value) ==
    IF m.raised # "none" THEN m
    ELSE IF Len(m.stack) >= MaxStackDepth THEN Raise(m, "MalformedCell")
    ELSE [m EXCEPT !.stack = Append(@, value)]

\* One after the other: no instruction takes more than three.
PopAll(m, kinds) ==
    CASE Len(kinds) = 0 -> m
      [] Len(kinds) = 1 -> Pop(m, kinds[1])
      [] Len(kinds) = 2 -> Pop(Pop(m, kinds[1]), kinds[2])
      [] Len(kinds) = 3 -> Pop(Pop(Pop(m, kinds[1]), kinds[2]), kinds[3])

\* One after the other, as many as there is room for.
PushAll(m, values) ==
    LET room == MaxStackDepth - Len(m.stack)
    IN IF m.raised # "none" THEN m
       ELSE IF Len(values) <= room THEN [m EXCEPT !.stack = @ \o values]
       ELSE Raise([m EXCEPT !.stack = @ \o SubSeq(values, 1, room)], "MalformedCell")

\* The n-th value from the top, the top being the 0-th.
Nth(m, n) == m.stack[Len(m.stack) - n]

Needs(m, n) == IF Len(m.stack) < n THEN Raise(m, "MalformedCell") ELSE m

\* The values an instruction that has not raised leaves above the n it takes.
Rearrange(m, n, indices) ==
    LET paid == Needs(Pay(m, 1), n)
    IN IF paid.raised # "none" THEN paid
       ELSE PushAll([paid EXCEPT !.stack = SubSeq(@, 1, Len(@) - n)],
                    [i \in DOMAIN indices |-> Nth(m, indices[i])])

-----------------------------------------------------------------------------
(* Instructions on the stack alone. *)

\* What SWAP, ROT and TUCK pop before they find too little is gone; NIP, OVER
\* and the others look first.
Stack(m, i) ==
    CASE i.op = "NOP"  -> Pay(m, 1)
      [] i.op = "DROP" -> Pop(Pay(m, 1), "any")
      [] i.op = "DUP"  -> Rearrange(m, 1, <<0, 0>>)
      [] i.op = "SWAP" -> IF Len(m.stack) < 2 THEN PopAll(Pay(m, 1), <<"any", "any">>)
                          ELSE Rearrange(m, 2, <<0, 1>>)
      [] i.op = "OVER" -> Rearrange(m, 2, <<1, 0, 1>>)
      [] i.op = "ROT"  -> IF Len(m.stack) < 3 THEN PopAll(Pay(m, 1), <<"any", "any", "any">>)
                          ELSE Rearrange(m, 3, <<1, 0, 2>>)
      [] i.op = "PICK" -> LET paid == Needs(Pay(m, 1), i.a + 1)
                          IN IF paid.raised # "none" THEN paid ELSE Push(paid, Nth(m, i.a))
      [] i.op = "ROLL" -> LET paid == Needs(Pay(m, 1), i.a + 1)
                          IN IF paid.raised # "none" THEN paid
                             ELSE [paid EXCEPT !.stack = Append(RemoveAt(@, Len(@) - i.a), Nth(m, i.a))]
      [] i.op = "PUSHINT"   -> Push(Pay(m, 1), Num(i.a))
      [] i.op = "PUSHBYTES" -> Push(Pay(m, 1 + i.a), Bytes(i.a))
      [] i.op = "NIP"  -> Rearrange(m, 2, <<0>>)
      [] i.op = "TUCK" -> Rearrange(m, 2, <<0, 1, 0>>)
      [] i.op = "BLKSWAP" ->
           IF i.a = 0 \/ i.b = 0 THEN Raise(Pay(m, 1), "MalformedCell")
           ELSE Rearrange(m, i.a + i.b, [k \in 1..(i.a + i.b) |-> IF k <= i.b THEN i.b - k ELSE i.a + 2 * i.b - k])

StackOps == {"NOP", "DROP", "DUP", "SWAP", "OVER", "ROT", "PICK", "ROLL", "PUSHINT", "PUSHBYTES",
             "NIP", "TUCK", "BLKSWAP"}

-----------------------------------------------------------------------------
(* Instructions on typed operands: what each costs and takes, topmost first. *)

Two == <<"Integer", "Integer">>

Operation(cost, takes) == [cost |-> cost, takes |-> takes]

Typed ==
    [ADD    |-> Operation(4, Two),             SUB      |-> Operation(4, Two),
     NEG    |-> Operation(4, <<"Integer">>),   MUL      |-> Operation(8, Two),
     DIVMOD |-> Operation(8, Two),             CMP      |-> Operation(4, Two),
     ISZERO |-> Operation(4, <<"Integer">>),   CONV     |-> Operation(4, <<"Integer">>),
     DIV    |-> Operation(8, Two),             SHL      |-> Operation(4, Two),
     SHR    |-> Operation(4, Two),             BYTELEN  |-> Operation(1, <<"Bytes">>),
     NEWC   |-> Operation(10, <<>>),           SUBBYTES |-> Operation(4, <<"Integer", "Integer", "Bytes">>),
     ENDC   |-> Operation(10, <<"Builder">>),  STBITS   |-> Operation(10, <<"Integer", "Builder">>),
     CTOS   |-> Operation(10, <<"Cell">>),     STREF    |-> Operation(10, <<"Cell", "Builder">>),
     LDBITS |-> Operation(10, <<"Slice">>),    LDREF    |-> Operation(10, <<"Slice">>),
     SINFO  |-> Operation(1, <<"Slice">>),     ISEXOTIC |-> Operation(10, <<"Cell">>),
     HASHBYTES |-> Operation(200, <<"Bytes">>), HASHCELL |-> Operation(200, <<"Cell">>),
     CHKSIGNU  |-> Operation(4000, <<"Integer", "Bytes", "Bytes">>)]

\* An outcome: values pushed, or an exception, or a panic of the host.
Gives(values) == [push |-> values, raise |-> "none"]
Fails(kind)   == [push |-> <<>>, raise |-> kind]

Representable(n) == n \in MinInt..MaxInt

Checked(n) == {IF Representable(n) THEN Gives(<<Num(n)>>) ELSE Fails("IntegerOverflow")}

\* Division truncates towards zero.
Quotient(a, b) ==
    LET abs(n) == IF n < 0 THEN -n ELSE n
        q      == abs(a) \div abs(b)
    IN IF (a < 0) = (b < 0) THEN q ELSE -q

\* DIV, SHL and SHR to a width: flavour 0 unsigned, 1 signed, 2 wrapped.  The
\* limit of the full width is MinInt, and -MinInt panics or stays MinInt.
Fit(n, width, flavour) ==
    LET limit == ToI128(TwoTo(width - 1))
        whole == Representable(2 * limit)
    IN CASE ~Representable(n) -> {Fails("IntegerOverflow")}
         [] Representable(n) /\ flavour = 0 ->
              {IF whole /\ n \in 0..(2 * limit - 1) THEN Gives(<<Num(n)>>) ELSE Fails("IntegerOverflow")}
         [] Representable(n) /\ flavour = 1 ->
              IF limit < 0 THEN {Fails("IntegerOverflow"), Fails("panic")}
              ELSE {IF n \in (-limit)..(limit - 1) THEN Gives(<<Num(n)>>) ELSE Fails("IntegerOverflow")}
         [] Representable(n) /\ flavour = 2 ->
              {IF whole THEN Gives(<<Num(n % (2 * limit))>>) ELSE Fails("IntegerOverflow")}

\* What arithmetic makes of a and, above it, b.
Arithmetic(i, a, b) ==
    CASE i.op = "ADD" -> Checked(a + b)
      [] i.op = "SUB" -> Checked(a - b)
      [] i.op = "NEG" -> Checked(-b)
      [] i.op = "MUL" -> Checked(a * b)
      [] i.op = "CMP" -> {Gives(<<Num(IF a < b THEN -1 ELSE IF a > b THEN 1 ELSE 0)>>)}
      [] i.op \in {"DIV", "DIVMOD"} /\ b = 0 -> {Fails("IntegerOverflow")}
      [] i.op = "DIVMOD" /\ b # 0 ->
           {IF Representable(Quotient(a, b))
            THEN Gives(<<Num(Quotient(a, b)), Num(a - b * Quotient(a, b))>>) ELSE Fails("panic")}
      [] i.op = "DIV" /\ b # 0 -> Fit(Quotient(a, b), i.a, i.b)
      [] i.op \in {"SHL", "SHR"} ->
           IF b \notin 0..(i.a - 1) THEN {Fails("IntegerOverflow")}
           ELSE Fit(IF i.op = "SHL" THEN ToI128(a * TwoTo(b)) ELSE a \div TwoTo(b), i.a, i.b)

ArithmeticOps == {"ADD", "SUB", "NEG", "MUL", "CMP", "DIV", "DIVMOD", "SHL", "SHR"}

\* A negative length or offset is cast to a huge one, and the sum may wrap.
SubBytes(length, offset, words) ==
    IF length < 0 \/ offset < 0 THEN {Fails("MalformedCell"), Fails("panic")}
    ELSE {IF offset + length > words THEN Fails("MalformedCell") ELSE Gives(<<Bytes(length)>>)}

\* The others; top is the first operand taken.
Results(op, top, second, third) ==
    CASE op = "ISZERO"   -> {Gives(<<Bool(top = 0)>>)}
      [] op \in {"CONV", "BYTELEN"} -> {Gives(<<Num(top)>>)}
      [] op = "SUBBYTES" -> SubBytes(ToI128(top), ToI128(second), third)
      [] op = "NEWC"     -> {Gives(<<Thing("Builder")>>)}
      [] op = "ENDC"     -> {Gives(<<Thing("Cell")>>), Fails("MalformedCell")}
      [] op \in {"STBITS", "STREF"} -> {Gives(<<Thing("Builder")>>), Fails("MalformedCell")}
      [] op = "CTOS"     -> {Gives(<<Thing("Slice")>>), Fails("AbsentNode")}
      [] op = "LDBITS"   -> {Gives(<<Thing("Slice"), Num(n)>>) : n \in {0, Wide}} \cup {Fails("MalformedCell")}
      [] op = "LDREF"    -> {Gives(<<Thing("Slice"), Thing("Cell")>>), Fails("MalformedCell")}
      [] op \in {"ISEXOTIC", "SINFO"} -> {Gives(<<Bool(b)>>) : b \in BOOLEAN}
      [] op \in {"HASHBYTES", "HASHCELL"} -> {Gives(<<Num(Wide)>>)}
      [] op = "CHKSIGNU" -> IF third = 1 /\ second = 2 THEN {Gives(<<Bool(b)>>) : b \in BOOLEAN}
                            ELSE {Fails("TypeMismatch")}

Finish(m, outcome) ==
    IF outcome.raise # "none" THEN Raise(m, outcome.raise) ELSE PushAll(m, outcome.push)

OnTyped(m, i) ==
    LET taken      == PopAll(Pay(m, Typed[i.op].cost), Typed[i.op].takes)
        operand(n) == IF n < Len(m.stack) THEN Nth(m, n).val ELSE 0
        outcomes   == IF i.op \in ArithmeticOps
                      THEN Arithmetic(i, ToI128(operand(1)), ToI128(operand(0)))
                      ELSE Results(i.op, operand(0), operand(1), operand(2))
    IN IF taken.raised # "none" THEN {taken} ELSE {Finish(taken, o) : o \in outcomes}

\* CONCAT, BYTEEQ and STBYTES pop before they pay.
PayLateOps == {"CONCAT", "BYTEEQ", "STBYTES"}

OnPayLate(m, op) ==
    LET words(n) == IF n < Len(m.stack) THEN Nth(m, n).val ELSE 0
        least    == IF words(0) < words(1) THEN words(0) ELSE words(1)
    IN CASE op = "CONCAT" ->
              {Push(Pay(PopAll(m, <<"Bytes", "Bytes">>), 4 + words(0) + words(1)), Bytes(words(0) + words(1)))}
         [] op = "BYTEEQ" ->
              {Push(Pay(PopAll(m, <<"Bytes", "Bytes">>), 1 + least), Bool(b)) : b \in {FALSE, words(0) = words(1)}}
         [] op = "STBYTES" ->
              LET taken == Pop(Pay(Pop(m, "Bytes"), 10 + words(0)), "Builder")
              IN {Push(taken, Thing("Builder")), Raise(taken, "MalformedCell")}

-----------------------------------------------------------------------------
(* Control flow. *)

Here(m) == [code |-> m.code, pc |-> m.pc]

JumpTo(m, continuation) == [m EXCEPT !.code = continuation.code, !.pc = continuation.pc]

CallTop(calls) == IF calls = <<>> THEN {} ELSE {Last(calls)}

\* (Slip: c0 is taken and not set to the next return.)
ReturnForgetful(m) ==
    IF m.c0 = {} THEN [m EXCEPT !.status = "success"]
    ELSE LET back == JumpTo(m, CHOOSE c \in m.c0 : TRUE)
         IN [back EXCEPT !.calls = IF @ = <<>> THEN @ ELSE Front(@), !.c0 = {}]

\* RET: to c0, which becomes the top of what is left of the call stack.
Return(m) ==
    IF m.c0 = {} THEN [m EXCEPT !.status = "success"]
    ELSE LET back == JumpTo(m, CHOOSE c \in m.c0 : TRUE)
             left == IF m.calls = <<>> THEN <<>> ELSE Front(m.calls)
         IN [back EXCEPT !.calls = left, !.c0 = CallTop(left)]

\* The JMPREF and CALLREF families; the target is looked up only when taken.
Transfer(m, i, call) ==
    IF i.a \notin DOMAIN program.code THEN Raise(m, "MalformedCell")
    ELSE LET from == IF call THEN [m EXCEPT !.calls = Append(@, Here(m)), !.c0 = {Here(m)}] ELSE m
         IN JumpTo(from, [code |-> i.a, pc |-> 0])

\* IFELSE, REPEAT and UNTIL: by an offset from the next instruction.
Branch(m, offset) ==
    IF m.pc + offset \in 0..Len(program.code[m.code])
    THEN [m EXCEPT !.pc = @ + offset] ELSE Raise(m, "MalformedCell")

Conditional == {"IFJMPREF", "IFNOTJMPREF", "IFCALLREF", "IFNOTCALLREF", "IFELSE", "IFRET", "UNTIL"}

ControlOps == Conditional \cup {"JMPREF", "CALLREF", "RET", "THROW", "REPEAT"}

Control(m, i) ==
    LET paid == IF i.op \in Conditional THEN Pop(Pay(m, 4), "Integer") ELSE Pay(m, 4)
        set  == IF m.stack = <<>> THEN FALSE ELSE ToI128(Nth(m, 0).val) # 0
    IN IF paid.raised # "none" THEN paid
       ELSE CASE i.op = "JMPREF"       -> Transfer(paid, i, FALSE)
              [] i.op = "CALLREF"      -> Transfer(paid, i, TRUE)
              [] i.op = "IFJMPREF"     -> IF set THEN Transfer(paid, i, FALSE) ELSE paid
              [] i.op = "IFNOTJMPREF"  -> IF set THEN paid ELSE Transfer(paid, i, FALSE)
              [] i.op = "IFCALLREF"    -> IF set THEN Transfer(paid, i, TRUE) ELSE paid
              [] i.op = "IFNOTCALLREF" -> IF set THEN paid ELSE Transfer(paid, i, TRUE)
              [] i.op = "RET"          -> Return(paid)
              [] i.op = "IFRET"        -> IF set THEN Return(paid) ELSE paid
              [] i.op = "THROW"        -> Raise(paid, i.a)
              [] i.op = "IFELSE"       -> Branch(paid, IF set THEN i.a ELSE i.b)
              [] i.op = "REPEAT"       -> IF i.a > 0 THEN Branch(paid, i.b) ELSE paid
              [] i.op = "UNTIL"        -> IF set THEN paid ELSE Branch(paid, i.a)

\* What the decoder lets through: a width and flavour out of range are BAD.
Decoded(i) ==
    /\ i.op \in StackOps \cup DOMAIN Typed \cup PayLateOps \cup ControlOps \cup {"BAD"}
    /\ i.op \in {"PICK", "ROLL", "PUSHBYTES", "BLKSWAP", "BAD"} => i.a \in Nat
    /\ i.op = "BLKSWAP" => i.b \in Nat
    /\ i.op = "PUSHINT" => i.a \in MinInt..Wide
    /\ i.op \in {"DIV", "SHL", "SHR"} => i.a \in 1..IntBits /\ i.b \in 0..2
    /\ i.op \in {"IFELSE", "REPEAT", "UNTIL"} => i.a \in Int /\ i.b \in Int
    /\ i.op = "THROW" => \E n \in DOMAIN Exceptions : i.a = Exceptions[n] /\ i.a # "OutOfGas"

ASSUME ProgramsAssumption ==
    \A p \in Programs :
        /\ p.limit \in Nat /\ "main" \in DOMAIN p.code
        /\ \A c \in DOMAIN p.code :
               /\ Len(p.code[c]) \in Nat /\ DOMAIN p.code[c] = 1..Len(p.code[c])
               /\ \A n \in DOMAIN p.code[c] : Decoded(p.code[c][n])
        /\ \A h \in p.handler : h.code \in DOMAIN p.code /\ h.pc \in 0..Len(p.code[h.code])

Execute(m, i) ==
    CASE i.op \in StackOps      -> {Stack(m, i)}
      [] i.op \in DOMAIN Typed  -> OnTyped(m, i)
      [] i.op \in PayLateOps    -> OnPayLate(m, i.op)
      [] i.op \in ControlOps    -> {Control(m, i)}
      [] i.op = "BAD"           -> {Raise(Pay(m, i.a), "MalformedCell")}

-----------------------------------------------------------------------------
(* run *)

AtEnd == vm.pc >= Len(program.code[vm.code])

\* Code that ends returns to the call stack, for no gas, and leaves c0 alone.
FallOffEnd ==
    /\ vm.status = "running" /\ AtEnd
    /\ vm' = IF vm.calls = <<>> THEN [vm EXCEPT !.status = "success"]
             ELSE [JumpTo(vm, Last(vm.calls)) EXCEPT !.calls = Front(@)]
    /\ UNCHANGED program

\* An exception goes to the handler in c2 while the stack has room for its code.
Handled(m) ==
    LET code   == Num((CHOOSE n \in DOMAIN Exceptions : Exceptions[n] = m.raised) - 1)
        pushed == Push([m EXCEPT !.raised = "none"], code)
    IN CASE m.raised = "none"  -> m
         [] m.raised = "panic" -> [m EXCEPT !.status = "panicked"]
         [] OTHER -> IF program.handler # {} /\ pushed.raised = "none"
                     THEN JumpTo(pushed, CHOOSE h \in program.handler : TRUE)
                     ELSE [m EXCEPT !.status = "exception"]

ExecuteNext ==
    /\ vm.status = "running" /\ ~AtEnd
    /\ \E m \in Execute([vm EXCEPT !.pc = @ + 1], program.code[vm.code][vm.pc + 1]) : vm' = Handled(m)
    /\ UNCHANGED program

VmNext == FallOffEnd \/ ExecuteNext

VmSpec == VmInit /\ [][VmNext]_vmVars /\ WF_vmVars(VmNext)

-----------------------------------------------------------------------------
VmTypeOK ==
    /\ vm.gas \in 0..program.limit
    /\ Len(vm.stack) <= MaxStackDepth
    /\ \A n \in DOMAIN vm.stack :
           /\ vm.stack[n].kind = "Bytes" => vm.stack[n].val \in 0..program.limit
           /\ vm.stack[n].kind = "Integer" => vm.stack[n].val \in MinInt..Wide \cup 0..program.limit
    /\ vm.code \in DOMAIN program.code /\ vm.pc \in 0..Len(program.code[vm.code])
    /\ vm.status \in {"running", "success", "exception", "panicked"}

(* Success is reported only when every call has returned, through nested    *)
(* and conditional calls, early returns, code that runs off its end and     *)
(* handlers entered from any depth.                                         *)
SuccessMeansReturned == vm.status = "success" => vm.calls = <<>>

\* Why: there is a return to take for as long as a call is open.
OpenCallsCanReturn == vm.calls # <<>> => vm.c0 # {}

AtReturn == vm.status = "running" /\ ~AtEnd /\ program.code[vm.code][vm.pc + 1].op \in {"RET", "IFRET"}

(* RET: "pop the call stack and resume there; terminate successfully if     *)
(* empty" (tvm-instruction-set.md 4.5): c0, where RET goes, is the top of   *)
(* the call stack.                                                          *)
ReturnResumesCaller == AtReturn => vm.c0 = CallTop(vm.calls)

\* The handler starts with an instruction that pops before it pays: that
\* removes the exception's code and raises the next one for free.
Spinning ==
    /\ vm.status = "running" /\ Here(vm) \in program.handler /\ ~AtEnd
    /\ program.code[vm.code][vm.pc + 1].op \in PayLateOps

(* Every run ends, or stays for ever at the first instruction of such a     *)
(* handler: gas and the depth of the stack bound everything else, loops,    *)
(* recursion, falling off the end and other handlers that raise again.      *)
(* Without the second alternative, the "pure, total function" of            *)
(* execution.md 3.2, it does not hold.                                      *)
RunStopsOrSpins == <>(vm.status # "running") \/ <>[]Spinning
=============================================================================
