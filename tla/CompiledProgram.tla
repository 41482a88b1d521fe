--------------------------- MODULE CompiledProgram ---------------------------
(***************************************************************************)
(* Source to behaviour: a program is analyzed, lowered and run, and what   *)
(* it does is compared with what it means.                                 *)
(***************************************************************************)
EXTENDS QuinVM, CodeGen, Meaning

CONSTANT Programs      \* a table of programs, each a sequence of functions

(* The compiler: analysis, then code generation, either of which may refuse. *)
(* Beside the code stands what the program means, and whether a vm_asm block  *)
(* of it moves a reference, which the code generator does not refuse.        *)
MovesReference(fns) ==
    LET blocks == SelectSeq(ProgramNodes(fns), LAMBDA n : n.k = "asm")
        moves(n, i) == /\ i[1] \in {"load_local", "store_local"}
                       /\ IsReference(Resolve(n.visible, i[2]).type)
    IN  \E b \in DOMAIN blocks : \E i \in DOMAIN blocks[b].code :
            moves(blocks[b], blocks[b].code[i])
Lowered(fns, g) ==
    IF ~g.ok THEN [ok |-> FALSE]
    ELSE g @@ [warnings |-> fns[FunctionNamed(fns, "main")].warnings,
               behaviours |-> Behaviours(fns, MaxInputs),
               movesReference |-> MovesReference(fns)]
Lower(a) == IF a.bad THEN [ok |-> FALSE] ELSE Lowered(a.fns, Generate(a.fns))
Compile(fns) == Lower(AnalyzeProgram(fns))

Accepted == program.ok
\* Only a run has code to talk about; only a statement's first instruction
\* knows which scopes are open.
AtStatement == status = Running /\ Instr.live # NotAStart

Init == \E name \in DOMAIN Programs : Load([name |-> name] @@ Compile(Programs[name]))
Finished == status # Running /\ UNCHANGED vars
Spec == Init /\ [][Next \/ Finished]_vars

\* The loaded program is a function of its name.
Seen == <<program.name, pc, stack, locals, frameBase, frames, currentFn, heap, fileError,
          output, inputs, status>>

-----------------------------------------------------------------------------
TypeOK ==
    /\ status[1] \in {"running", "returned", "fault", "starved", "rejected"}
    /\ Accepted => /\ pc \in 1..Len(Code) /\ currentFn \in DOMAIN Functions
                   /\ DOMAIN locals = 0..(Functions[currentFn].size - 1)
                   /\ \A i \in DOMAIN locals : locals[i] \in 0..65535
                   /\ frameBase \in 0..Len(stack)
                   /\ fileError \in {<<>>, Reason}

(* A program that has ended wrote exactly what its text means and ended as   *)
(* it means to: arithmetic on words agrees with 16-bit integers, jumps with  *)
(* nested control flow, slots with scopes, and a failed file operation's     *)
(* reason is the last one's (codegen_vm.py; vm.py 991-1502).                 *)
OutputAsMeant ==
    (Accepted /\ status # Running) =>
        [inputs |-> inputs, out |-> output, status |-> status] \in program.behaviours

(* Where a statement begins, a reference slot whose scope is not open there  *)
(* is null: every way out of a scope, break and continue included, released  *)
(* it (codegen_vm.py _release_scope, _emit_loop_jump).                       *)
ScopesReleased ==
    AtStatement => \A i \in Functions[currentFn].refs \ Instr.live : locals[i] = 0

(* Where a statement begins, its frame has nothing on the operand stack:     *)
(* every path through every statement before it was balanced (vm.py RET's    *)
(* "Unbalanced operand stack").                                              *)
StatementsBalanced == AtStatement => Len(stack) = frameBase

(* In a program that moves references only as the language's typed           *)
(* operations do, the stack map and the tags are exact: what they call a     *)
(* reference is null or an object's address, and no address is anywhere else *)
(* (vm.py _roots, collect: "the roots are exact").  Two accepted kinds of    *)
(* program are outside it: one whose vm_asm loads or stores a reference      *)
(* local (codegen_vm.py 626-647), which the antecedent names, and one whose  *)
(* memcpy or memset runs past its array onto a neighbour's slots, to which   *)
(* Meaning gives no meaning and of which the programs here have none.        *)
MapExact(refs, frame) ==
    \A i \in DOMAIN frame : IF i \in refs THEN frame[i] = 0 \/ IsAddress(frame[i])
                                          ELSE ~IsAddress(frame[i])
RootsExact ==
    (Accepted /\ ~program.movesReference) =>
        /\ MapExact(Functions[currentFn].refs, locals)
        /\ \A i \in DOMAIN frames : MapExact(Functions[frames[i].fn].refs, frames[i].locals)
        /\ \A i \in DOMAIN stack :
              ~stack[i].wide => (IF stack[i].r THEN stack[i].w = 0 \/ IsAddress(stack[i].w)
                                                   ELSE ~IsAddress(stack[i].w))

(* The source map names, for every instruction a statement produced, the     *)
(* line of the innermost node it was lowered from (bytecode.py               *)
(* SourceMapBuilder.mark, codegen_vm.py _enter and _leave).                  *)
PositionsTrue ==
    (status = Running /\ Instr.by # 0) => Lookup(program.marks, pc) = Instr.by

(* Control never runs off the end of a function that returns a value: the    *)
(* analysis that demands a return is right about what cannot be passed       *)
(* (sema.py _always_returns).                                                *)
NeverRunsOff ==
    status = Running => (pc = program.ends[currentFn] => Functions[currentFn].ret = VoidT)

(* What the analysis warned an exit code will be is what main returns there  *)
(* (sema.py const_int: "so the reported value is the one really returned").  *)
WarningIsTrue ==
    (Accepted /\ status[1] = "returned") =>
        \A w \in ToSet(program.warnings) : w[1] = Instr.by => w[2] = status[2]
=============================================================================
