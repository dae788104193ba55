-------------------------------- MODULE Lock --------------------------------
(***************************************************************************)
(* The hardware lock of common/lock.c, instruction by instruction, on any  *)
(* number of CPUs.  Each CPU runs a main context that an interrupt handler *)
(* may preempt whenever the CPU's IF flag is set, and both may take the    *)
(* lock.  LOCK holds the lock bit and one rflags word, of which only IF    *)
(* matters here.                                                           *)
(***************************************************************************)
EXTENDS Naturals

CONSTANT CPUs

VARIABLES
    lock,      \* bit 0 of s->lock
    rflags,    \* IF in s->rflags
    IF_flag,   \* IF of every CPU
    irq,       \* whether the CPU runs an interrupt handler
    pc,        \* the next instruction of a context's lock or unlock
    pushed,    \* IF in the flags word on a context's stack
    before     \* IF when the context called lock (not in the code)

vars == <<lock, rflags, IF_flag, irq, pc, pushed, before>>

Levels   == {"main", "handler"}
Contexts == CPUs \X Levels

\* The handler runs when there is one, otherwise main does.
Runs(x) == irq[x[1]] <=> x[2] = "handler"

Init ==
    /\ lock = 0
    /\ rflags = FALSE
    /\ IF_flag = [c \in CPUs |-> TRUE]
    /\ irq = [c \in CPUs |-> FALSE]
    /\ pc = [x \in Contexts |-> "idle"]
    /\ pushed = [x \in Contexts |-> FALSE]
    /\ before = [x \in Contexts |-> FALSE]

At(x, i)   == Runs(x) /\ pc[x] = i
Goto(x, i) == pc' = [pc EXCEPT ![x] = i]

-----------------------------------------------------------------------------
(* lock_lock_implementation *)

\* pushfq
Pushfq(x) ==
    /\ At(x, "idle")
    /\ pushed' = [pushed EXCEPT ![x] = IF_flag[x[1]]]
    /\ before' = [before EXCEPT ![x] = IF_flag[x[1]]]
    /\ Goto(x, "cli")
    /\ UNCHANGED <<lock, rflags, IF_flag, irq>>

\* Mutants of Cli: IF stays, and the flags go into the lock before it is taken.
Cli_Open(x) ==
    /\ At(x, "cli")
    /\ Goto(x, "btsl")
    /\ UNCHANGED <<lock, rflags, IF_flag, irq, pushed, before>>

Cli_SavesEarly(x) ==
    /\ At(x, "cli")
    /\ IF_flag' = [IF_flag EXCEPT ![x[1]] = FALSE]
    /\ rflags' = pushed[x]
    /\ Goto(x, "btsl")
    /\ UNCHANGED <<lock, irq, pushed, before>>

\* cli
Cli(x) ==
    /\ At(x, "cli")
    /\ IF_flag' = [IF_flag EXCEPT ![x[1]] = FALSE]
    /\ Goto(x, "btsl")
    /\ UNCHANGED <<lock, rflags, irq, pushed, before>>

\* Mutants of BtslTaken: the old bit is not looked at; the bit is counted up.
BtslTaken_Blind(x) ==
    /\ At(x, "btsl")
    /\ lock' = 1
    /\ Goto(x, "pop")
    /\ UNCHANGED <<rflags, IF_flag, irq, pushed, before>>

BtslTaken_Counts(x) ==
    /\ At(x, "btsl")
    /\ lock' = lock + 1
    /\ Goto(x, "pop")
    /\ UNCHANGED <<rflags, IF_flag, irq, pushed, before>>

\* lock btsl, jnc 2f, and the one after the spin with jc 1b: test and set in
\* one step.
BtslTaken(x) ==
    /\ At(x, "btsl")
    /\ lock = 0
    /\ lock' = 1
    /\ Goto(x, "pop")
    /\ UNCHANGED <<rflags, IF_flag, irq, pushed, before>>

BtslBusy(x) ==
    /\ At(x, "btsl")
    /\ lock = 1
    /\ Goto(x, "spin")
    /\ UNCHANGED <<lock, rflags, IF_flag, irq, pushed, before>>

\* pause, btl, jc 1b: leaves the loop when it reads the bit as clear.
Spin(x) ==
    /\ At(x, "spin")
    /\ lock = 0
    /\ Goto(x, "btsl")
    /\ UNCHANGED <<lock, rflags, IF_flag, irq, pushed, before>>

\* pop into s->rflags
Pop(x) ==
    /\ At(x, "pop")
    /\ rflags' = pushed[x]
    /\ Goto(x, "critical")
    /\ UNCHANGED <<lock, IF_flag, irq, pushed, before>>

(* unlock_lock_implmentation *)

\* push s->rflags
Push(x) ==
    /\ At(x, "critical")
    /\ pushed' = [pushed EXCEPT ![x] = rflags]
    /\ Goto(x, "btrl")
    /\ UNCHANGED <<lock, rflags, IF_flag, irq, before>>

\* Mutant of Btrl: the bit stays set.
Btrl_Keeps(x) ==
    /\ At(x, "btrl")
    /\ Goto(x, "popfq")
    /\ UNCHANGED <<lock, rflags, IF_flag, irq, pushed, before>>

\* lock btrl
Btrl(x) ==
    /\ At(x, "btrl")
    /\ lock' = 0
    /\ Goto(x, "popfq")
    /\ UNCHANGED <<rflags, IF_flag, irq, pushed, before>>

\* popfq
Popfq(x) ==
    /\ At(x, "popfq")
    /\ IF_flag' = [IF_flag EXCEPT ![x[1]] = pushed[x]]
    /\ Goto(x, "idle")
    /\ UNCHANGED <<lock, rflags, irq, pushed, before>>

-----------------------------------------------------------------------------
(* The CPU around it *)

\* An interrupt comes through an interrupt gate, which clears IF.
Interrupt(c) ==
    /\ IF_flag[c]
    /\ ~irq[c]
    /\ irq' = [irq EXCEPT ![c] = TRUE]
    /\ IF_flag' = [IF_flag EXCEPT ![c] = FALSE]
    /\ UNCHANGED <<lock, rflags, pc, pushed, before>>

\* iretq restores the flags of the interrupted code, in which IF was set.
Iretq(c) ==
    /\ irq[c]
    /\ pc[<<c, "handler">>] = "idle"
    /\ irq' = [irq EXCEPT ![c] = FALSE]
    /\ IF_flag' = [IF_flag EXCEPT ![c] = TRUE]
    /\ UNCHANGED <<lock, rflags, pc, pushed, before>>

\* Main code outside the lock switches interrupts on and off (cli, sti).
Toggle(c) ==
    /\ At(<<c, "main">>, "idle")
    /\ IF_flag' = [IF_flag EXCEPT ![c] = ~IF_flag[c]]
    /\ UNCHANGED <<lock, rflags, irq, pc, pushed, before>>

Instruction(x) ==
    \/ Cli(x) \/ BtslTaken(x) \/ BtslBusy(x) \/ Spin(x) \/ Pop(x)
    \/ Push(x) \/ Btrl(x) \/ Popfq(x)

Next ==
    \/ \E x \in Contexts : Pushfq(x) \/ Instruction(x)
    \/ \E c \in CPUs : Interrupt(c) \/ Iretq(c) \/ Toggle(c)

Spec == Init /\ [][Next]_vars

\* A CPU executes the next instruction of what it runs, and a context that has
\* the lock leaves its critical section.  Interrupts and calls of lock may stop.
Fairness == \A x \in Contexts : WF_vars(Instruction(x))

FairSpec == Spec /\ Fairness

-----------------------------------------------------------------------------
(* Properties *)

Holding == {"pop", "critical", "btrl"}
Waiting == {"btsl", "spin"}
Steps   == {"idle", "cli", "popfq"} \cup Holding \cup Waiting

\* The variables have their types.
TypeOK ==
    /\ lock \in {0, 1}
    /\ rflags \in BOOLEAN
    /\ IF_flag \in [CPUs -> BOOLEAN]
    /\ irq \in [CPUs -> BOOLEAN]
    /\ pc \in [Contexts -> Steps]
    /\ pushed \in [Contexts -> BOOLEAN]
    /\ before \in [Contexts -> BOOLEAN]

\* "no other process is able to perform this operation while another already is":
\* one context at a time, of all CPUs and all handlers, is past the lock.
MutualExclusion ==
    \A x, y \in Contexts : pc[x] \in Holding /\ pc[y] \in Holding => x = y

\* unlock gives a context the IF flag it had when it called lock, although the
\* flags wait in a word of the lock that all contexts share.
FlagsRestored ==
    [][\A x \in Contexts :
          pc[x] = "popfq" /\ pc'[x] = "idle" => IF_flag'[x[1]] = before[x]]_vars

\* No handler runs on a CPU whose main code holds the lock or waits for it: a
\* handler that wanted the lock would spin for ever.
NoSelfDeadlock ==
    \A c \in CPUs : irq[c] => pc[<<c, "main">>] \notin Holding \cup Waiting

\* While somebody waits, somebody gets the lock again and again.
Progress ==
    (\E x \in Contexts : pc[x] \in Waiting) ~> (\E x \in Contexts : pc[x] = "critical")

=============================================================================
