----------------------------- MODULE Lock_proofs -----------------------------
(***************************************************************************)
(* Proofs about the hardware lock, for any number of CPUs.                 *)
(***************************************************************************)
EXTENDS Lock, TLAPS

\* The lock bit is set exactly while a context is between BTS and BTR.
LockBit == lock = 1 <=> \E x \in Contexts : pc[x] \in Holding

\* Where IF is clear: in a handler, and in main code from CLI to POPFQ.
MaskedAt(c) ==
    /\ irq[c] => IF_flag[c] = FALSE /\ pc[<<c, "main">>] \in {"idle", "cli"}
    /\ ~irq[c] => pc[<<c, "handler">>] = "idle"
    /\ pc[<<c, "main">>] \in Holding \cup Waiting \cup {"popfq"} => IF_flag[c] = FALSE
    /\ pc[<<c, "handler">>] # "idle" => before[<<c, "handler">>] = FALSE

Masked == \A c \in CPUs : MaskedAt(c)

\* Where the flags of a context are: on its stack, in the lock, on its stack.
FlagsKept ==
    \A x \in Contexts :
        /\ pc[x] \notin {"idle", "critical"} => pushed[x] = before[x]
        /\ pc[x] = "critical" => rflags = before[x]

IInv == TypeOK /\ MutualExclusion /\ LockBit /\ Masked /\ FlagsKept

\* A context is a CPU with one of two levels.
LEMMA ContextParts ==
    /\ \A x \in Contexts : x[1] \in CPUs /\ x[2] \in Levels /\ x = <<x[1], x[2]>>
    /\ \A c \in CPUs : <<c, "main">> \in Contexts /\ <<c, "handler">> \in Contexts
  BY DEF Contexts, Levels

\* All locks are free and all CPUs run their main code.
LEMMA InitIInv == Init => IInv
<1>. SUFFICES ASSUME Init PROVE IInv
  OBVIOUS
<1>1. TypeOK
  BY DEF Init, TypeOK, Steps
<1>2. \A x \in Contexts : pc[x] = "idle"
  BY DEF Init
<1>3. MutualExclusion /\ LockBit
  BY <1>2 DEF Init, MutualExclusion, LockBit, Holding
<1>4. Masked
  BY <1>2, ContextParts DEF Init, Masked, MaskedAt, Holding, Waiting
<1>5. FlagsKept
  BY <1>2 DEF FlagsKept
<1>. QED  BY <1>1, <1>3, <1>4, <1>5 DEF IInv

\* An instruction runs at the level its CPU runs at.
LEMMA RunningLevel ==
    ASSUME IInv, NEW x \in Contexts, Runs(x)
    PROVE  \/ x = <<x[1], "main">> /\ irq[x[1]] = FALSE
           \/ x = <<x[1], "handler">> /\ irq[x[1]] = TRUE
  BY ContextParts DEF IInv, TypeOK, Runs, Levels

\* The masks of the CPU that executes an instruction decide whether all hold.
LEMMA OneCpu ==
    ASSUME IInv, NEW x \in Contexts, Pushfq(x) \/ Instruction(x), MaskedAt(x[1])'
    PROVE  Masked'
<1>. SUFFICES ASSUME NEW c \in CPUs, c # x[1] PROVE MaskedAt(c)'
  BY DEF Masked
<1>1. \A l \in Levels : <<c, l>> \in Contexts /\ <<c, l>> # x
  BY ContextParts DEF Contexts
<1>2. /\ irq' = irq
      /\ IF_flag'[c] = IF_flag[c]
      /\ \A l \in Levels : pc'[<<c, l>>] = pc[<<c, l>>] /\ before'[<<c, l>>] = before[<<c, l>>]
  BY <1>1, ContextParts
  DEF IInv, TypeOK, Pushfq, Instruction, Cli, BtslTaken, BtslBusy, Spin, Pop, Push,
      Btrl, Popfq, Goto
<1>. QED  BY <1>2 DEF IInv, Masked, MaskedAt, Levels

\* What an action may do to the masks of its own CPU.
LEMMA OwnMask ==
    ASSUME IInv, NEW x \in Contexts, Pushfq(x) \/ Instruction(x)
    PROVE  MaskedAt(x[1])'
<1>. DEFINE c == x[1]
            m == <<c, "main">>
            h == <<c, "handler">>
<1>1. c \in CPUs /\ m \in Contexts /\ h \in Contexts /\ m # h
  BY ContextParts
<1>2. MaskedAt(c) /\ irq' = irq /\ Runs(x) /\ pc[x] \in Steps
  BY <1>1
  DEF IInv, TypeOK, Masked, Pushfq, Instruction, Cli, BtslTaken, BtslBusy, Spin, Pop,
      Push, Btrl, Popfq, At
<1>3. CASE x = m /\ irq[c] = FALSE
  <2>1. pc'[h] = "idle"
    BY <1>1, <1>2, <1>3
    DEF IInv, TypeOK, MaskedAt, Pushfq, Instruction, Cli, BtslTaken, BtslBusy, Spin,
        Pop, Push, Btrl, Popfq, Goto
  <2>2. pc'[m] \in Holding \cup Waiting \cup {"popfq"} => IF_flag'[c] = FALSE
    BY <1>1, <1>2, <1>3
    DEF IInv, TypeOK, MaskedAt, Pushfq, Instruction, Cli, BtslTaken, BtslBusy, Spin,
        Pop, Push, Btrl, Popfq, At, Goto, Holding, Waiting
  <2>. QED  BY <1>2, <1>3, <2>1, <2>2 DEF MaskedAt
<1>4. CASE x = h /\ irq[c] = TRUE
  <2>1. pc'[m] = pc[m]
    BY <1>1, <1>4
    DEF IInv, TypeOK, Pushfq, Instruction, Cli, BtslTaken, BtslBusy, Spin, Pop, Push,
        Btrl, Popfq, Goto
  <2>2. IF_flag[c] = FALSE
    BY <1>2, <1>4 DEF MaskedAt
  <2>3. pc'[h] # "idle" => before'[h] = FALSE
    BY <1>1, <1>2, <1>4, <2>2
    DEF IInv, TypeOK, MaskedAt, Pushfq, Instruction, Cli, BtslTaken, BtslBusy, Spin,
        Pop, Push, Btrl, Popfq, At, Goto
  <2>4. IF_flag'[c] = FALSE
    <3>1. CASE Popfq(x)
      <4>1. pushed[x] = before[x] /\ before[x] = FALSE
        BY <1>1, <1>2, <1>4, <3>1 DEF IInv, FlagsKept, MaskedAt, Popfq, At
      <4>. QED  BY <1>1, <3>1, <4>1 DEF Popfq, IInv, TypeOK
    <3>2. CASE ~Popfq(x)
      BY <1>1, <2>2, <3>2
      DEF IInv, TypeOK, Pushfq, Instruction, Cli, BtslTaken, BtslBusy, Spin, Pop, Push, Btrl
    <3>. QED  BY <3>1, <3>2
  <2>5. pc[m] \in {"idle", "cli"}
    BY <1>2, <1>4 DEF MaskedAt
  <2>. QED  BY <1>2, <1>4, <2>1, <2>3, <2>4, <2>5 DEF MaskedAt
<1>. QED  BY <1>2, <1>3, <1>4, RunningLevel

\* An instruction of lock or unlock keeps the invariant.
LEMMA CodeStep ==
    ASSUME IInv, NEW x \in Contexts, Pushfq(x) \/ Instruction(x)
    PROVE  IInv'
<1>. USE DEF IInv, TypeOK, At, Goto
<1>0. Masked'
  BY OneCpu, OwnMask
<1>1. CASE Pushfq(x)
  <2>1. TypeOK'
    BY <1>1, ContextParts DEF Pushfq, Steps
  <2>2. MutualExclusion' /\ LockBit'
    BY <1>1 DEF Pushfq, MutualExclusion, LockBit, Holding
  <2>3. FlagsKept'
    BY <1>1 DEF Pushfq, FlagsKept
  <2>. QED  BY <1>0, <2>1, <2>2, <2>3
<1>2. CASE Cli(x)
  <2>1. TypeOK'
    BY <1>2, ContextParts DEF Cli, Steps, Waiting
  <2>2. MutualExclusion' /\ LockBit'
    BY <1>2 DEF Cli, MutualExclusion, LockBit, Holding
  <2>3. FlagsKept'
    BY <1>2 DEF Cli, FlagsKept
  <2>. QED  BY <1>0, <2>1, <2>2, <2>3
<1>3. CASE BtslTaken(x)
  <2>1. TypeOK'
    BY <1>3 DEF BtslTaken, Steps, Holding
  <2>2. MutualExclusion' /\ LockBit'
    BY <1>3 DEF BtslTaken, MutualExclusion, LockBit, Holding
  <2>3. FlagsKept'
    BY <1>3 DEF BtslTaken, FlagsKept
  <2>. QED  BY <1>0, <2>1, <2>2, <2>3
<1>4. CASE BtslBusy(x)
  <2>1. TypeOK'
    BY <1>4 DEF BtslBusy, Steps, Waiting
  <2>2. MutualExclusion' /\ LockBit'
    BY <1>4 DEF BtslBusy, MutualExclusion, LockBit, Holding
  <2>3. FlagsKept'
    BY <1>4 DEF BtslBusy, FlagsKept
  <2>. QED  BY <1>0, <2>1, <2>2, <2>3
<1>5. CASE Spin(x)
  <2>1. TypeOK'
    BY <1>5 DEF Spin, Steps, Waiting
  <2>2. MutualExclusion' /\ LockBit'
    BY <1>5 DEF Spin, MutualExclusion, LockBit, Holding
  <2>3. FlagsKept'
    BY <1>5 DEF Spin, FlagsKept
  <2>. QED  BY <1>0, <2>1, <2>2, <2>3
<1>6. CASE Pop(x)
  <2>1. TypeOK'
    BY <1>6 DEF Pop, Steps, Holding
  <2>2. MutualExclusion' /\ LockBit'
    BY <1>6 DEF Pop, MutualExclusion, LockBit, Holding
  <2>3. FlagsKept'
    BY <1>6 DEF Pop, FlagsKept, MutualExclusion, Holding
  <2>. QED  BY <1>0, <2>1, <2>2, <2>3
<1>7. CASE Push(x)
  <2>1. TypeOK'
    BY <1>7 DEF Push, Steps, Holding
  <2>2. MutualExclusion' /\ LockBit'
    BY <1>7 DEF Push, MutualExclusion, LockBit, Holding
  <2>3. FlagsKept'
    BY <1>7 DEF Push, FlagsKept
  <2>. QED  BY <1>0, <2>1, <2>2, <2>3
<1>8. CASE Btrl(x)
  <2>1. TypeOK'
    BY <1>8 DEF Btrl, Steps
  <2>2. MutualExclusion' /\ LockBit'
    BY <1>8 DEF Btrl, MutualExclusion, LockBit, Holding
  <2>3. FlagsKept'
    BY <1>8 DEF Btrl, FlagsKept
  <2>. QED  BY <1>0, <2>1, <2>2, <2>3
<1>9. CASE Popfq(x)
  <2>1. TypeOK'
    BY <1>9, ContextParts DEF Popfq, Steps
  <2>2. MutualExclusion' /\ LockBit'
    BY <1>9 DEF Popfq, MutualExclusion, LockBit, Holding
  <2>3. FlagsKept'
    BY <1>9 DEF Popfq, FlagsKept
  <2>. QED  BY <1>0, <2>1, <2>2, <2>3
<1>. QED  BY <1>1, <1>2, <1>3, <1>4, <1>5, <1>6, <1>7, <1>8, <1>9 DEF Instruction

\* An interrupt, its return, and CLI or STI outside the lock keep it too.
LEMMA CpuStep ==
    ASSUME IInv, NEW c \in CPUs, Interrupt(c) \/ Iretq(c) \/ Toggle(c)
    PROVE  IInv'
<1>. USE ContextParts DEF IInv, TypeOK
<1>1. TypeOK' /\ UNCHANGED <<lock, rflags, pc, pushed, before>>
  BY DEF Interrupt, Iretq, Toggle
<1>2. MutualExclusion' /\ LockBit' /\ FlagsKept'
  BY <1>1 DEF MutualExclusion, LockBit, FlagsKept
<1>3. MaskedAt(c)'
  <2>1. CASE Interrupt(c)
    BY <2>1 DEF Interrupt, Masked, MaskedAt, Steps
  <2>2. CASE Iretq(c)
    BY <2>2 DEF Iretq, Masked, MaskedAt, Holding, Waiting
  <2>3. CASE Toggle(c)
    BY <2>3 DEF Toggle, Masked, MaskedAt, At, Runs, Holding, Waiting
  <2>. QED  BY <2>1, <2>2, <2>3
<1>4. ASSUME NEW d \in CPUs, d # c PROVE MaskedAt(d)'
  <2>1. irq'[d] = irq[d] /\ IF_flag'[d] = IF_flag[d]
    BY <1>4 DEF Interrupt, Iretq, Toggle
  <2>. QED  BY <1>1, <2>1 DEF Masked, MaskedAt
<1>5. Masked'
  BY <1>3, <1>4 DEF Masked
<1>. QED  BY <1>1, <1>2, <1>5

\* Every step keeps the invariant.
LEMMA NextIInv == IInv /\ [Next]_vars => IInv'
<1>1. ASSUME IInv, UNCHANGED vars PROVE IInv'
  BY <1>1 DEF IInv, TypeOK, MutualExclusion, LockBit, Masked, MaskedAt, FlagsKept, vars
<1>. QED  BY <1>1, CodeStep, CpuStep DEF Next

\* The variables of the lock keep their types.
THEOREM TypeCorrect == Spec => []TypeOK
<1>1. IInv => TypeOK
  BY DEF IInv
<1>. QED  BY <1>1, InitIInv, NextIInv, PTL DEF Spec

\* At most one context of all CPUs and handlers is between BTS and BTR.
THEOREM LockExcludes == Spec => []MutualExclusion
<1>1. IInv => MutualExclusion
  BY DEF IInv
<1>. QED  BY <1>1, InitIInv, NextIInv, PTL DEF Spec

\* No handler runs over main code that holds the lock or spins on it.
THEOREM HandlersNeverSpinOnTheirOwnCpu == Spec => []NoSelfDeadlock
<1>1. IInv => NoSelfDeadlock
  BY DEF IInv, Masked, MaskedAt, NoSelfDeadlock, Holding, Waiting
<1>. QED  BY <1>1, InitIInv, NextIInv, PTL DEF Spec

\* unlock leaves IF as it was when the context called lock.
THEOREM UnlockRestoresFlags == Spec => FlagsRestored
<1>. DEFINE Restores ==
       \A x \in Contexts : pc[x] = "popfq" /\ pc'[x] = "idle" => IF_flag'[x[1]] = before[x]
<1>1. ASSUME IInv, [Next]_vars PROVE [Restores]_vars
  <2>1. CASE UNCHANGED vars
    BY <2>1
  <2>2. ASSUME NEW c \in CPUs, Interrupt(c) \/ Iretq(c) \/ Toggle(c) PROVE Restores
    BY <2>2 DEF Interrupt, Iretq, Toggle
  <2>3. ASSUME NEW y \in Contexts, Pushfq(y) \/ Instruction(y) PROVE Restores
    <3>. SUFFICES ASSUME NEW x \in Contexts, pc[x] = "popfq", pc'[x] = "idle"
                  PROVE  IF_flag'[x[1]] = before[x]
      OBVIOUS
    <3>1. x = y /\ Popfq(y)
      BY <1>1, <2>3
      DEF IInv, TypeOK, Pushfq, Instruction, Cli, BtslTaken, BtslBusy, Spin, Pop, Push,
          Btrl, Popfq, At, Goto
    <3>2. pushed[x] = before[x]
      BY <1>1 DEF IInv, FlagsKept
    <3>. QED  BY <1>1, <3>1, <3>2, ContextParts DEF Popfq, IInv, TypeOK
  <2>. QED  BY <1>1, <2>1, <2>2, <2>3 DEF Next
<1>. QED  BY <1>1, InitIInv, NextIInv, PTL DEF Spec, FlagsRestored

=============================================================================
