-------------------------- MODULE InterruptsProofs --------------------------
(***************************************************************************)
(* Theorems about Interrupts, for any nesting of programs, handlers and    *)
(* system calls, and for the lines that the kernel enables: 1 and 8.       *)
(***************************************************************************)
EXTENDS Interrupts, SequenceTheorems, TLAPS

(* What a step that pushes, replaces or pops frames leaves of the stack.   *)
LEMMA PushFacts ==
    ASSUME TypeOK, NEW f \in Frame, stack' = Push(f)
    PROVE  /\ stack' \in Seq(Frame)
           /\ Len(stack) \in Nat /\ Len(stack') = Len(stack) + 1
           /\ \A k \in 1 .. Len(stack) : stack'[k] = stack[k]
           /\ stack'[Len(stack) + 1] = f
           /\ stack' # <<>>
  BY DEF TypeOK, Push

LEMMA PopFacts ==
    ASSUME TypeOK, NEW m \in Nat, m < Len(stack), stack' = Popped(m)
    PROVE  /\ stack' \in Seq(Frame)
           /\ Len(stack) \in Nat /\ Len(stack') = Len(stack) - m
           /\ \A k \in 1 .. Len(stack) - m : stack'[k] = stack[k]
           /\ stack' # <<>>
  <1>1. stack \in Seq(Frame) /\ Len(stack) \in Nat
    BY DEF TypeOK
  <1>2. PICK n \in Nat : n = Len(stack) - m /\ n >= 1
    BY <1>1
  <1>3. \A k \in 1 .. n : stack[k] \in Frame
    BY <1>1, <1>2, ElementOfSeq
  <1>4. /\ stack' \in Seq(Frame)
        /\ Len(stack') = IF 1 <= n THEN n - 1 + 1 ELSE 0
        /\ \A k \in 1 .. n - 1 + 1 : stack'[k] = stack[1 + k - 1]
    BY <1>2, <1>3, SubSeqProperties DEF Popped
  <1>5. Len(stack') = n /\ \A k \in 1 .. n : stack'[k] = stack[k]
    BY <1>2, <1>4
  <1>6. stack' # <<>>
    BY <1>2, <1>5
  <1>. QED  BY <1>1, <1>2, <1>4, <1>5, <1>6

(* The innermost frame, and the one below it.                              *)
LEMMA TopFacts ==
    ASSUME Inv, stack # <<>>
    PROVE  /\ stack \in Seq(Frame) /\ Len(stack) \in Nat \ {0}
           /\ Top \in Frame
           /\ Len(stack) > 1 => /\ stack[Len(stack) - 1] \in Under(Top)
                                /\ stack[Len(stack) - 1] \in Frame
           /\ Top # "user" => Len(stack) > 1
           /\ intr = IntrOf(Top)
  <1>1. stack \in Seq(Frame) /\ Len(stack) \in Nat \ {0}
    BY DEF Inv, TypeOK
  <1>2. \A k \in 1 .. Len(stack) : stack[k] \in Frame
    BY <1>1, ElementOfSeq
  <1>3. Len(stack) > 1 => stack[Len(stack) - 1] \in Under(stack[Len(stack) - 1 + 1])
    BY <1>1 DEF Inv, Stacked
  <1>4. Top # "user" => Len(stack) > 1
    BY <1>1 DEF Top, Inv, Stacked
  <1>. QED  BY <1>1, <1>2, <1>3, <1>4 DEF Top, Inv, InService

(* A frame that may lie on the innermost one is pushed.                    *)
LEMMA PushInv ==
    ASSUME Inv, NEW f \in Frame, stack' = Push(f),
           IF stack = <<>> THEN f = "user" ELSE Top \in Under(f),
           intr' = IntrOf(f),
           isr' = {} \/ (f = "kbd" /\ isr' = {1}) \/ (f = "rtc" /\ isr' = {8, CASCADE})
    PROVE  /\ stack' \in Seq(Frame)
           /\ Stacked' /\ InService'
  <1>1. /\ stack' \in Seq(Frame)
        /\ Len(stack) \in Nat /\ Len(stack') = Len(stack) + 1
        /\ \A k \in 1 .. Len(stack) : stack'[k] = stack[k]
        /\ stack'[Len(stack) + 1] = f
        /\ stack' # <<>>
    BY PushFacts DEF Inv
  <1>2. Top' = f
    BY <1>1 DEF Top
  <1>3. stack = <<>> \/ Len(stack) >= 1
    BY <1>1 DEF Inv, TypeOK
  <1>4. stack'[1] = "user"
    BY <1>1, <1>3 DEF Inv, Stacked
  <1>5. ASSUME NEW k \in 1 .. Len(stack') - 1
        PROVE  stack'[k] \in Under(stack'[k + 1])
    <2>1. CASE k = Len(stack)
      BY <1>1, <2>1 DEF Top
    <2>2. CASE k # Len(stack)
      <3>1. k \in 1 .. Len(stack) - 1 /\ k + 1 \in 1 .. Len(stack) /\ k \in 1 .. Len(stack)
        BY <1>1, <2>2
      <3>. QED  BY <1>1, <3>1 DEF Inv, Stacked
    <2>. QED  BY <2>1, <2>2
  <1>6. Stacked'
    BY <1>4, <1>5 DEF Stacked
  <1>7. InService'
    BY <1>1, <1>2 DEF InService
  <1>. QED  BY <1>1, <1>6, <1>7

(* Frames are popped down to one of a program or of kernel code.           *)
LEMMA PopInv ==
    ASSUME Inv, NEW m \in Nat, m < Len(stack), ReturnTo(m), isr' = {}
    PROVE  /\ stack' \in Seq(Frame)
           /\ Stacked' /\ InService'
  <1>1. /\ stack' \in Seq(Frame)
        /\ Len(stack) \in Nat /\ Len(stack') = Len(stack) - m
        /\ \A k \in 1 .. Len(stack) - m : stack'[k] = stack[k]
        /\ stack' # <<>>
    BY PopFacts DEF Inv, ReturnTo
  <1>2. stack # <<>>
    BY <1>1
  <1>3. Stacked'
    <2>1. stack'[1] = "user"
      BY <1>1, <1>2 DEF Inv, Stacked
    <2>2. ASSUME NEW k \in 1 .. Len(stack') - 1
          PROVE  stack'[k] \in Under(stack'[k + 1])
      <3>1. k \in 1 .. Len(stack) - 1 /\ k \in 1 .. Len(stack) - m /\ k + 1 \in 1 .. Len(stack) - m
        BY <1>1
      <3>. QED  BY <1>1, <3>1 DEF Inv, Stacked
    <2>. QED  BY <2>1, <2>2 DEF Stacked
  <1>4. InService'
    <2>1. Top' = stack[Len(stack) - m]
      BY <1>1 DEF Top
    <2>. QED  BY <1>1, <2>1 DEF InService, ReturnTo
  <1>. QED  BY <1>1, <1>3, <1>4

----------------------------------------------------------------------------
(* Inv is inductive: one step per action.                                  *)
LEMMA NextInv ==
    ASSUME Drivers \subseteq {1, 8}, Inv, [Next]_vars
    PROVE  Inv'
  <1>. DEFINE Rest == /\ master_mask \subseteq Master /\ slave_mask \subseteq Slave
                      /\ imr \subseteq 0 .. 15 /\ irr \subseteq Drivers
                      /\ todo \subseteq Drivers
  <1>1. Rest
    BY DEF Inv, TypeOK
  <1>2. ASSUME stack' \in Seq(Frame), Stacked', InService', Rest'
        PROVE  Inv'
    <2>1. intr' \in {0, 1} /\ isr' \subseteq 0 .. 15
      BY <1>2 DEF InService, IntrOf, CASCADE
    <2>. QED  BY <1>2, <2>1 DEF Inv, TypeOK
  <1>3. CASE UNCHANGED vars
    BY <1>3 DEF vars, picVars, Inv, TypeOK, Stacked, InService, Top
  <1>4. ASSUME NEW n \in Drivers, enable_irq(n)
        PROVE  Inv'
    <2>1. UNCHANGED <<irr, isr, intr, stack>> /\ todo' \subseteq Drivers
      BY <1>1, <1>4 DEF enable_irq
    <2>2. /\ master_mask' \subseteq Master /\ slave_mask' \subseteq Slave
          /\ imr' \subseteq 0 .. 15
      <3>. DEFINE Above == {k \in slave_mask : k > n}
      <3>1. Master \subseteq 0 .. 15 /\ Slave \subseteq 0 .. 15 /\ Above \subseteq slave_mask
        BY DEF Master, Slave
      <3>2. CASE n \in Slave
        <4>1. /\ master_mask' = master_mask \ {CASCADE} /\ slave_mask' = slave_mask \ {n}
              /\ imr' = master_mask' \cup Above
          BY <1>4, <3>2 DEF enable_irq, EnableSlave
        <4>. QED  BY <1>1, <3>1, <4>1, Zenon
      <3>3. CASE n \notin Slave
        <4>1. /\ master_mask' = master_mask \ {n} /\ slave_mask' = slave_mask
              /\ imr' = master_mask' \cup (imr \cap Slave)
          BY <1>4, <3>3 DEF enable_irq, EnableMaster
        <4>. QED  BY <1>1, <3>1, <4>1, Zenon
      <3>. QED  BY <3>2, <3>3
    <2>3. stack' \in Seq(Frame) /\ Stacked' /\ InService'
      BY <2>1 DEF Inv, TypeOK, Stacked, InService, Top
    <2>. QED  BY <1>1, <1>2, <2>1, <2>2, <2>3
  <1>5. CASE Start
    <2>1. stack' = Push("user") /\ stack = <<>> /\ intr' = IntrOf("user") /\ "user" \in Frame
      BY <1>5 DEF Start, Push, IntrOf, Frame
    <2>2. isr' = {}
      BY <1>5 DEF Start, Inv, InService
    <2>3. stack' \in Seq(Frame) /\ Stacked' /\ InService'
      BY <2>1, <2>2, PushInv
    <2>. QED  BY <1>1, <1>2, <1>5, <2>3 DEF Start, picVars
  <1>6. ASSUME NEW n \in Drivers, Raise(n)
        PROVE  Inv'
    <2>1. stack' \in Seq(Frame) /\ Stacked' /\ InService'
      BY <1>6 DEF Raise, Inv, TypeOK, Stacked, InService, Top
    <2>. QED  BY <1>1, <1>2, <1>6, <2>1 DEF Raise, picVars
  <1>7. ASSUME NEW n \in Drivers, Deliver(n)
        PROVE  Inv'
    <2>1. stack # <<>> /\ stack' = Push(Gate(n)) /\ intr' = 0
      BY <1>7 DEF Deliver, IntrGate
    <2>2. Top \in {"user", "reading"} /\ isr = {}
      BY <1>7, <2>1, TopFacts DEF Deliver, IntrOf, Inv, InService
    <2>3. /\ Gate(n) \in {"kbd", "rtc"} /\ Gate(n) \in Frame
          /\ Top \in Under(Gate(n)) /\ intr' = IntrOf(Gate(n))
      BY <2>1, <2>2 DEF Gate, Under, Frame, IntrOf
    <2>4. (Gate(n) = "kbd" /\ isr' = {1}) \/ (Gate(n) = "rtc" /\ isr' = {8, CASCADE})
      BY <1>7, <2>2 DEF Deliver, Gate, Slave
    <2>5. stack' \in Seq(Frame) /\ Stacked' /\ InService'
      BY <2>1, <2>3, <2>4, PushInv
    <2>. QED  BY <1>1, <1>2, <1>7, <2>5 DEF Deliver, picVars
  <1>8. ASSUME NEW f \in {"rtc", "kbd"}, NEW n \in {1, 8}, (f = "rtc") <=> (n = 8),
               stack # <<>>, HandlerReturns(f, n)
        PROVE  Inv'
    <2>1. Len(stack) \in Nat /\ Len(stack) > 1
      BY <1>8, TopFacts DEF HandlerReturns
    <2>2. isr' = {}
      BY <1>8 DEF HandlerReturns, Inv, InService, Eoi, Slave, CASCADE
    <2>3. stack' \in Seq(Frame) /\ Stacked' /\ InService'
      BY <1>8, <2>1, <2>2, PopInv DEF HandlerReturns
    <2>. QED  BY <1>1, <1>2, <1>8, <2>3 DEF HandlerReturns, picVars
  <1>9. CASE KbdStartsShell
    <2>1. stack # <<>> /\ Top = "kbd" /\ stack' = Push("user") /\ intr' = IntrOf("user") /\ "user" \in Frame
      BY <1>9 DEF KbdStartsShell, IntrOf, Frame
    <2>2. isr' = {} /\ Top \in Under("user")
      BY <1>9, <2>1 DEF KbdStartsShell, Inv, InService, Eoi, Slave, Under
    <2>3. stack' \in Seq(Frame) /\ Stacked' /\ InService'
      BY <2>1, <2>2, PushInv
    <2>. QED  BY <1>1, <1>2, <1>9, <2>3 DEF KbdStartsShell, picVars
  <1>10. ASSUME stack # <<>>, Top \in {"user", "syscall"}, UNCHANGED <<picVars, irr, isr, todo>>,
                NEW f \in Frame, stack' = Push(f), intr' = IntrOf(f),
                f \notin {"kbd", "rtc"}, (f = "user") <=> (Top = "syscall")
         PROVE  Inv'
    <2>1. isr' = {} /\ Top \in Under(f)
      BY <1>10 DEF Inv, InService, Under
    <2>2. stack' \in Seq(Frame) /\ Stacked' /\ InService'
      BY <1>10, <2>1, PushInv
    <2>. QED  BY <1>1, <1>2, <1>10, <2>2 DEF picVars
  <1>11. ASSUME NEW eax \in Calls, Syscall(eax) \/ SyscallRefused(eax)
         PROVE  Inv'
    BY <1>3, <1>10, <1>11 DEF Syscall, SyscallRefused, Frame, IntrOf
  <1>12. CASE Execute
    BY <1>10, <1>12 DEF Execute, Frame, IntrOf
  <1>13. ASSUME NEW v, Exception(v)
         PROVE  Inv'
    BY <1>10, <1>13 DEF Exception, Frame, IntrOf
  <1>14. CASE Sti
    <2>1. /\ stack \in Seq(Frame) /\ Len(stack) \in Nat \ {0} /\ Top = "syscall"
          /\ stack' = [stack EXCEPT ![Len(stack)] = "reading"]
          /\ isr' = {} /\ intr' = 1
      BY <1>14, TopFacts DEF Sti, Inv, InService
    <2>2. /\ stack' \in Seq(Frame) /\ Len(stack') = Len(stack) /\ stack' # <<>>
          /\ \A k \in 1 .. Len(stack) - 1 : stack'[k] = stack[k]
          /\ stack'[Len(stack)] = "reading"
      BY <2>1 DEF Frame
    <2>3. Len(stack) \in Nat /\ Len(stack) > 1 /\ stack[Len(stack) - 1] = "user"
      BY <1>14, <2>1, TopFacts DEF Sti, Under
    <2>4. Stacked'
      <3>1. stack'[1] = "user"
        BY <2>2, <2>3 DEF Inv, Stacked
      <3>2. ASSUME NEW k \in 1 .. Len(stack') - 1
            PROVE  stack'[k] \in Under(stack'[k + 1])
        <4>1. CASE k = Len(stack) - 1
          BY <2>2, <2>3, <4>1 DEF Under
        <4>2. CASE k # Len(stack) - 1
          <5>1. k \in 1 .. Len(stack) - 1 /\ k + 1 \in 1 .. Len(stack) - 1
            BY <2>2, <2>3, <4>2
          <5>. QED  BY <2>2, <5>1 DEF Inv, Stacked
        <4>. QED  BY <4>1, <4>2
      <3>. QED  BY <3>1, <3>2 DEF Stacked
    <2>5. InService'
      BY <2>1, <2>2 DEF InService, Top, IntrOf
    <2>. QED  BY <1>1, <1>2, <1>14, <2>2, <2>4, <2>5 DEF Sti, picVars
  <1>15. CASE SyscallReturns
    <2>1. Len(stack) \in Nat /\ Len(stack) > 1 /\ isr' = {} /\ ReturnTo(1)
      BY <1>15, TopFacts DEF SyscallReturns, Inv, InService
    <2>2. stack' \in Seq(Frame) /\ Stacked' /\ InService'
      BY <2>1, PopInv
    <2>. QED  BY <1>1, <1>2, <1>15, <2>2 DEF SyscallReturns, picVars
  <1>16. CASE Halt
    <2>1. Len(stack) \in Nat /\ 2 < Len(stack) /\ isr' = {} /\ ReturnTo(2)
      BY <1>16, TopFacts DEF Halt, Inv, InService
    <2>2. stack' \in Seq(Frame) /\ Stacked' /\ InService'
      BY <2>1, PopInv
    <2>. QED  BY <1>1, <1>2, <1>16, <2>2 DEF Halt, picVars
  <1>17. CASE RtcHandler \/ KbdHandler
    BY <1>8, <1>17 DEF RtcHandler, KbdHandler
  <1>. QED
    BY <1>3, <1>4, <1>5, <1>6, <1>7, <1>9, <1>11, <1>12, <1>13, <1>14, <1>15, <1>16, <1>17 DEF Next

LEMMA InitInv == Init => Inv
  BY DEF Init, Inv, TypeOK, Stacked, InService, Master, Slave, CASCADE, Frame

(* However programs, keys and ticks nest: frames lie on one another as     *)
(* the gates of idt.c, execute() and display_switch put them there, and    *)
(* the controllers have in service what the innermost handler serves.      *)
THEOREM InterruptInvariant ==
    ASSUME Drivers \subseteq {1, 8}
    PROVE  Spec => []Inv
  <1>1. Inv /\ [Next]_vars => Inv'
    BY NextInv
  <1>. QED  BY InitInv, <1>1, PTL DEF Spec

(* send_eoi before user code: no program ever runs with a line blocked.    *)
THEOREM AlwaysAcknowledged ==
    ASSUME Drivers \subseteq {1, 8}
    PROVE  Spec => []Acknowledged
  <1>1. Inv => Acknowledged
    BY DEF Inv, InService, Acknowledged
  <1>. QED  BY <1>1, InterruptInvariant, PTL

(* Interrupt gates: no handler of a device interrupts another.             *)
THEOREM HandlersNeverNest ==
    ASSUME Drivers \subseteq {1, 8}
    PROVE  Spec => []HandlersDontNest
  <1>1. ASSUME Inv
        PROVE  HandlersDontNest
    <2>1. SUFFICES ASSUME NEW k \in 1 .. Len(stack) - 1
                   PROVE  stack[k] # "rtc" /\ (stack[k] = "kbd" => stack[k + 1] = "user")
      BY DEF HandlersDontNest
    <2>2. stack[k] \in Under(stack[k + 1])
      BY <1>1 DEF Inv, Stacked
    <2>. QED  BY <2>2 DEF Under
  <1>. QED  BY <1>1, InterruptInvariant, PTL

----------------------------------------------------------------------------
(* The masks.  What makes (~1 << (irq_num - 8)) exact is that no line of   *)
(* the slave lies below the clock's, and that no driver owns the cascade.  *)
LEMMA MaskStep ==
    ASSUME Drivers \subseteq {1, 8}, Inv, MaskIsExact, [Next]_vars
    PROVE  MaskIsExact'
  <1>1. /\ master_mask \subseteq Master /\ slave_mask \subseteq Slave
        /\ imr = master_mask \cup slave_mask /\ todo \subseteq imr
        /\ todo \subseteq Drivers /\ CASCADE \notin Drivers
        /\ Master \cap Slave = {}
    BY DEF Inv, TypeOK, MaskIsExact, CASCADE, Master, Slave
  <1>2. ASSUME NEW n \in Drivers, enable_irq(n)
        PROVE  MaskIsExact'
    <2>1. CASE n \in Slave
      <3>1. /\ master_mask' = master_mask \ {CASCADE} /\ slave_mask' = slave_mask \ {n}
            /\ imr' = master_mask' \cup {k \in slave_mask : k > n}
            /\ todo' = todo \ {n}
        BY <1>2, <2>1 DEF enable_irq, EnableSlave
      <3>2. n = 8
        BY <2>1 DEF Slave
      <3>3. ASSUME NEW k \in slave_mask
            PROVE  k > n <=> k # n
        BY <1>1, <3>2 DEF Slave
      <3>4. {k \in slave_mask : k > n} = slave_mask \ {n}
        BY <3>3
      <3>. QED  BY <1>1, <3>1, <3>4 DEF MaskIsExact
    <2>2. CASE n \notin Slave
      <3>1. /\ master_mask' = master_mask \ {n} /\ slave_mask' = slave_mask
            /\ imr' = master_mask' \cup (imr \cap Slave)
            /\ todo' = todo \ {n}
        BY <1>2, <2>2 DEF enable_irq, EnableMaster
      <3>. QED  BY <1>1, <3>1 DEF MaskIsExact
    <2>. QED  BY <2>1, <2>2
  <1>3. CASE UNCHANGED <<picVars, todo>>
    BY <1>3 DEF MaskIsExact, picVars
  <1>. QED
    BY <1>2, <1>3 DEF Next, vars, Start, Raise, Deliver, RtcHandler, KbdHandler,
       HandlerReturns, KbdStartsShell, Syscall, SyscallRefused, Sti, SyscallReturns,
       Execute, Halt, Exception

(* enable_irq unmasks its line and no other, in either order of the        *)
(* drivers: the controllers hold what the kernel's copies say.             *)
THEOREM MaskAlwaysExact ==
    ASSUME Drivers \subseteq {1, 8}
    PROVE  Spec => []MaskIsExact
  <1>1. Init => MaskIsExact
    BY DEF Init, MaskIsExact, Master, Slave, CASCADE
  <1>2. Inv /\ MaskIsExact /\ [Next]_vars => MaskIsExact'
    BY MaskStep
  <1>. QED  BY <1>1, <1>2, InterruptInvariant, PTL DEF Spec
=============================================================================
