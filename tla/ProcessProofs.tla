--------------------------- MODULE ProcessProofs ---------------------------
(***************************************************************************)
(* Theorems about Process and ProcessHistory, for every number of PCBs up  *)
(* to eight, every number of terminals and of slots, and every set of      *)
(* commands.                                                               *)
(***************************************************************************)
EXTENDS ProcessHistory, SequenceTheorems, TLAPS

SlotList == [Slot -> Proc \cup {None}]

(* The slots execute() leaves are well typed, and the first is a process.  *)
LEMMA EnteredType ==
    ASSUME TypeOK, NEW procs \in [Term -> SlotList], NEW at \in Term, NEW p \in Proc
    PROVE  /\ Entered(procs, at, p) \in SlotList
           /\ Entered(procs, at, p)[0] \in Proc
  <1>1. 0 \in Slot
    BY SizesAssumption DEF Slot
  <1>2. procs[at] \in SlotList
    OBVIOUS
  <1>3. ASSUME NEW f \in SlotList
        PROVE  Occupy(f, p) \in SlotList /\ Occupy(f, p)[0] \in Proc
    <2>1. Occupy(f, p) \in SlotList
      BY DEF Occupy, SlotList
    <2>2. CASE f[0] = None
      <3>1. \A j \in Slot : ~(j < 0)
        BY SizesAssumption DEF Slot
      <3>. QED  BY <1>1, <2>1, <2>2, <3>1 DEF Occupy
    <2>3. CASE f[0] # None
      BY <1>1, <2>1, <2>3 DEF Occupy, SlotList
    <2>. QED  BY <2>1, <2>2, <2>3
  <1>. QED  BY <1>1, <1>2, <1>3 DEF Entered, SlotList

(* halt() empties slots and nothing else.                                  *)
LEMMA VacateType ==
    ASSUME NEW f \in SlotList, NEW p \in Proc
    PROVE  Vacate(f, p) \in SlotList
  BY DEF Vacate, SlotList

(* page_switch always switches: a pid is below eight.                      *)
LEMMA PageSwitchId ==
    ASSUME NEW p \in Proc
    PROVE  PageSwitch(p) = p
  BY SizesAssumption DEF PageSwitch, Proc

LEMMA InitInv == Init => Inv
  <1>. SUFFICES ASSUME Init PROVE Inv
    OBVIOUS
  <1>. USE SizesAssumption
  <1>1. 0 \in Proc /\ 0 \in Term
    BY DEF Proc, Term
  <1>2. TypeOK
    BY <1>1 DEF Init, TypeOK, Frame, Program
  <1>3. ~Alive /\ ~Running /\ mode # "unwind" /\ BootState
    BY DEF Init, Alive, Running, BootState
  <1>. QED
    BY <1>2, <1>3 DEF Inv, ReturnPath, StackTaken, OwnTask, Rooted, LinksDown, LinksStop, NoGap, HaltPid

(* The suspended executes are well typed.                                  *)
LEMMA CallersType ==
    ASSUME TypeOK
    PROVE  /\ Len(callers) \in Nat
           /\ \A i \in 1 .. Len(callers) :
                 /\ callers[i] \in [proc : Proc, frame : Frame]
                 /\ callers[i].proc \in Proc
                 /\ callers[i].frame \in Frame
  <1>1. callers \in Seq([proc : Proc, frame : Frame])
    BY DEF TypeOK
  <1>2. \A i \in 1 .. Len(callers) : callers[i] \in [proc : Proc, frame : Frame]
    BY <1>1, ElementOfSeq
  <1>. QED  BY <1>1, <1>2

(* What pushing a suspended execute does to callers.                       *)
LEMMA SuspendFacts ==
    ASSUME TypeOK, NEW frame \in Frame, Suspend(frame)
    PROVE  /\ callers' \in Seq([proc : Proc, frame : Frame])
           /\ Len(callers) \in Nat
           /\ Len(callers') = Len(callers) + 1
           /\ \A i \in 1 .. Len(callers) : callers'[i] = callers[i]
           /\ callers'[Len(callers) + 1] = [proc |-> cur, frame |-> frame]
  BY DEF TypeOK, Suspend

(* What removing the last element of a sequence leaves.                    *)
LEMMA FrontFacts ==
    ASSUME NEW S, NEW s \in Seq(S), s # <<>>
    PROVE  /\ SubSeq(s, 1, Len(s) - 1) \in Seq(S)
           /\ Len(s) \in Nat \ {0}
           /\ Len(SubSeq(s, 1, Len(s) - 1)) = Len(s) - 1
           /\ \A i \in 1 .. Len(s) - 1 : SubSeq(s, 1, Len(s) - 1)[i] = s[i]
  <1>. DEFINE t == SubSeq(s, 1, Len(s) - 1)
  <1>1. Len(s) \in Nat \ {0}
    OBVIOUS
  <1>2. \A i \in 1 .. Len(s) - 1 : s[i] \in S
    BY <1>1, ElementOfSeq
  <1>3. PICK m \in Nat : m = Len(s) - 1
    BY <1>1
  <1>4. /\ t \in Seq(S)
        /\ Len(t) = IF 1 <= m THEN m - 1 + 1 ELSE 0
        /\ \A i \in 1 .. m - 1 + 1 : t[i] = s[1 + i - 1]
    BY <1>2, <1>3, SubSeqProperties
  <1>. HIDE DEF t
  <1>5. m - 1 + 1 = m /\ \A i \in 1 .. m : 1 + i - 1 = i
    OBVIOUS
  <1>6. Len(t) = m /\ \A i \in 1 .. m : t[i] = s[i]
    <2>1. CASE m = 0
      BY <1>4, <2>1
    <2>2. CASE 1 <= m
      BY <1>4, <1>5, <2>2
    <2>. QED  BY <2>1, <2>2
  <1>7. t \in Seq(S) /\ Len(t) = Len(s) - 1 /\ \A i \in 1 .. Len(s) - 1 : t[i] = s[i]
    BY <1>3, <1>4, <1>6
  <1>. QED  BY <1>1, <1>7 DEF t

(* What popping a suspended execute does to callers.                       *)
LEMMA PopFacts ==
    ASSUME TypeOK, callers # <<>>, callers' = SubSeq(callers, 1, Len(callers) - 1)
    PROVE  /\ callers' \in Seq([proc : Proc, frame : Frame])
           /\ Len(callers) \in Nat \ {0}
           /\ Len(callers') = Len(callers) - 1
           /\ \A i \in 1 .. Len(callers') : callers'[i] = callers[i]
  <1>1. callers \in Seq([proc : Proc, frame : Frame])
    BY DEF TypeOK
  <1>2. /\ callers' \in Seq([proc : Proc, frame : Frame])
        /\ Len(callers) \in Nat \ {0}
        /\ Len(callers') = Len(callers) - 1
        /\ \A i \in 1 .. Len(callers) - 1 : callers'[i] = callers[i]
    BY <1>1, FrontFacts, Zenon
  <1>. QED  BY <1>2

(* Types are kept by the two ways a handler ends.                          *)
LEMMA LaunchType ==
    ASSUME TypeOK,
           NEW p \in Proc, NEW prog \in Program, NEW frame \in Frame,
           NEW procs \in [Term -> SlotList], NEW shells \in [Term -> Proc \cup {None}],
           NEW at \in Term, Launch(p, prog, frame, procs, shells, at),
           callers' \in Seq([proc : Proc, frame : Frame])
    PROVE  TypeOK'
  <1>1. /\ Entered(procs, at, p) \in SlotList
        /\ Entered(procs, at, p)[0] \in Proc
    BY EnteredType
  <1>2. PageSwitch(p) = p
    BY PageSwitchId
  <1>3. 0 \in Proc
    BY SizesAssumption DEF Proc
  <1>4. pid' \in [Proc -> Proc]
    BY <1>1 DEF Launch, TypeOK
  <1>5. processes' \in [Term -> [Slot -> Proc \cup {None}]]
    BY <1>1 DEF Launch, TypeOK, SlotList
  <1>6. terminal_shell' \in [Term -> Proc \cup {None}]
    BY <1>3 DEF Launch, TypeOK
  <1>7. /\ pcb_state' \in [Proc -> {0, 1}]
        /\ parent' \in [Proc -> Proc \cup {None}]
        /\ kbp' \in [Proc -> Frame]
        /\ image' \in [Proc -> Program \cup {"none"}]
        /\ terminal_flag' \in [Term -> {0, 1}]
    BY DEF Launch, TypeOK
  <1>8. /\ active_terminal' \in Term
        /\ running_terminal' \in Term
        /\ page' \in Proc \cup {None}
        /\ esp0' \in Proc
        /\ cur' \in Proc
        /\ mode' = "user"
    BY <1>2 DEF Launch, TypeOK
  <1>. QED  BY <1>4, <1>5, <1>6, <1>7, <1>8 DEF TypeOK

LEMMA LeaveType ==
    ASSUME TypeOK, parent[cur] # None,
           NEW procs \in [Term -> SlotList], NEW shells \in [Term -> Proc \cup {None}],
           Leave(procs, shells)
    PROVE  TypeOK'
  <1>1. parent[cur] \in Proc /\ pid[cur] \in Proc /\ pid[parent[cur]] \in Proc
    BY DEF TypeOK
  <1>2. PageSwitch(pid[parent[cur]]) = pid[parent[cur]]
    BY <1>1, PageSwitchId
  <1>3. callers' \in Seq([proc : Proc, frame : Frame])
    <2>1. CASE ReturnIsSound
      BY <2>1, PopFacts DEF Leave, Freed, KernelStack, ReturnIsSound
    <2>2. CASE ~ReturnIsSound
      BY <2>2 DEF Leave, Freed, KernelStack, TypeOK
    <2>. QED  BY <2>1, <2>2
  <1>4. /\ pcb_state' \in [Proc -> {0, 1}]
        /\ page' \in Proc \cup {None}
        /\ esp0' \in Proc
        /\ cur' \in Proc
        /\ mode' \in {"boot", "user", "unwind", "lost", "astray"}
    BY <1>1, <1>2 DEF Leave, Freed, KernelStack, TypeOK
  <1>5. /\ processes' \in [Term -> [Slot -> Proc \cup {None}]]
        /\ terminal_shell' \in [Term -> Proc \cup {None}]
        /\ UNCHANGED <<pid, parent, kbp, image, terminal_flag, active_terminal, running_terminal>>
    BY DEF Leave, Freed, KernelStack, SlotList
  <1>. QED  BY <1>3, <1>4, <1>5 DEF TypeOK

----------------------------------------------------------------------------
(* Starting a process on top of the running one keeps the invariant.       *)
LEMMA LaunchInv ==
    ASSUME Inv, Running,
           NEW p \in Proc, NEW prog \in Program, NEW frame \in Frame,
           NEW procs \in [Term -> SlotList], NEW shells \in [Term -> Proc \cup {None}],
           NEW at \in Term, Launch(p, prog, frame, procs, shells, at), Suspend(frame),
           frame = "halt" => Entered(procs, at, p)[0] = p
    PROVE  Inv'
  <1>1. TypeOK
    BY DEF Inv
  <1>2. /\ callers' \in Seq([proc : Proc, frame : Frame])
        /\ Len(callers) \in Nat
        /\ Len(callers') = Len(callers) + 1
        /\ \A i \in 1 .. Len(callers) : callers'[i] = callers[i]
        /\ callers'[Len(callers) + 1] = [proc |-> cur, frame |-> frame]
    BY <1>1, SuspendFacts
  <1>3. TypeOK'
    BY <1>1, <1>2, LaunchType
  <1>4. Alive /\ Alive' /\ mode' = "user"
    BY DEF Running, Alive, Launch
  <1>5. /\ cur \in Nat /\ p \in Nat /\ cur < p
        /\ \A q \in Proc : q < p => pcb_state[q] = 1
        /\ pcb_state[p] = 0
        /\ cur' = p
    BY <1>1, <1>4, SizesAssumption DEF Inv, StackTaken, Launch, IsFirstFree, TypeOK, Proc
  <1>6. /\ parent' = [parent EXCEPT ![p] = cur]
        /\ kbp' = [kbp EXCEPT ![cur] = frame]
        /\ pcb_state' = [pcb_state EXCEPT ![p] = 1]
        /\ pid' = [q \in Proc |-> IF q = parent[p] THEN Entered(procs, at, p)[0]
                                  ELSE IF q = p THEN p ELSE pid[q]]
    BY DEF Launch
  <1>7. \A i \in 1 .. Len(callers) :
            /\ callers[i].proc \in Proc
            /\ callers[i].proc < cur
            /\ callers'[i] = callers[i]
            /\ Callee(i)' = Callee(i)
            /\ Callee(i) \in Proc /\ Callee(i) <= cur
    <2>1. \A i \in 1 .. Len(callers) : callers[i].proc \in Proc /\ callers[i].proc < cur
      BY <1>1, <1>4, CallersType DEF Inv, StackTaken
    <2>2. cur \in Proc
      BY <1>1 DEF TypeOK
    <2>3. ASSUME NEW i \in 1 .. Len(callers)
          PROVE  Callee(i)' = Callee(i) /\ Callee(i) \in Proc /\ Callee(i) <= cur
      <3>1. CASE i = Len(callers)
        BY <1>2, <1>5, <2>2, <3>1 DEF Callee
      <3>2. CASE i # Len(callers)
        <4>1. i + 1 \in 1 .. Len(callers) /\ i # Len(callers')
          BY <1>2, <3>2
        <4>. QED  BY <1>2, <1>5, <2>1, <3>2, <4>1 DEF Callee, Proc
      <3>. QED  BY <3>1, <3>2
    <2>. QED  BY <1>2, <2>1, <2>3
  <1>8. parent[p] = None \/ parent[p] >= cur
    BY <1>4, <1>5 DEF Inv, LinksStop, Above
  <1>9. \A i : i = Len(callers) + 1 => Callee(i)' = p
    BY <1>2, <1>5 DEF Callee
  <1>10. ReturnPath'
    <2>1. ASSUME NEW i \in 1 .. Len(callers)
          PROVE  /\ parent'[Callee(i)'] = callers'[i].proc
                 /\ kbp'[callers'[i].proc] = callers'[i].frame
      <3>1. parent[Callee(i)] = callers[i].proc /\ kbp[callers[i].proc] = callers[i].frame
        BY <1>4 DEF Inv, ReturnPath
      <3>2. callers[i].proc \in Proc /\ Callee(i) \in Proc /\ Callee(i)' = Callee(i) /\ callers'[i] = callers[i]
        BY <1>7
      <3>3. callers[i].proc # cur /\ Callee(i) # p
        BY <1>5, <1>7 DEF Proc
      <3>. QED  BY <1>1, <1>6, <3>1, <3>2, <3>3 DEF TypeOK
    <2>2. ASSUME NEW i, i = Len(callers) + 1
          PROVE  /\ parent'[Callee(i)'] = callers'[i].proc
                 /\ kbp'[callers'[i].proc] = callers'[i].frame
      BY <1>1, <1>2, <1>6, <1>9, <2>2 DEF TypeOK
    <2>3. \A i \in 1 .. Len(callers') : i \in 1 .. Len(callers) \/ i = Len(callers) + 1
      BY <1>2
    <2>. QED  BY <2>1, <2>2, <2>3 DEF ReturnPath
  <1>11. StackTaken'
    <2>1. \A q \in Proc : q <= p => pcb_state'[q] = 1
      BY <1>1, <1>5, <1>6 DEF TypeOK, Proc
    <2>2. ASSUME NEW i \in 1 .. Len(callers)'
          PROVE  /\ callers'[i].proc < p
                 /\ \A j \in 1 .. i - 1 : callers'[j].proc < callers'[i].proc
      <3>1. CASE i = Len(callers) + 1
        BY <1>2, <1>5, <1>7, <3>1
      <3>2. CASE i # Len(callers) + 1
        <4>1. i \in 1 .. Len(callers) /\ \A j \in 1 .. i - 1 : j \in 1 .. Len(callers)
          BY <1>2, <3>2
        <4>2. \A j \in 1 .. i - 1 : callers[j].proc < callers[i].proc
          BY <1>4, <4>1 DEF Inv, StackTaken
        <4>3. callers[i].proc \in Int /\ callers[i].proc < cur
          BY <1>7, <4>1 DEF Proc
        <4>4. callers[i].proc < p
          BY <1>5, <4>3
        <4>. QED  BY <1>7, <4>1, <4>2, <4>4
      <3>. QED  BY <3>1, <3>2
    <2>. QED  BY <1>5, <2>1, <2>2 DEF StackTaken
  <1>12. LinksDown'
    BY <1>1, <1>4, <1>5, <1>6 DEF Inv, LinksDown, TypeOK, Proc
  <1>13. OwnTask'
    BY <1>1, <1>4, <1>5, <1>6 DEF Inv, LinksDown, OwnTask, TypeOK, Proc
  <1>14. Rooted'
    <2>1. parent'[p] # None /\ parent'[cur] # None
      BY <1>1, <1>4, <1>5, <1>6, SizesAssumption DEF Inv, Rooted, TypeOK, None, Proc
    <2>2. \A i \in 1 .. Len(callers) : parent[callers[i].proc] # None
      BY <1>4 DEF Inv, Rooted
    <2>3. \A q \in Proc : q < cur => parent'[q] = parent[q]
      BY <1>1, <1>5, <1>6 DEF TypeOK, Proc
    <2>4. ASSUME NEW i \in 1 .. Len(callers)
          PROVE  parent'[callers'[i].proc] # None
      BY <1>7, <2>2, <2>3
    <2>5. ASSUME NEW i, i = Len(callers) + 1
          PROVE  parent'[callers'[i].proc] # None
      BY <1>2, <2>1, <2>5
    <2>6. \A i \in 1 .. Len(callers') : i \in 1 .. Len(callers) \/ i = Len(callers) + 1
      BY <1>2
    <2>. QED  BY <1>5, <2>1, <2>4, <2>5, <2>6 DEF Rooted
  <1>15. LinksStop'
    <2>2. ASSUME NEW r \in Proc, r > p
          PROVE  parent'[r] = None \/ parent'[r] >= p
      <3>1. parent'[r] = parent[r] /\ parent[r] \in Proc \cup {None}
        <4>1. r # p
          BY <1>5, <2>2
        <4>. QED  BY <1>1, <1>6, <4>1 DEF TypeOK
      <3>2. parent[r] # None /\ parent[r] < p => pcb_state[p] = 1
        BY <1>4, <2>2 DEF Inv, NoGap
      <3>. QED  BY <1>5, <3>1, <3>2 DEF Proc
    <2>3. Above(cur) /\ \A i \in 1 .. Len(callers) : Above(callers[i].proc)
      BY <1>4 DEF Inv, LinksStop
    <2>4. \A i \in 1 .. Len(callers) : Above(callers[i].proc)'
      <3>. SUFFICES ASSUME NEW i \in 1 .. Len(callers)
                    PROVE  \A r \in Proc : r > callers[i].proc =>
                               parent'[r] = None \/ parent'[r] >= callers[i].proc
        BY <1>7 DEF Above
      <3>. QED  BY <1>1, <1>5, <1>6, <1>7, <2>3 DEF Above, TypeOK, Proc
    <2>5. \A r \in Proc : r > cur => parent'[r] = None \/ parent'[r] >= cur
      BY <1>1, <1>5, <1>6, <2>3 DEF Above, TypeOK, Proc
    <2>6. Above(cur)'
      BY <1>5, <2>2 DEF Above
    <2>7. ASSUME NEW i \in 1 .. Len(callers)'
          PROVE  \A r \in Proc : r > callers'[i].proc =>
                     parent'[r] = None \/ parent'[r] >= callers'[i].proc
      <3>1. CASE i = Len(callers) + 1
        BY <1>2, <2>5, <3>1
      <3>2. CASE i \in 1 .. Len(callers)
        BY <2>4, <3>2 DEF Above
      <3>. QED  BY <1>2, <3>1, <3>2
    <2>. QED  BY <2>6, <2>7 DEF LinksStop, Above
  <1>16. NoGap'
    BY <1>1, <1>4, <1>5, <1>6 DEF Inv, NoGap, TypeOK, Proc
  <1>17. HaltPid'
    <2>1. ASSUME NEW i \in 1 .. Len(callers), callers[i].frame = "halt"
          PROVE  pid'[callers[i].proc] \in {callers[i].proc, Callee(i)}
      <3>1. pid'[callers[i].proc] = pid[callers[i].proc]
        BY <1>1, <1>5, <1>6, <1>7, <1>8 DEF TypeOK, Proc, None
      <3>. QED  BY <1>4, <2>1, <3>1 DEF Inv, HaltPid
    <2>2. ASSUME frame = "halt"
          PROVE  pid'[cur] \in {cur, p}
      BY <1>1, <1>5, <1>6, <2>2 DEF Inv, OwnTask, TypeOK
    <2>3. ASSUME NEW i \in 1 .. Len(callers)', callers'[i].frame = "halt"
          PROVE  pid'[callers'[i].proc] \in {callers'[i].proc, Callee(i)'}
      <3>1. CASE i = Len(callers) + 1
        BY <1>2, <1>9, <2>2, <2>3, <3>1
      <3>2. CASE i \in 1 .. Len(callers)
        BY <1>7, <2>1, <2>3, <3>2
      <3>. QED  BY <1>2, <3>1, <3>2
    <2>. QED  BY <1>4, <2>3 DEF HaltPid
  <1>18. BootState'
    BY <1>4 DEF BootState
  <1>. QED
    BY <1>3, <1>10, <1>11, <1>12, <1>13, <1>14, <1>15, <1>16, <1>17, <1>18 DEF Inv

(* Ending the running process, or one whose halt() goes on, keeps it.      *)
LEMMA LeaveInv ==
    ASSUME Inv, Running \/ mode = "unwind",
           NEW procs \in [Term -> SlotList], NEW shells \in [Term -> Proc \cup {None}],
           Leave(procs, shells)
    PROVE  Inv'
  <1>1. TypeOK /\ Alive
    BY DEF Inv, Running, Alive
  <1>2. TypeOK'
    BY <1>1, LeaveType DEF Inv, Rooted
  <1>3. /\ pid[cur] \in Proc /\ pid[cur] >= cur /\ Above(pid[cur])
        /\ cur \in Nat
    <2>1. CASE Running
      BY <1>1, <2>1 DEF Inv, OwnTask, LinksStop, TypeOK, Proc
    <2>2. CASE mode = "unwind"
      BY <1>1, <2>2 DEF Inv, HaltPid, TypeOK, Proc
    <2>. QED  BY <2>1, <2>2
  <1>4. /\ pcb_state' = [pcb_state EXCEPT ![pid[cur]] = 0]
        /\ UNCHANGED <<pid, parent, kbp>>
    BY DEF Leave, Freed, KernelStack
  <1>5. CASE ~ReturnIsSound
    <2>1. mode' = "lost"
      BY <1>5 DEF Leave, Freed, KernelStack
    <2>. QED
      BY <1>2, <2>1 DEF Inv, Alive, Running, BootState, ReturnPath, StackTaken, OwnTask,
                        Rooted, LinksDown, LinksStop, NoGap, HaltPid
  <1>6. CASE ReturnIsSound
    <2>. DEFINE n  == Len(callers)
                up == parent[cur]
    <2>1. /\ callers # <<>>
          /\ callers' = SubSeq(callers, 1, Len(callers) - 1)
          /\ cur' = up
          /\ callers[n] = [proc |-> up, frame |-> kbp[up]]
          /\ mode' = IF kbp[up] = "halt" THEN "unwind" ELSE "user"
      BY <1>6 DEF Leave, Freed, KernelStack, ReturnIsSound
    <2>2. /\ n \in Nat \ {0}
          /\ Len(callers') = n - 1
          /\ \A i \in 1 .. Len(callers') : callers'[i] = callers[i]
      BY <1>1, <2>1, PopFacts
    <2>3. n \in 1 .. n /\ callers[n].proc = up /\ callers[n].frame = kbp[up]
      BY <2>1, <2>2
    <2>4. up \in Proc /\ up \in Nat /\ up < cur
      <3>1. up \in Proc
        BY <1>1, <2>3, CallersType
      <3>2. up < cur
        BY <1>1, <2>3 DEF Inv, StackTaken
      <3>. QED  BY <3>1, <3>2 DEF Proc
    <2>5. Alive'
      BY <2>1 DEF Alive
    <2>6. \A i \in 1 .. n - 1 :
            /\ i \in 1 .. n
            /\ callers'[i] = callers[i]
            /\ callers[i].proc \in Proc
            /\ Callee(i)' = Callee(i)
      <3>. SUFFICES ASSUME NEW i \in 1 .. n - 1
                    PROVE  /\ i \in 1 .. n
                           /\ callers'[i] = callers[i]
                           /\ callers[i].proc \in Proc
                           /\ Callee(i)' = Callee(i)
        OBVIOUS
      <3>1. i \in 1 .. n /\ callers'[i] = callers[i]
        BY <2>2
      <3>2. callers[i].proc \in Proc
        BY <1>1, <3>1, CallersType
      <3>3. Callee(i)' = callers[i + 1].proc
        <4>1. CASE i = n - 1
          BY <2>1, <2>2, <2>3, <4>1 DEF Callee
        <4>2. CASE i # n - 1
          BY <2>2, <4>2 DEF Callee
        <4>. QED  BY <4>1, <4>2
      <3>4. Callee(i) = callers[i + 1].proc
        BY <2>2 DEF Callee
      <3>. QED  BY <3>1, <3>2, <3>3, <3>4
    <2>7. ReturnPath'
      BY <1>1, <1>4, <2>2, <2>6 DEF Inv, ReturnPath
    <2>8. StackTaken'
      <3>1. \A q \in Proc : q <= up => pcb_state'[q] = 1
        BY <1>1, <1>3, <1>4, <2>4 DEF Inv, StackTaken, TypeOK, Proc
      <3>2. \A i \in 1 .. n - 1 : callers[i].proc < up
        BY <1>1, <2>2, <2>3 DEF Inv, StackTaken
      <3>3. ASSUME NEW i \in 1 .. n - 1, NEW j \in 1 .. i - 1
            PROVE  callers'[j].proc < callers'[i].proc
        BY <1>1, <2>2, <2>6 DEF Inv, StackTaken
      <3>. QED  BY <2>1, <2>2, <2>6, <3>1, <3>2, <3>3 DEF StackTaken
    <2>9. OwnTask'
      <3>1. PageSwitch(pid[up]) = pid[up]
        BY <1>1, <2>4, PageSwitchId DEF TypeOK
      <3>2. page' = pid[up]
        BY <3>1 DEF Leave, Freed, KernelStack
      <3>. QED  BY <1>4, <2>1, <2>4, <2>5, <2>8, <3>2 DEF OwnTask, Running, Intact, StackTaken
    <2>10. Rooted'
      BY <1>1, <1>4, <2>1, <2>2, <2>3, <2>6 DEF Inv, Rooted
    <2>11. LinksDown'
      BY <1>1, <1>4 DEF Inv, LinksDown
    <2>12. LinksStop'
      BY <1>1, <1>4, <2>1, <2>2, <2>3, <2>6 DEF Inv, LinksStop, Above
    <2>13. NoGap'
      <3>1. ASSUME NEW p \in Proc, NEW q \in Proc, parent[p] # None, parent[p] < q, q < p
            PROVE  pcb_state'[q] = 1
        <4>1. pcb_state[q] = 1
          BY <1>1, <3>1 DEF Inv, NoGap
        <4>2. q # pid[cur]
          <5>1. parent[p] \in Proc
            BY <1>1, <3>1 DEF TypeOK
          <5>. QED  BY <1>3, <3>1, <5>1 DEF Above, Proc
        <4>. QED  BY <1>1, <1>4, <4>1, <4>2 DEF TypeOK
      <3>. QED  BY <1>4, <3>1 DEF NoGap
    <2>14. HaltPid'
      <3>1. Callee(n) = cur
        BY DEF Callee
      <3>2. ASSUME mode' = "unwind"
            PROVE  pid[up] \in {up, cur}
        BY <1>1, <2>1, <2>3, <3>1, <3>2 DEF Inv, HaltPid
      <3>3. Above(up) /\ Above(cur)
        BY <1>1, <2>3 DEF Inv, LinksStop
      <3>4. mode' = "unwind" => pid'[cur'] >= cur' /\ Above(pid[cur])'
        BY <1>4, <2>1, <2>4, <1>3, <3>2, <3>3 DEF Above
      <3>5. \A i \in 1 .. n - 1 :
              callers'[i].frame = "halt" => pid'[callers'[i].proc] \in {callers'[i].proc, Callee(i)'}
        BY <1>1, <1>4, <2>6 DEF Inv, HaltPid
      <3>. QED  BY <2>2, <3>4, <3>5 DEF HaltPid
    <2>15. BootState'
      BY <2>1 DEF BootState
    <2>. QED
      BY <1>2, <2>7, <2>8, <2>9, <2>10, <2>11, <2>12, <2>13, <2>14, <2>15 DEF Inv
  <1>. QED  BY <1>5, <1>6

(* entry()'s execute("shell") establishes it.                              *)
LEMMA BootInv ==
    ASSUME Inv, Boot
    PROVE  Inv'
  <1>1. TypeOK /\ mode = "boot" /\ callers = <<>> /\ cur = 0
        /\ (\A q \in Proc : parent[q] = None /\ pcb_state[q] = 0)
    BY DEF Inv, Boot, BootState
  <1>2. PICK p \in Proc, t \in Term : Launch(p, "shell", "entry", processes, terminal_shell, t)
    BY DEF Boot
  <1>3. callers' = <<>> /\ Len(callers') = 0
    BY <1>1 DEF Boot
  <1>4. TypeOK'
    BY <1>1, <1>2, <1>3, LaunchType DEF TypeOK, SlotList, Program, Frame
  <1>5. 0 \in Proc /\ None \notin Proc
    BY SizesAssumption DEF Proc, None
  <1>6. p = 0
    BY <1>1, <1>2, <1>5, SizesAssumption DEF Launch, IsFirstFree, Proc
  <1>7. /\ cur' = 0 /\ mode' = "user"
        /\ pcb_state' = [pcb_state EXCEPT ![0] = 1]
        /\ parent' = [parent EXCEPT ![0] = 0]
        /\ pid'[0] = 0
    BY <1>1, <1>2, <1>5, <1>6 DEF Launch
  <1>8. Alive'
    BY <1>7 DEF Alive
  <1>9. \A q \in Proc : q # 0 => parent'[q] = None
    BY <1>1, <1>7 DEF TypeOK
  <1>10. parent'[0] = 0 /\ pcb_state'[0] = 1
    BY <1>1, <1>5, <1>7 DEF TypeOK
  <1>11. ReturnPath' /\ Rooted'
    BY <1>3, <1>5, <1>7, <1>10 DEF ReturnPath, Rooted
  <1>12. StackTaken'
    BY <1>3, <1>7, <1>10 DEF StackTaken, Proc
  <1>13. OwnTask' /\ BootState'
    BY <1>7, <1>10 DEF OwnTask, BootState
  <1>14. LinksDown' /\ NoGap'
    BY <1>9, <1>10 DEF LinksDown, NoGap, Proc, None
  <1>15. LinksStop'
    BY <1>3, <1>7, <1>9 DEF LinksStop, Above, Proc
  <1>16. HaltPid'
    BY <1>3, <1>7 DEF HaltPid
  <1>. QED
    BY <1>4, <1>11, <1>12, <1>13, <1>14, <1>15, <1>16 DEF Inv

(* Both ways halt() ends: with a new first shell, or with the parent.      *)
LEMMA HaltInv ==
    ASSUME Inv, Halt
    PROVE  Inv'
  <1>. DEFINE t      == active_terminal
              procs  == [processes EXCEPT ![t] = Vacate(processes[t], pid[cur])]
              shells == IF terminal_shell[t] = pid[cur]
                        THEN [terminal_shell EXCEPT ![t] = pid[parent[cur]]] ELSE terminal_shell
  <1>1. TypeOK /\ Running /\ Alive
    BY DEF Inv, Halt, Running, Alive
  <1>2. parent[cur] \in Proc /\ pid[cur] \in Proc
    BY <1>1 DEF Inv, Rooted, TypeOK
  <1>3. procs \in [Term -> SlotList]
    <2>1. processes \in [Term -> SlotList] /\ t \in Term
      BY <1>1 DEF TypeOK, SlotList
    <2>2. Vacate(processes[t], pid[cur]) \in SlotList
      BY <1>2, <2>1, VacateType
    <2>. QED  BY <2>1, <2>2
  <1>4. shells \in [Term -> Proc \cup {None}]
    BY <1>1, <1>2 DEF TypeOK
  <1>5. t \in Term
    BY <1>1 DEF TypeOK
  <1>6. CASE /\ processes[t][0] = pid[cur]
             /\ \E p \in Proc : Launch(p, "shell", "halt", procs, shells, t)
             /\ Suspend("halt")
    <2>1. PICK p \in Proc : Launch(p, "shell", "halt", procs, shells, t)
      BY <1>6
    <2>2. 0 \in Slot /\ \A j \in Slot : ~(j < 0)
      BY SizesAssumption DEF Slot
    <2>3. procs[t][0] = None
      <3>1. procs[t] = Vacate(processes[t], pid[cur])
        BY <1>1, <1>5 DEF TypeOK
      <3>. QED  BY <1>6, <2>2, <3>1 DEF Vacate
    <2>4. Entered(procs, t, p)[0] = p
      <3>1. procs[t] \in SlotList
        BY <1>3, <1>5
      <3>2. Occupy(procs[t], p)[0] = p
        BY <2>2, <2>3 DEF Occupy
      <3>3. [procs[t] EXCEPT ![0] = p][0] = p
        BY <2>2, <3>1 DEF SlotList
      <3>. QED  BY <3>2, <3>3 DEF Entered
    <2>. HIDE DEF procs, shells, t
    <2>. QED  BY <1>1, <1>3, <1>4, <1>5, <1>6, <2>1, <2>4, LaunchInv DEF Program, Frame
  <1>7. CASE Leave(procs, shells)
    <2>. HIDE DEF procs, shells, t
    <2>. QED  BY <1>1, <1>3, <1>4, <1>7, LeaveInv
  <1>. QED  BY <1>6, <1>7 DEF Halt

(* Inv is inductive: one step per action.                                  *)
LEMMA NextInv ==
    ASSUME Inv, [Next]_vars
    PROVE  Inv'
  <1>1. TypeOK
    BY DEF Inv
  <1>2. processes \in [Term -> SlotList] /\ terminal_shell \in [Term -> Proc \cup {None}]
        /\ active_terminal \in Term
    BY <1>1 DEF TypeOK, SlotList
  <1>3. CASE Boot
    BY <1>3, BootInv
  <1>4. ASSUME NEW cmd \in Commands, Execute(cmd)
        PROVE  Inv'
    <2>1. cmd \in Program /\ Running /\ Suspend("syscall")
      BY <1>4 DEF Execute
    <2>2. PICK p \in Proc : Launch(p, cmd, "syscall", processes, terminal_shell, active_terminal)
      BY <1>4 DEF Execute
    <2>. QED  BY <1>2, <2>1, <2>2, LaunchInv DEF Frame
  <1>5. CASE vars' = vars
    BY <1>5 DEF vars, tableVars, termVars, cpuVars, Inv, TypeOK, Alive, Running, Intact, BootState,
                ReturnPath, Callee, StackTaken, OwnTask, Rooted, LinksDown, LinksStop, Above, NoGap, HaltPid
  <1>6. ASSUME NEW cmd \in Commands, ExecuteFails(cmd)
        PROVE  Inv'
    BY <1>5, <1>6 DEF ExecuteFails, vars, tableVars, termVars, cpuVars
  <1>7. CASE AppEnds \/ ShellEnds
    BY <1>7, HaltInv DEF AppEnds, ShellEnds
  <1>8. CASE ResumeHalt
    BY <1>2, <1>8, LeaveInv DEF ResumeHalt
  <1>9. ASSUME NEW t \in Term, DisplaySwitch(t)
        PROVE  Inv'
    <2>1. Running /\ Alive
      BY <1>9 DEF DisplaySwitch, Running, Alive
    <2>2. CASE Suspend("display_switch") /\ \E p \in Proc :
                  Launch(p, "shell", "display_switch", processes, terminal_shell, t)
      <3>1. PICK p \in Proc : Launch(p, "shell", "display_switch", processes, terminal_shell, t)
        BY <2>2
      <3>. QED  BY <1>2, <2>1, <2>2, <3>1, LaunchInv DEF Program, Frame
    <2>3. CASE /\ active_terminal' = t
               /\ kbp' = [kbp EXCEPT ![cur] = "popped"]
               /\ page' = PageSwitch(pid[cur])
               /\ UNCHANGED <<pcb_state, pid, parent, image, processes, terminal_flag,
                              terminal_shell, running_terminal, esp0, cur, callers, mode>>
      <3>1. pid[cur] = cur /\ pcb_state[cur] = 1
        BY <2>1 DEF Inv, OwnTask
      <3>2. page' \in Proc
        BY <1>1, <2>3, PageSwitchId DEF TypeOK
      <3>3. TypeOK'
        BY <1>1, <2>3, <3>2 DEF TypeOK, Frame
      <3>4. ReturnPath'
        <4>1. \A i \in 1 .. Len(callers) :
                 /\ callers[i].proc \in Proc /\ callers[i].proc < cur
                 /\ parent[Callee(i)] = callers[i].proc
                 /\ kbp[callers[i].proc] = callers[i].frame
          BY <1>1, <2>1, CallersType DEF Inv, ReturnPath, StackTaken
        <4>2. \A q \in Proc : q < cur => kbp'[q] = kbp[q]
          BY <1>1, <2>3 DEF TypeOK, Proc
        <4>. QED  BY <2>3, <4>1, <4>2 DEF ReturnPath, Callee
      <3>. QED
        BY <2>1, <2>3, <3>1, <3>3, <3>4 DEF Inv, Alive, Running, BootState, Callee, StackTaken,
                OwnTask, Rooted, LinksDown, LinksStop, Above, NoGap, HaltPid
    <2>. QED  BY <1>9, <2>2, <2>3 DEF DisplaySwitch
  <1>10. CASE Astray
    <2>1. mode' = "astray" /\ TypeOK'
      BY <1>1, <1>10 DEF Astray, TypeOK, tableVars, termVars
    <2>. QED
      BY <2>1 DEF Inv, Alive, Running, BootState, ReturnPath, StackTaken, OwnTask,
                  Rooted, LinksDown, LinksStop, NoGap, HaltPid
  <1>. QED  BY <1>3, <1>4, <1>5, <1>6, <1>7, <1>8, <1>9, <1>10 DEF Next

----------------------------------------------------------------------------
(* The invariant holds in every reachable state, whatever the sizes.       *)
THEOREM InvAlways == Spec => []Inv
  <1>1. Init => Inv
    BY InitInv
  <1>2. Inv /\ [Next]_vars => Inv'
    BY NextInv
  <1>. QED  BY <1>1, <1>2, PTL DEF Spec

(* The tables, the lists and the CPU state keep their types; in particular *)
(* no handler follows a NULL parent link or leaves the process table.      *)
THEOREM TypeCorrect == Spec => []TypeOK
  <1>1. Inv => TypeOK
    BY DEF Inv
  <1>. QED  BY <1>1, InvAlways, PTL

(* halt() returns into the execute call that started the process, for      *)
(* every interleaving of execute, halt and Alt+Fn.                         *)
THEOREM HaltFindsCaller == Spec => []ReturnPath
  <1>1. Inv => ReturnPath
    BY DEF Inv
  <1>. QED  BY <1>1, InvAlways, PTL

(* The PCB and kernel stack of a live task are never handed out again.     *)
THEOREM StacksNotReused == Spec => []StackTaken
  <1>1. Inv => StackTaken
    BY DEF Inv
  <1>. QED  BY <1>1, InvAlways, PTL

(* halt() never takes its early return.                                    *)
THEOREM HaltAccepted == Spec => []OwnTask
  <1>1. Inv => OwnTask
    BY DEF Inv
  <1>. QED  BY <1>1, InvAlways, PTL

----------------------------------------------------------------------------
(* The implementation of TaskStack.                                        *)

LEMMA TaskSeqFacts ==
    ASSUME NEW cs \in Seq([proc : Proc, frame : Frame]), NEW top \in Proc
    PROVE  /\ TaskSeq(cs, top) \in Seq(Proc)
           /\ Len(cs) \in Nat
           /\ Len(TaskSeq(cs, top)) = Len(cs) + 1
           /\ \A i \in 1 .. Len(cs) : TaskSeq(cs, top)[i] = cs[i].proc
           /\ TaskSeq(cs, top)[Len(cs) + 1] = top
  <1>1. Len(cs) \in Nat
    OBVIOUS
  <1>2. PICK n \in Nat : n = Len(cs) + 1
    BY <1>1
  <1>3. \A i \in 1 .. Len(cs) : cs[i].proc \in Proc
    <2>1. \A i \in 1 .. Len(cs) : cs[i] \in [proc : Proc, frame : Frame]
      BY ElementOfSeq
    <2>. QED  BY <2>1
  <1>4. TaskSeq(cs, top) \in [1 .. n -> Proc]
    BY <1>1, <1>2, <1>3 DEF TaskSeq
  <1>5. TaskSeq(cs, top) \in Seq(Proc)
    BY <1>4, SeqDef
  <1>6. Len(TaskSeq(cs, top)) = n
    BY <1>4, <1>5, LenProperties
  <1>. QED  BY <1>1, <1>2, <1>5, <1>6 DEF TaskSeq

(* Two sequences of tasks are equal when their elements are.               *)
LEMMA SameTasks ==
    ASSUME NEW s \in Seq(Proc), NEW t \in Seq(Proc), Len(s) = Len(t),
           \A i \in 1 .. Len(s) : s[i] = t[i]
    PROVE  s = t
  BY SeqEqual

(* A process started on the running one is pushed, and is not yet there.   *)
LEMMA PushStep ==
    ASSUME Inv, Inv', Running,
           NEW p \in Proc, NEW prog \in Program, NEW frame \in Frame,
           NEW procs, NEW shells, NEW at,
           Launch(p, prog, frame, procs, shells, at), Suspend(frame)
    PROVE  TS!Start
  <1>1. TypeOK /\ TypeOK' /\ Alive /\ mode = "user" /\ mode' = "user" /\ cur' = p
    BY DEF Inv, Running, Alive, Launch
  <1>2. /\ callers \in Seq([proc : Proc, frame : Frame]) /\ cur \in Proc
        /\ callers' \in Seq([proc : Proc, frame : Frame])
    BY <1>1 DEF TypeOK
  <1>3. Tasks = TaskSeq(callers, cur) /\ Tasks' = TaskSeq(callers', p)
    BY <1>1 DEF Tasks
  <1>4. /\ Tasks \in Seq(Proc)
        /\ Len(callers) \in Nat
        /\ Len(Tasks) = Len(callers) + 1
        /\ \A i \in 1 .. Len(callers) : Tasks[i] = callers[i].proc
        /\ Tasks[Len(callers) + 1] = cur
    BY <1>2, <1>3, TaskSeqFacts
  <1>5. /\ Tasks' \in Seq(Proc)
        /\ Len(Tasks') = Len(callers') + 1
        /\ \A i \in 1 .. Len(callers') : Tasks'[i] = callers'[i].proc
        /\ Tasks'[Len(callers') + 1] = p
    BY <1>2, <1>3, TaskSeqFacts
  <1>6. /\ Len(callers') = Len(callers) + 1
        /\ \A i \in 1 .. Len(callers) : callers'[i] = callers[i]
        /\ callers'[Len(callers) + 1] = [proc |-> cur, frame |-> frame]
    BY <1>1, SuspendFacts
  <1>7. Tasks' = Append(Tasks, p)
    <2>1. /\ Append(Tasks, p) \in Seq(Proc)
          /\ Len(Append(Tasks, p)) = Len(Tasks) + 1
          /\ \A i \in 1 .. Len(Tasks) : Append(Tasks, p)[i] = Tasks[i]
          /\ Append(Tasks, p)[Len(Tasks) + 1] = p
      BY <1>4, AppendProperties
    <2>2. Len(Tasks') = Len(Append(Tasks, p))
      BY <1>4, <1>5, <1>6, <2>1
    <2>3. ASSUME NEW i \in 1 .. Len(Tasks')
          PROVE  Tasks'[i] = Append(Tasks, p)[i]
      <3>1. CASE i = Len(callers) + 2
        BY <1>4, <1>5, <1>6, <2>1, <3>1
      <3>2. CASE i = Len(callers) + 1
        BY <1>4, <1>5, <1>6, <2>1, <3>2
      <3>3. CASE i \in 1 .. Len(callers)
        BY <1>4, <1>5, <1>6, <2>1, <3>3
      <3>. QED  BY <1>4, <1>5, <1>6, <3>1, <3>2, <3>3
    <2>. QED  BY <1>5, <2>1, <2>2, <2>3, SameTasks
  <1>8. \A i \in 1 .. Len(Tasks) : Tasks[i] # p
    <2>1. cur < p /\ cur \in Nat
      BY <1>1 DEF Inv, StackTaken, Launch, IsFirstFree, TypeOK, Proc
    <2>2. \A i \in 1 .. Len(callers) : callers[i].proc \in Proc /\ callers[i].proc < cur
      BY <1>1, CallersType DEF Inv, StackTaken
    <2>. QED  BY <1>4, <2>1, <2>2 DEF Proc
  <1>. QED  BY <1>1, <1>7, <1>8 DEF TS!Start, TS!Fresh

(* A process that ends is popped; only the bottom one finds no caller.     *)
LEMMA PopStep ==
    ASSUME Inv, Inv', Alive, NEW procs, NEW shells, Leave(procs, shells)
    PROVE  TS!Return \/ TS!Lose
  <1>1. TypeOK /\ TypeOK' /\ mode # "boot" /\ mode # "lost"
    BY DEF Inv, Alive
  <1>2. /\ callers \in Seq([proc : Proc, frame : Frame]) /\ cur \in Proc
        /\ callers' \in Seq([proc : Proc, frame : Frame]) /\ cur' \in Proc
    BY <1>1 DEF TypeOK
  <1>3. Tasks = TaskSeq(callers, cur)
    BY <1>1 DEF Tasks
  <1>4. /\ Tasks \in Seq(Proc)
        /\ Len(callers) \in Nat
        /\ Len(Tasks) = Len(callers) + 1
        /\ \A i \in 1 .. Len(callers) : Tasks[i] = callers[i].proc
        /\ Tasks[Len(callers) + 1] = cur
    BY <1>2, <1>3, TaskSeqFacts
  <1>5. CASE callers = <<>>
    <2>1. mode' = "lost" /\ cur' = cur /\ callers' = callers
      BY <1>5 DEF Leave, Freed, KernelStack, ReturnIsSound
    <2>2. Tasks' = Tasks
      BY <1>1, <2>1 DEF Tasks
    <2>3. Len(Tasks) = 1
      BY <1>4, <1>5
    <2>. QED  BY <1>1, <2>1, <2>2, <2>3 DEF TS!Lose
  <1>6. CASE callers # <<>>
    <2>1. Len(callers) \in 1 .. Len(callers) /\ Callee(Len(callers)) = cur
      BY <1>2, <1>6 DEF Callee
    <2>2. /\ parent[cur] = callers[Len(callers)].proc
          /\ kbp[parent[cur]] = callers[Len(callers)].frame
      BY <2>1 DEF Inv, ReturnPath
    <2>3. callers[Len(callers)] = [proc |-> parent[cur], frame |-> kbp[parent[cur]]]
      BY <1>1, <2>1, <2>2, CallersType
    <2>4. ReturnIsSound
      BY <1>6, <2>3 DEF ReturnIsSound
    <2>5. /\ cur' = callers[Len(callers)].proc
          /\ callers' = SubSeq(callers, 1, Len(callers) - 1)
          /\ mode' \in {"user", "unwind"}
      BY <2>2, <2>4 DEF Leave, Freed, KernelStack
    <2>6. /\ Len(callers') = Len(callers) - 1
          /\ \A i \in 1 .. Len(callers') : callers'[i] = callers[i]
      BY <1>1, <1>6, <2>5, PopFacts
    <2>7. Tasks' = TaskSeq(callers', cur')
      BY <2>5 DEF Tasks
    <2>8. /\ Tasks' \in Seq(Proc)
          /\ Len(Tasks') = Len(callers') + 1
          /\ \A i \in 1 .. Len(callers') : Tasks'[i] = callers'[i].proc
          /\ Tasks'[Len(callers') + 1] = cur'
      BY <1>2, <2>7, TaskSeqFacts
    <2>9. Tasks # <<>> /\ Len(Tasks) > 1
      BY <1>4, <2>1
    <2>10. /\ SubSeq(Tasks, 1, Len(Tasks) - 1) \in Seq(Proc)
           /\ Len(SubSeq(Tasks, 1, Len(Tasks) - 1)) = Len(Tasks) - 1
           /\ \A i \in 1 .. Len(Tasks) - 1 : SubSeq(Tasks, 1, Len(Tasks) - 1)[i] = Tasks[i]
      BY <1>4, <2>9, FrontFacts
    <2>11. Len(Tasks') = Len(SubSeq(Tasks, 1, Len(Tasks) - 1))
      BY <1>4, <2>6, <2>8, <2>10
    <2>12. ASSUME NEW i \in 1 .. Len(Tasks')
           PROVE  Tasks'[i] = SubSeq(Tasks, 1, Len(Tasks) - 1)[i]
      <3>1. CASE i = Len(callers)
        BY <1>4, <2>1, <2>5, <2>6, <2>8, <2>10, <3>1
      <3>2. CASE i \in 1 .. Len(callers')
        BY <1>4, <2>6, <2>8, <2>10, <3>2
      <3>. QED  BY <1>4, <2>6, <2>8, <3>1, <3>2
    <2>13. Tasks' = SubSeq(Tasks, 1, Len(Tasks) - 1)
      BY <2>8, <2>10, <2>11, <2>12, SameTasks
    <2>. QED  BY <1>1, <2>5, <2>9, <2>13 DEF TS!Return
  <1>. QED  BY <1>5, <1>6

(* Every step of the kernel is a step of the stack of tasks, or none.      *)
LEMMA TaskStep ==
    ASSUME Inv, Inv', [Next]_vars
    PROVE  [TS!Next]_(TS!vars)
  <1>1. CASE Boot
    <2>1. PICK p \in Proc, t \in Term : Launch(p, "shell", "entry", processes, terminal_shell, t)
      BY <1>1 DEF Boot
    <2>2. Tasks = <<>> /\ callers = <<>> /\ callers' = <<>> /\ cur' = p /\ mode' = "user" /\ mode = "boot"
      BY <1>1, <2>1 DEF Boot, Tasks, Inv, BootState, Launch
    <2>3. Tasks' = Append(Tasks, p)
      <3>1. Tasks' = TaskSeq(callers', p) /\ Len(callers') = 0
        BY <2>2 DEF Tasks
      <3>2. Tasks' = [i \in 1 .. 1 |-> p]
        BY <3>1 DEF TaskSeq
      <3>. QED  BY <2>2, <3>2
    <2>4. TS!Start
      BY <2>2, <2>3 DEF TS!Start, TS!Fresh
    <2>. QED  BY <2>4 DEF TS!Next
  <1>2. ASSUME NEW cmd \in Commands, Execute(cmd)
        PROVE  TS!Start
    BY <1>2, PushStep DEF Execute, Frame
  <1>3. CASE vars' = vars
    BY <1>3 DEF vars, cpuVars, Tasks, TS!vars
  <1>4. ASSUME NEW cmd \in Commands, ExecuteFails(cmd)
        PROVE  vars' = vars
    BY <1>4 DEF ExecuteFails
  <1>5. ASSUME Halt
        PROVE  TS!Next
    BY <1>5, PushStep, PopStep DEF Halt, Running, Alive, Program, Frame, TS!Next
  <1>6. CASE ResumeHalt
    BY <1>6, PopStep DEF ResumeHalt, Alive, TS!Next
  <1>7. ASSUME NEW t \in Term, DisplaySwitch(t)
        PROVE  TS!Start \/ UNCHANGED TS!vars
    <2>1. CASE UNCHANGED <<cur, callers, mode>>
      BY <2>1 DEF Tasks, TS!vars
    <2>2. CASE Suspend("display_switch") /\ \E p \in Proc :
                  Launch(p, "shell", "display_switch", processes, terminal_shell, t)
      BY <1>7, <2>2, PushStep DEF DisplaySwitch, Program, Frame
    <2>. QED  BY <1>7, <2>1, <2>2 DEF DisplaySwitch
  <1>8. CASE Astray
    BY <1>8 DEF Astray, Tasks, TS!vars
  <1>. QED
    BY <1>1, <1>2, <1>3, <1>4, <1>5, <1>6, <1>7, <1>8 DEF Next, AppEnds, ShellEnds, TS!Next

(* execute, halt and display_switch implement the stack of tasks.          *)
THEOREM ProcessIsTaskStack == Spec => ImplementsTaskStack
  <1>1. Init => TS!Init
    BY DEF Init, Tasks, TS!Init
  <1>2. Inv /\ Inv' /\ [Next]_vars => [TS!Next]_(TS!vars)
    BY TaskStep
  <1>. QED  BY <1>1, <1>2, InvAlways, PTL DEF Spec, ImplementsTaskStack, TS!Spec

----------------------------------------------------------------------------
(* What execute and halt keep as long as something has not happened.      *)

LEMMA NoneIsNoProc == None \notin Proc
  BY DEF None, Proc

(* What starting a process on the running one does.                        *)
LEMMA LaunchFacts ==
    ASSUME Inv, Running,
           NEW p \in Proc, NEW prog, NEW frame \in Frame, NEW procs, NEW shells,
           NEW at \in Term, Launch(p, prog, frame, procs, shells, at), Suspend(frame)
    PROVE  /\ cur < p /\ cur \in Proc /\ pcb_state[p] = 0 /\ pcb_state[cur] = 1
           /\ \A q \in Proc : q < p => pcb_state[q] = 1
           /\ cur' = p /\ mode' = "user" /\ page' = p /\ esp0' = p
           /\ pcb_state'[p] = 1 /\ \A q \in Proc : q # p => pcb_state'[q] = pcb_state[q]
           /\ pid[cur] = cur /\ pid'[p] = p
           /\ parent[p] = None \/ (parent[p] \in Proc /\ parent[p] >= cur /\ parent[p] < p)
           /\ \A q \in Proc : q # p => pid'[q] = IF q = parent[p] THEN Entered(procs, at, p)[0] ELSE pid[q]
           /\ Len(callers) \in Nat
           /\ Len(callers') = Len(callers) + 1
           /\ \A i \in 1 .. Len(callers) : callers'[i] = callers[i]
           /\ callers'[Len(callers) + 1] = [proc |-> cur, frame |-> frame]
  <1>1. TypeOK /\ Alive /\ mode = "user"
    BY DEF Inv, Running, Alive
  <1>2. /\ cur \in Proc /\ pcb_state[p] = 0 /\ (\A q \in Proc : q < p => pcb_state[q] = 1)
        /\ cur' = p /\ mode' = "user" /\ page' = PageSwitch(p) /\ esp0' = p
        /\ pcb_state' = [pcb_state EXCEPT ![p] = 1]
        /\ pid' = [q \in Proc |-> IF q = parent[p] THEN Entered(procs, at, p)[0]
                                  ELSE IF q = p THEN p ELSE pid[q]]
    BY <1>1 DEF Launch, IsFirstFree, TypeOK
  <1>3. cur < p /\ pcb_state[cur] = 1
    BY <1>1, <1>2 DEF Inv, StackTaken, Proc
  <1>4. pid[cur] = cur
    BY DEF Inv, OwnTask
  <1>5. parent[p] = None \/ (parent[p] \in Proc /\ parent[p] >= cur /\ parent[p] < p)
    <2>1. parent[p] = None \/ parent[p] >= cur
      BY <1>1, <1>3 DEF Inv, LinksStop, Above
    <2>2. p > 0
      BY <1>2, <1>3 DEF Proc
    <2>3. parent[p] < p /\ parent[p] \in Proc \cup {None}
      BY <1>1, <2>2 DEF Inv, LinksDown, TypeOK
    <2>. QED  BY <2>1, <2>3
  <1>6. parent[p] # p
    BY <1>5 DEF Proc, None
  <1>7. pid'[p] = p
    BY <1>2, <1>6
  <1>8. \A q \in Proc : q # p => pid'[q] = IF q = parent[p] THEN Entered(procs, at, p)[0] ELSE pid[q]
    BY <1>2
  <1>9. pcb_state'[p] = 1 /\ \A q \in Proc : q # p => pcb_state'[q] = pcb_state[q]
    BY <1>1, <1>2 DEF TypeOK
  <1>10. page' = p
    BY <1>2, PageSwitchId
  <1>11. /\ Len(callers) \in Nat
         /\ Len(callers') = Len(callers) + 1
         /\ \A i \in 1 .. Len(callers) : callers'[i] = callers[i]
         /\ callers'[Len(callers) + 1] = [proc |-> cur, frame |-> frame]
    BY <1>1, SuspendFacts
  <1>. QED  BY <1>2, <1>3, <1>4, <1>5, <1>7, <1>8, <1>9, <1>10, <1>11

(* What the end of a halt does, when there is a caller to return to.       *)
LEMMA LeaveFacts ==
    ASSUME Inv, Alive, NEW procs, NEW shells, Leave(procs, shells), Alive'
    PROVE  LET n == Len(callers)
           IN  /\ n \in Nat /\ n \in 1 .. n
               /\ cur' = callers[n].proc /\ cur' \in Proc /\ cur' < cur
               /\ mode' = IF callers[n].frame = "halt" THEN "unwind" ELSE "user"
               /\ page' = pid[cur'] /\ esp0' = pid[cur'] /\ pid' = pid
               /\ pid[cur] \in Proc
               /\ pcb_state'[pid[cur]] = 0
               /\ \A q \in Proc : q # pid[cur] => pcb_state'[q] = pcb_state[q]
               /\ Len(callers') = n - 1
               /\ \A i \in 1 .. n - 1 : callers'[i] = callers[i]
               /\ processes' = procs
               /\ UNCHANGED <<image, terminal_flag, active_terminal>>
  <1>. DEFINE n == Len(callers)
              up == parent[cur]
  <1>1. TypeOK
    BY DEF Inv
  <1>2. ReturnIsSound
    BY DEF Leave, Alive
  <1>3. /\ callers # <<>>
        /\ callers' = SubSeq(callers, 1, Len(callers) - 1)
        /\ cur' = up
        /\ callers[n] = [proc |-> up, frame |-> kbp[up]]
        /\ mode' = IF kbp[up] = "halt" THEN "unwind" ELSE "user"
    BY <1>2 DEF Leave, ReturnIsSound
  <1>4. /\ n \in Nat \ {0}
        /\ Len(callers') = n - 1
        /\ \A i \in 1 .. Len(callers') : callers'[i] = callers[i]
    BY <1>1, <1>3, PopFacts
  <1>5. n \in 1 .. n /\ callers[n].proc = up /\ callers[n].frame = kbp[up]
    BY <1>3, <1>4
  <1>6. up \in Proc /\ up < cur
    BY <1>1, <1>5, CallersType DEF Inv, StackTaken
  <1>7. pid[cur] \in Proc /\ pid[up] \in Proc
    BY <1>1, <1>6 DEF TypeOK
  <1>8. page' = pid[up] /\ esp0' = pid[up]
    BY <1>7, PageSwitchId DEF Leave, KernelStack
  <1>9. /\ pcb_state' = [pcb_state EXCEPT ![pid[cur]] = 0] /\ pid' = pid /\ processes' = procs
        /\ UNCHANGED <<image, terminal_flag, active_terminal>>
    BY DEF Leave, Freed
  <1>10. pcb_state'[pid[cur]] = 0 /\ \A q \in Proc : q # pid[cur] => pcb_state'[q] = pcb_state[q]
    BY <1>1, <1>7, <1>9 DEF TypeOK
  <1>. HIDE DEF n, up
  <1>11. \A i \in 1 .. n - 1 : callers'[i] = callers[i]
    BY <1>4
  <1>12. callers[n].proc = up /\ callers[n].frame = kbp[up]
    BY <1>5
  <1>. QED
    BY <1>3, <1>4, <1>5, <1>6, <1>7, <1>8, <1>9, <1>10, <1>11 DEF n

(* What they do to the set of tasks.                                       *)
LEMMA StackPush ==
    ASSUME NEW p, cur' = p, Len(callers) \in Nat, Len(callers') = Len(callers) + 1,
           \A i \in 1 .. Len(callers) : callers'[i] = callers[i],
           callers'[Len(callers) + 1].proc = cur
    PROVE  \A q : OnStack(q)' <=> OnStack(q) \/ q = p
  <1>1. ASSUME NEW q, NEW i \in 1 .. Len(callers'), callers'[i].proc = q
        PROVE  OnStack(q)
    <2>1. CASE i = Len(callers) + 1
      BY <1>1, <2>1 DEF OnStack
    <2>2. CASE i # Len(callers) + 1
      <3>1. i \in 1 .. Len(callers)
        BY <2>2
      <3>. QED  BY <1>1, <3>1 DEF OnStack
    <2>. QED  BY <2>1, <2>2
  <1>2. ASSUME NEW q, OnStack(q) PROVE OnStack(q)'
    <2>1. CASE q = cur
      <3>1. Len(callers) + 1 \in 1 .. Len(callers')
        OBVIOUS
      <3>. QED  BY <2>1, <3>1 DEF OnStack
    <2>2. CASE q # cur
      <3>1. PICK i \in 1 .. Len(callers) : callers[i].proc = q
        BY <1>2, <2>2 DEF OnStack
      <3>2. i \in 1 .. Len(callers')
        OBVIOUS
      <3>. QED  BY <3>1, <3>2 DEF OnStack
    <2>. QED  BY <2>1, <2>2
  <1>. QED  BY <1>1, <1>2 DEF OnStack

LEMMA StackPop ==
    ASSUME Len(callers) \in Nat, Len(callers) \in 1 .. Len(callers), Len(callers') = Len(callers) - 1,
           \A i \in 1 .. Len(callers) - 1 : callers'[i] = callers[i],
           cur' = callers[Len(callers)].proc
    PROVE  \A q : OnStack(q) <=> OnStack(q)' \/ q = cur
  <1>1. ASSUME NEW q, NEW i \in 1 .. Len(callers), callers[i].proc = q
        PROVE  OnStack(q)'
    <2>1. CASE i = Len(callers)
      BY <1>1, <2>1 DEF OnStack
    <2>2. CASE i # Len(callers)
      <3>1. i \in 1 .. Len(callers')
        BY <2>2
      <3>. QED  BY <1>1, <3>1 DEF OnStack
    <2>. QED  BY <2>1, <2>2
  <1>2. ASSUME NEW q, OnStack(q)' PROVE OnStack(q)
    <2>1. CASE q = cur'
      BY <2>1 DEF OnStack
    <2>2. CASE q # cur'
      <3>1. PICK i \in 1 .. Len(callers') : callers'[i].proc = q
        BY <1>2, <2>2 DEF OnStack
      <3>2. i \in 1 .. Len(callers) /\ i \in 1 .. Len(callers) - 1
        OBVIOUS
      <3>. QED  BY <3>1, <3>2 DEF OnStack
    <2>. QED  BY <2>1, <2>2
  <1>. QED  BY <1>1, <1>2 DEF OnStack

(* The ways a step can go.                                                 *)
Launches ==
    /\ Running
    /\ \E p \in Proc, prog \in Program, frame \in Frame, at \in Term : \E procs, shells :
          Launch(p, prog, frame, procs, shells, at) /\ Suspend(frame)

Leaves == (Running \/ mode = "unwind") /\ \E procs, shells : Leave(procs, shells)

Stays ==
    /\ UNCHANGED <<pcb_state, pid, image, processes, terminal_flag, esp0, cur, callers>>
    /\ mode' \in {mode, "astray"}
    /\ mode' = mode => page' \in {page, PageSwitch(pid[cur])}

LEMMA StepCases ==
    ASSUME TypeOK, Next
    PROVE  Boot \/ Launches \/ Leaves \/ Stays
  <1>1. ASSUME NEW cmd \in Commands, Execute(cmd) PROVE Launches
    <2>1. "syscall" \in Frame /\ active_terminal \in Term
      BY DEF Frame, TypeOK
    <2>2. Running /\ cmd \in Program /\ Suspend("syscall")
      BY <1>1 DEF Execute
    <2>3. PICK p \in Proc : Launch(p, cmd, "syscall", processes, terminal_shell, active_terminal)
      BY <1>1 DEF Execute
    <2>. QED  BY <2>1, <2>2, <2>3, Zenon DEF Launches
  <1>2. ASSUME NEW cmd \in Commands, ExecuteFails(cmd) PROVE Stays
    BY <1>2 DEF ExecuteFails, Stays, vars, tableVars, termVars, cpuVars
  <1>3. ASSUME Halt PROVE Launches \/ Leaves
    <2>1. "halt" \in Frame /\ "shell" \in Program /\ active_terminal \in Term
      BY DEF Frame, Program, TypeOK
    <2>. QED  BY <1>3, <2>1, Zenon DEF Halt, Launches, Leaves
  <1>4. CASE ResumeHalt
    BY <1>4, Zenon DEF ResumeHalt, Leaves
  <1>5. ASSUME NEW t \in Term, DisplaySwitch(t) PROVE Launches \/ Stays
    <2>1. "display_switch" \in Frame /\ "shell" \in Program
      BY DEF Frame, Program
    <2>2. CASE Running /\ Suspend("display_switch") /\ \E p \in Proc :
                  Launch(p, "shell", "display_switch", processes, terminal_shell, t)
      BY <2>1, <2>2, Zenon DEF Launches
    <2>. QED  BY <1>5, <2>2 DEF DisplaySwitch, Stays
  <1>6. CASE Astray
    BY <1>6 DEF Astray, Stays, tableVars, termVars
  <1>. QED  BY <1>1, <1>2, <1>3, <1>4, <1>5, <1>6 DEF Next, AppEnds, ShellEnds

----------------------------------------------------------------------------
(* No pid overwritten: every task has its own, and no PCB is lost.         *)

LEMMA BootFacts ==
    ASSUME Inv, Boot
    PROVE  \E t \in Term :
              /\ Launch(0, "shell", "entry", processes, terminal_shell, t)
              /\ callers = <<>> /\ callers' = <<>> /\ Len(callers') = 0
              /\ 0 \in Proc /\ cur' = 0 /\ mode' = "user" /\ page' = 0 /\ esp0' = 0
              /\ pid'[0] = 0 /\ pcb_state'[0] = 1
              /\ \A q \in Proc : q # 0 => pcb_state'[q] = 0
  <1>1. TypeOK /\ mode = "boot" /\ callers = <<>> /\ cur = 0
        /\ (\A q \in Proc : parent[q] = None /\ pcb_state[q] = 0)
    BY DEF Inv, Boot, BootState
  <1>2. PICK p \in Proc, t \in Term : Launch(p, "shell", "entry", processes, terminal_shell, t)
    BY DEF Boot
  <1>3. callers' = <<>> /\ Len(callers') = 0
    BY <1>1 DEF Boot
  <1>5. 0 \in Proc /\ None \notin Proc
    BY SizesAssumption DEF Proc, None
  <1>6. p = 0
    BY <1>1, <1>2, <1>5, SizesAssumption DEF Launch, IsFirstFree, Proc
  <1>7. /\ cur' = 0 /\ mode' = "user" /\ page' = PageSwitch(0) /\ esp0' = 0
        /\ pcb_state' = [pcb_state EXCEPT ![0] = 1]
        /\ pid'[0] = 0
    BY <1>1, <1>2, <1>5, <1>6 DEF Launch
  <1>8. page' = 0
    BY <1>5, <1>7, PageSwitchId
  <1>9. pcb_state'[0] = 1 /\ \A q \in Proc : q # 0 => pcb_state'[q] = 0
    BY <1>1, <1>5, <1>7 DEF TypeOK
  <1>. QED  BY <1>1, <1>2, <1>3, <1>5, <1>6, <1>7, <1>8, <1>9

LEMMA OwnPidsStep ==
    ASSUME Inv, OwnPids, HNext
    PROVE  OwnPids'
  <1>. SUFFICES ASSUME Alive', ~overwritten'
                PROVE  /\ \A p \in Proc : OnStack(p)' => pid'[p] = p
                       /\ \A p \in Proc : pcb_state'[p] = 1 => OnStack(p)'
    BY DEF OwnPids
  <1>1. Next /\ TypeOK
    BY DEF HNext, Inv
  <1>2. ~overwritten /\ \A p \in Proc : p # cur' => pid'[p] = pid[p]
    BY Zenon DEF HNext
  <1>3. CASE Boot
    BY <1>3, BootFacts DEF OnStack
  <1>4. CASE Launches
    <2>1. PICK p \in Proc, prog \in Program, frame \in Frame, at \in Term : \E procs, shells :
             Launch(p, prog, frame, procs, shells, at) /\ Suspend(frame)
      BY <1>4 DEF Launches
    <2>2. PICK procs, shells : Launch(p, prog, frame, procs, shells, at) /\ Suspend(frame)
      BY <2>1
    <2>3. Running /\ Alive
      BY <1>4 DEF Launches, Running, Alive
    <2>4. /\ cur' = p /\ pid'[p] = p
          /\ \A q \in Proc : q # p => pcb_state'[q] = pcb_state[q]
          /\ Len(callers) \in Nat /\ Len(callers') = Len(callers) + 1
          /\ \A i \in 1 .. Len(callers) : callers'[i] = callers[i]
          /\ callers'[Len(callers) + 1] = [proc |-> cur, frame |-> frame]
      BY <2>2, <2>3, LaunchFacts
    <2>5. callers'[Len(callers) + 1].proc = cur
      BY <2>4
    <2>6. \A q : OnStack(q)' <=> OnStack(q) \/ q = p
      BY <2>4, <2>5, StackPush, Zenon
    <2>. QED  BY <1>2, <2>3, <2>4, <2>6, Zenon DEF OwnPids
  <1>5. CASE Leaves
    <2>1. PICK procs, shells : Leave(procs, shells)
      BY <1>5 DEF Leaves
    <2>2. Alive
      BY <1>5 DEF Leaves, Running, Alive
    <2>3. /\ Len(callers) \in Nat /\ Len(callers) \in 1 .. Len(callers)
          /\ Len(callers') = Len(callers) - 1
          /\ \A i \in 1 .. Len(callers) - 1 : callers'[i] = callers[i]
          /\ cur' = callers[Len(callers)].proc
          /\ pid' = pid
          /\ pid[cur] \in Proc
          /\ pcb_state'[pid[cur]] = 0
          /\ \A q \in Proc : q # pid[cur] => pcb_state'[q] = pcb_state[q]
      BY <2>1, <2>2, LeaveFacts
    <2>4. \A q : OnStack(q) <=> OnStack(q)' \/ q = cur
      BY <2>3, StackPop, Zenon
    <2>5. pid[cur] = cur
      BY <1>1, <1>2, <2>2 DEF OwnPids, OnStack, TypeOK
    <2>6. \A q \in Proc : pcb_state'[q] = 1 => pcb_state[q] = 1 /\ q # cur
      BY <2>3, <2>5
    <2>. QED  BY <1>2, <2>2, <2>3, <2>4, <2>6, Zenon DEF OwnPids
  <1>6. CASE Stays
    BY <1>2, <1>6 DEF Stays, Alive, OwnPids, OnStack
  <1>. QED  BY <1>1, <1>3, <1>4, <1>5, <1>6, StepCases

----------------------------------------------------------------------------
(* No Alt+Fn keys: one terminal, and the tasks are the first PCBs.         *)

LEMMA OccupyFirst ==
    ASSUME NEW f \in SlotList, NEW p
    PROVE  /\ f[0] # None => Occupy(f, p)[0] = f[0]
           /\ f[0] = None => Occupy(f, p)[0] = p
  <1>1. 0 \in Slot /\ \A j \in Slot : ~(j < 0)
    BY SizesAssumption DEF Slot
  <1>. QED  BY <1>1 DEF Occupy

LEMMA VacateFirst ==
    ASSUME NEW f \in SlotList, NEW p
    PROVE  /\ f[0] # p => Vacate(f, p)[0] = f[0]
           /\ f[0] = p => Vacate(f, p)[0] = None
  <1>1. 0 \in Slot /\ \A j \in Slot : ~(j < 0)
    BY SizesAssumption DEF Slot
  <1>. QED  BY <1>1 DEF Vacate

(* A shell or an app is started on the running shell.                      *)
LEMMA OneTerminalExecute ==
    ASSUME Inv, OneTerminal, OneShell, NEW cmd \in Commands, Execute(cmd), ~switched, ~switched',
           ~nested' => ~nested /\ cmd # "shell"
    PROVE  OneTerminal' /\ OneShell'
  <1>1. PICK p \in Proc : Launch(p, cmd, "syscall", processes, terminal_shell, active_terminal)
    BY DEF Execute
  <1>. DEFINE t == active_terminal
              F == FirstShell
              n == Len(callers)
  <1>2. /\ TypeOK /\ Running /\ mode = "user" /\ Alive /\ Suspend("syscall") /\ cmd \in Program
        /\ image[cur] = "shell"
    BY DEF Inv, Running, Alive, Execute
  <1>3. t \in Term /\ processes \in [Term -> SlotList] /\ "syscall" \in Frame
    BY <1>2 DEF TypeOK, SlotList, Frame
  <1>4. /\ terminal_flag[t] = 0 /\ cur = n /\ F \in 0 .. cur
        /\ \A i \in 1 .. n : callers[i].proc = i - 1
        /\ \A i \in 1 .. n : callers[i].frame = IF i <= F THEN "halt" ELSE "syscall"
        /\ \A q \in Proc : pcb_state[q] = 1 => q <= cur
    BY <1>2 DEF OneTerminal
  <1>5. /\ cur < p /\ cur \in Proc /\ pcb_state[p] = 0
        /\ \A q \in Proc : q < p => pcb_state[q] = 1
        /\ cur' = p /\ mode' = "user" /\ page' = p /\ esp0' = p
        /\ pcb_state'[p] = 1 /\ \A q \in Proc : q # p => pcb_state'[q] = pcb_state[q]
        /\ pid[cur] = cur
        /\ n \in Nat
        /\ Len(callers') = n + 1
        /\ \A i \in 1 .. n : callers'[i] = callers[i]
        /\ callers'[n + 1] = [proc |-> cur, frame |-> "syscall"]
    BY <1>1, <1>2, <1>3, LaunchFacts
  <1>6. /\ active_terminal' = t /\ terminal_flag'[t] = 0
        /\ processes'[t] = Occupy(processes[t], p)
        /\ image'[p] = cmd
        /\ pid' = [q \in Proc |-> IF q = parent[p] THEN Occupy(processes[t], p)[0]
                                  ELSE IF q = p THEN p ELSE pid[q]]
    BY <1>1, <1>2, <1>3, <1>4 DEF Launch, Entered, TypeOK
  <1>7. Occupy(processes[t], p)[0] = F
    <2>1. processes[t] \in SlotList /\ F = processes[t][0]
      BY <1>3 DEF FirstShell
    <2>2. F # None
      BY <1>4, <1>5 DEF None, Proc
    <2>. QED  BY <2>1, <2>2, OccupyFirst
  <1>8. FirstShell' = F
    BY <1>6, <1>7 DEF FirstShell
  <1>. HIDE DEF t, F, n
  <1>9. p = cur + 1
    <2>1. cur + 1 \in Proc
      BY <1>5, SizesAssumption DEF Proc
    <2>2. cur + 1 < p => pcb_state[cur + 1] = 1
      BY <1>5, <2>1
    <2>3. ~(cur + 1 <= cur)
      BY <1>5 DEF Proc
    <2>. QED  BY <1>4, <1>5, <2>1, <2>2, <2>3 DEF Proc
  <1>10. cur' = Len(callers') /\ F \in 0 .. cur'
    BY <1>4, <1>5, <1>9 DEF Proc
  <1>11. \A i \in 1 .. Len(callers') : callers'[i].proc = i - 1
    <2>1. callers'[n + 1].proc = n
      BY <1>4, <1>5
    <2>. QED  BY <1>4, <1>5, <2>1
  <1>12. \A i \in 1 .. Len(callers') : callers'[i].frame = IF i <= F THEN "halt" ELSE "syscall"
    <2>. SUFFICES ASSUME NEW i \in 1 .. Len(callers')
                  PROVE  callers'[i].frame = IF i <= F THEN "halt" ELSE "syscall"
      OBVIOUS
    <2>1. CASE i = n + 1
      <3>1. ~(i <= F)
        BY <1>4, <1>5, <2>1
      <3>2. callers'[i].frame = "syscall"
        BY <1>5, <2>1
      <3>. QED  BY <3>1, <3>2
    <2>2. CASE i # n + 1
      <3>1. i \in 1 .. n
        BY <1>5, <2>2
      <3>. QED  BY <1>4, <1>5, <3>1
    <2>. QED  BY <2>1, <2>2
  <1>13. \A q \in Proc : pcb_state'[q] = 1 => q <= cur'
    BY <1>4, <1>5 DEF Proc
  <1>14. OneTerminal'
    BY <1>5, <1>6, <1>8, <1>10, <1>11, <1>12, <1>13 DEF OneTerminal
  <1>15. OneShell'
    <2>. SUFFICES ASSUME ~nested'
                  PROVE  Intact' /\ cur' = F + 1 /\ image'[cur'] = "app" /\ pid'[F] = F
      BY <1>8 DEF OneShell
    <2>1. cmd = "app" /\ ~nested
      BY <1>2 DEF Program
    <2>2. cur = F
      BY <1>2, <2>1 DEF OneShell, F
    <2>3. pid'[F] = F
      BY <1>5, <1>6, <1>7, <2>2 DEF Proc
    <2>. QED  BY <1>5, <1>6, <1>9, <2>1, <2>2, <2>3 DEF Intact
  <1>. QED  BY <1>14, <1>15

(* The first shell halts and is replaced by a new one.                     *)
LEMMA OneTerminalReplace ==
    ASSUME Inv, OneTerminal, Running, ~switched, ~switched',
           NEW procs \in [Term -> SlotList], NEW shells, NEW p \in Proc, NEW t \in Term,
           t = active_terminal, procs[t] = Vacate(processes[t], pid[cur]),
           processes[t][0] = pid[cur],
           Launch(p, "shell", "halt", procs, shells, t), Suspend("halt")
    PROVE  OneTerminal' /\ OneShell'
  <1>. DEFINE n == Len(callers)
  <1>1. TypeOK /\ mode = "user" /\ Alive
    BY DEF Inv, Running, Alive
  <1>2. "halt" \in Frame
    BY DEF Frame
  <1>3. /\ terminal_flag[t] = 0 /\ cur = n /\ FirstShell \in 0 .. cur
        /\ \A i \in 1 .. n : callers[i].proc = i - 1
        /\ \A i \in 1 .. n : callers[i].frame = IF i <= FirstShell THEN "halt" ELSE "syscall"
        /\ \A q \in Proc : pcb_state[q] = 1 => q <= cur
    BY <1>1 DEF OneTerminal
  <1>4. /\ cur < p /\ cur \in Proc /\ pcb_state[p] = 0
        /\ \A q \in Proc : q < p => pcb_state[q] = 1
        /\ cur' = p /\ mode' = "user" /\ page' = p /\ esp0' = p
        /\ pcb_state'[p] = 1 /\ \A q \in Proc : q # p => pcb_state'[q] = pcb_state[q]
        /\ pid[cur] = cur
        /\ n \in Nat
        /\ Len(callers') = n + 1
        /\ \A i \in 1 .. n : callers'[i] = callers[i]
        /\ callers'[n + 1] = [proc |-> cur, frame |-> "halt"]
    BY <1>2, LaunchFacts
  <1>5. FirstShell = cur
    BY <1>4 DEF FirstShell
  <1>6. /\ active_terminal' = t /\ terminal_flag'[t] = 0
        /\ processes'[t] = Occupy(procs[t], p)
    BY <1>1, <1>3 DEF Launch, Entered, TypeOK
  <1>7. Occupy(procs[t], p)[0] = p
    <2>1. processes[t] \in SlotList
      BY <1>1 DEF TypeOK, SlotList
    <2>2. procs[t][0] = None
      BY <2>1, VacateFirst
    <2>. QED  BY <2>2, OccupyFirst
  <1>8. FirstShell' = p
    BY <1>6, <1>7 DEF FirstShell
  <1>. HIDE DEF n
  <1>9. p = cur + 1
    <2>1. cur + 1 \in Proc
      BY <1>4, SizesAssumption DEF Proc
    <2>2. cur + 1 < p => pcb_state[cur + 1] = 1
      BY <1>4, <2>1
    <2>3. ~(cur + 1 <= cur)
      BY <1>4 DEF Proc
    <2>. QED  BY <1>3, <1>4, <2>1, <2>2, <2>3 DEF Proc
  <1>10. cur' = Len(callers') /\ p \in 0 .. cur'
    BY <1>3, <1>4, <1>9 DEF Proc
  <1>11. \A i \in 1 .. Len(callers') : callers'[i].proc = i - 1
    <2>1. callers'[n + 1].proc = n
      BY <1>3, <1>4
    <2>. QED  BY <1>3, <1>4, <2>1
  <1>12. \A i \in 1 .. Len(callers') : callers'[i].frame = IF i <= p THEN "halt" ELSE "syscall"
    <2>. SUFFICES ASSUME NEW i \in 1 .. Len(callers')
                  PROVE  callers'[i].frame = IF i <= p THEN "halt" ELSE "syscall"
      OBVIOUS
    <2>1. i <= p
      BY <1>3, <1>4, <1>9
    <2>2. CASE i = n + 1
      <3>1. callers'[i].frame = "halt"
        BY <1>4, <2>2
      <3>. QED  BY <2>1, <3>1
    <2>3. CASE i # n + 1
      <3>1. i \in 1 .. n /\ i <= FirstShell
        BY <1>3, <1>4, <1>5, <2>3
      <3>. QED  BY <1>3, <1>4, <2>1, <3>1
    <2>. QED  BY <2>2, <2>3
  <1>13. \A q \in Proc : pcb_state'[q] = 1 => q <= cur'
    BY <1>3, <1>4 DEF Proc
  <1>14. OneTerminal'
    BY <1>4, <1>6, <1>8, <1>10, <1>11, <1>12, <1>13 DEF OneTerminal
  <1>15. OneShell'
    BY <1>4, <1>8 DEF OneShell, Intact
  <1>. QED  BY <1>14, <1>15

(* A program ends and its caller goes on; or the first shell does, for     *)
(* want of a PCB, and with it all the halts that wait below it.            *)
LEMMA OneTerminalLeave ==
    ASSUME Inv, OneTerminal, OneShell, ~switched, ~switched', ~nested' => ~nested,
           NEW procs, NEW shells, Leave(procs, shells),
           \/ /\ Running
              /\ procs[active_terminal] = Vacate(processes[active_terminal], pid[cur])
           \/ mode = "unwind"
    PROVE  OneTerminal' /\ OneShell'
  <1>. DEFINE n == Len(callers)
              t == active_terminal
  <1>1. TypeOK /\ Alive
    BY DEF Inv, Running, Alive
  <1>2. CASE ~Alive'
    BY <1>2 DEF OneTerminal, OneShell, Alive
  <1>3. CASE Alive'
    <2>1. /\ n \in Nat /\ n \in 1 .. n
          /\ cur' = callers[n].proc /\ cur' \in Proc /\ cur' < cur
          /\ mode' = IF callers[n].frame = "halt" THEN "unwind" ELSE "user"
          /\ page' = pid[cur'] /\ esp0' = pid[cur'] /\ pid' = pid
          /\ pid[cur] \in Proc
          /\ pcb_state'[pid[cur]] = 0
          /\ \A q \in Proc : q # pid[cur] => pcb_state'[q] = pcb_state[q]
          /\ Len(callers') = n - 1
          /\ \A i \in 1 .. n - 1 : callers'[i] = callers[i]
          /\ processes' = procs
          /\ UNCHANGED <<image, terminal_flag, active_terminal>>
      BY <1>1, <1>3, LeaveFacts
    <2>2. terminal_flag[t] = 0 /\ cur = n /\ \A i \in 1 .. n : callers[i].proc = i - 1
      BY <1>1 DEF OneTerminal
    <2>. HIDE DEF n
    <2>3. /\ cur' = n - 1 /\ cur' = Len(callers')
          /\ \A i \in 1 .. Len(callers') : i \in 1 .. n /\ callers'[i] = callers[i]
      BY <2>1, <2>2
    <2>4. CASE \A i \in 1 .. n : callers[i].frame = "halt"
      <3>1. mode' = "unwind"
        BY <2>1, <2>4
      <3>2. \A i \in 1 .. Len(callers') : callers'[i].frame = "halt"
        BY <2>3, <2>4
      <3>3. \A i \in 1 .. Len(callers') : callers'[i].proc = i - 1
        BY <2>2, <2>3
      <3>4. terminal_flag'[active_terminal'] = 0
        BY <2>1, <2>2
      <3>. QED  BY <2>3, <3>1, <3>2, <3>3, <3>4 DEF OneTerminal, OneShell
    <2>5. CASE ~ \A i \in 1 .. n : callers[i].frame = "halt"
      <3>. DEFINE F == FirstShell
      <3>1. mode # "unwind" /\ Running /\ mode = "user"
        BY <1>1, <2>5 DEF OneTerminal, Running, n
      <3>2. /\ F \in 0 .. cur
            /\ \A i \in 1 .. n : callers[i].frame = IF i <= F THEN "halt" ELSE "syscall"
            /\ \A q \in Proc : pcb_state[q] = 1 => q <= cur
        BY <1>1, <3>1 DEF OneTerminal, n
      <3>3. pid[cur] = cur
        BY <3>1 DEF Inv, OwnTask
      <3>4. F # cur
        <4>1. SUFFICES ASSUME F = cur PROVE FALSE
          OBVIOUS
        <4>2. \A i \in 1 .. n : i <= F
          BY <2>1, <2>2, <4>1
        <4>. QED  BY <2>5, <3>2, <4>2
      <3>5. F \in 0 .. n - 1 /\ F \in Int
        BY <2>1, <2>2, <3>2, <3>4
      <3>6. FirstShell' = F
        <4>1. processes[t] \in SlotList /\ processes[t][0] = F
          BY <1>1 DEF TypeOK, SlotList, FirstShell
        <4>2. procs[t] = Vacate(processes[t], pid[cur])
          BY <3>1
        <4>3. procs[t][0] = F
          BY <3>3, <3>4, <4>1, <4>2, VacateFirst
        <4>. QED  BY <2>1, <4>3 DEF FirstShell
      <3>. HIDE DEF F
      <3>7. mode' = "user"
        <4>1. ~(n <= F)
          BY <2>1, <3>5
        <4>2. callers[n].frame = "syscall"
          BY <2>1, <3>2, <4>1
        <4>. QED  BY <2>1, <4>2
      <3>8. \A i \in 1 .. Len(callers') : callers'[i].frame = IF i <= F THEN "halt" ELSE "syscall"
        BY <2>3, <3>2
      <3>9. \A i \in 1 .. Len(callers') : callers'[i].proc = i - 1
        BY <2>2, <2>3
      <3>10. \A q \in Proc : pcb_state'[q] = 1 => q <= cur'
        BY <2>1, <2>2, <2>3, <3>2, <3>3 DEF Proc
      <3>11. terminal_flag'[active_terminal'] = 0
        BY <2>1, <2>2
      <3>12. F \in 0 .. cur'
        BY <2>3, <3>5
      <3>13. OneTerminal'
        BY <2>3, <3>6, <3>7, <3>8, <3>9, <3>10, <3>11, <3>12 DEF OneTerminal
      <3>14. OneShell'
        <4>. SUFFICES ASSUME ~nested' PROVE Intact' /\ cur' = FirstShell'
          BY DEF OneShell
        <4>1. cur = F + 1 /\ pid[F] = F
          BY <3>1, <3>4 DEF OneShell, F
        <4>2. cur' = F
          BY <2>2, <2>3, <3>5, <4>1
        <4>. QED  BY <2>1, <3>6, <4>1, <4>2 DEF Intact
      <3>. QED  BY <3>13, <3>14
    <2>. QED  BY <2>4, <2>5
  <1>. QED  BY <1>2, <1>3

(* The arguments of halt() are well typed.                                 *)
LEMMA HaltTypes ==
    ASSUME Inv, Halt
    PROVE  LET t      == active_terminal
               procs  == [processes EXCEPT ![t] = Vacate(processes[t], pid[cur])]
           IN  /\ t \in Term /\ procs \in [Term -> SlotList]
               /\ processes[t] \in SlotList
               /\ procs[t] = Vacate(processes[t], pid[cur])
               /\ \A u \in Term : u # t => procs[u] = processes[u]
               /\ Running /\ pid[cur] = cur /\ cur \in Proc
  <1>1. TypeOK /\ Running
    BY DEF Inv, Halt
  <1>2. active_terminal \in Term /\ processes \in [Term -> SlotList] /\ cur \in Proc
    BY <1>1 DEF TypeOK, SlotList
  <1>3. pid[cur] = cur
    BY <1>1 DEF Inv, OwnTask
  <1>4. Vacate(processes[active_terminal], pid[cur]) \in SlotList
    BY <1>2, <1>3, VacateType
  <1>. QED  BY <1>1, <1>2, <1>3, <1>4

LEMMA OneTerminalStep ==
    ASSUME Inv, NoneYet, OneTerminal, OneShell, HNext
    PROVE  OneTerminal' /\ OneShell'
  <1>. SUFFICES ASSUME ~switched' PROVE OneTerminal' /\ OneShell'
    BY DEF OneTerminal, OneShell
  <1>1. /\ Next /\ TypeOK /\ ~switched /\ \A t \in Term : ~DisplaySwitch(t)
        /\ ~nested' => ~nested /\ \A cmd \in Commands \cap {"shell"} : ~Execute(cmd)
    BY Zenon DEF HNext, Inv
  <1>2. CASE Boot
    <2>1. PICK t \in Term :
              /\ Launch(0, "shell", "entry", processes, terminal_shell, t)
              /\ callers' = <<>> /\ Len(callers') = 0
              /\ 0 \in Proc /\ cur' = 0 /\ mode' = "user" /\ page' = 0 /\ esp0' = 0
              /\ \A q \in Proc : q # 0 => pcb_state'[q] = 0
      BY <1>2, BootFacts
    <2>2. terminal_flag[t] = 1
      BY <1>2 DEF Boot, NoneYet
    <2>3. /\ active_terminal' = t /\ terminal_flag'[t] = 0
          /\ processes'[t] = [processes[t] EXCEPT ![0] = 0]
      BY <1>1, <2>1, <2>2 DEF Launch, Entered, TypeOK
    <2>4. 0 \in Slot
      BY SizesAssumption DEF Slot
    <2>5. FirstShell' = 0
      BY <1>1, <2>3, <2>4 DEF FirstShell, TypeOK
    <2>6. \A q \in Proc : pcb_state'[q] = 1 => q <= 0
      BY <2>1
    <2>7. OneTerminal'
      BY <2>1, <2>3, <2>5, <2>6 DEF OneTerminal
    <2>8. OneShell'
      BY <2>1, <2>5 DEF OneShell, Intact
    <2>. QED  BY <2>7, <2>8
  <1>3. ASSUME NEW cmd \in Commands, Execute(cmd) PROVE OneTerminal' /\ OneShell'
    <2>1. ~nested' => ~nested /\ cmd # "shell"
      BY <1>1, <1>3
    <2>. QED  BY <1>1, <1>3, <2>1, OneTerminalExecute
  <1>4. CASE Halt
    <2>. DEFINE t      == active_terminal
                procs  == [processes EXCEPT ![t] = Vacate(processes[t], pid[cur])]
                shells == IF terminal_shell[t] = pid[cur]
                          THEN [terminal_shell EXCEPT ![t] = pid[parent[cur]]] ELSE terminal_shell
    <2>1. /\ t \in Term /\ procs \in [Term -> SlotList]
          /\ procs[t] = Vacate(processes[t], pid[cur])
          /\ Running
      BY <1>4, HaltTypes
    <2>2. CASE /\ processes[t][0] = pid[cur]
               /\ \E p \in Proc : Launch(p, "shell", "halt", procs, shells, t)
               /\ Suspend("halt")
      <3>1. PICK p \in Proc : Launch(p, "shell", "halt", procs, shells, t)
        BY <2>2
      <3>2. PICK u, ps, ss :
               u \in Term /\ ps \in [Term -> SlotList] /\ u = t /\ ps = procs /\ ss = shells
        BY <2>1
      <3>. ps \in [Term -> SlotList] /\ u \in Term
        BY <3>2
      <3>3. Launch(p, "shell", "halt", ps, ss, u)
        BY <3>1, <3>2 DEF Launch, Entered
      <3>4. u = active_terminal /\ ps[u] = Vacate(processes[u], pid[cur]) /\ processes[u][0] = pid[cur]
        BY <2>1, <2>2, <3>2
      <3>. HIDE DEF t, procs, shells
      <3>. QED  BY <1>1, <2>1, <2>2, <3>3, <3>4, OneTerminalReplace
    <2>3. CASE Leave(procs, shells)
      <3>1. PICK ps, ss : ps = procs /\ ss = shells
        OBVIOUS
      <3>2. Leave(ps, ss)
        BY <2>3, <3>1 DEF Leave
      <3>3. ps[active_terminal] = Vacate(processes[active_terminal], pid[cur])
        BY <2>1, <3>1
      <3>. HIDE DEF t, procs, shells
      <3>. QED  BY <1>1, <2>1, <3>2, <3>3, OneTerminalLeave
    <2>. QED  BY <1>4, <2>2, <2>3 DEF Halt
  <1>5. CASE ResumeHalt
    <2>1. PICK ps, ss : ps = processes /\ ss = terminal_shell
      OBVIOUS
    <2>2. Leave(ps, ss) /\ mode = "unwind"
      BY <1>5, <2>1 DEF Leave, ResumeHalt
    <2>. QED  BY <1>1, <2>2, OneTerminalLeave
  <1>6. ASSUME NEW cmd \in Commands, ExecuteFails(cmd) PROVE OneTerminal' /\ OneShell'
    <2>1. UNCHANGED vars
      BY <1>6 DEF ExecuteFails
    <2>2. OneTerminal'
      BY <1>1, <2>1 DEF OneTerminal, FirstShell, Alive, vars, tableVars, termVars, cpuVars
    <2>. QED
      BY <1>1, <2>1, <2>2 DEF OneShell, FirstShell, Intact, vars, tableVars, termVars, cpuVars
  <1>7. CASE Astray
    <2>1. mode' = "astray"
      BY <1>7 DEF Astray
    <2>. QED  BY <2>1 DEF OneTerminal, OneShell, Alive
  <1>. QED
    BY <1>1, <1>2, <1>3, <1>4, <1>5, <1>6, <1>7 DEF Next, AppEnds, ShellEnds

----------------------------------------------------------------------------
(* Programs end on their own terminal: the lists of slots.                 *)

(* Emptying a slot adds nothing, and removes a pid that is there once.     *)
LEMMA VacateFacts ==
    ASSUME NEW f \in SlotList, NEW p \in Proc,
           \A i, j \in Slot : f[i] = p /\ f[j] = p => i = j
    PROVE  \A i \in Slot : /\ Vacate(f, p)[i] # p
                           /\ Vacate(f, p)[i] # None => Vacate(f, p)[i] = f[i]
  <1>1. None # p
    BY NoneIsNoProc
  <1>2. ASSUME NEW i \in Slot, f[i] = p PROVE \A j \in Slot : j < i => f[j] # p
    <2>1. \A j \in Slot : j < i => j # i
      BY DEF Slot
    <2>. QED  BY <1>2, <2>1
  <1>. QED  BY <1>1, <1>2 DEF Vacate

(* Entering a pid changes an empty slot, or none.                          *)
LEMMA OccupyFacts ==
    ASSUME NEW f \in SlotList, NEW p \in Proc, \A i \in Slot : f[i] # p
    PROVE  /\ \A i \in Slot : Occupy(f, p)[i] = p \/ Occupy(f, p)[i] = f[i]
           /\ \A i, j \in Slot : Occupy(f, p)[i] = p /\ Occupy(f, p)[j] = p => i = j
  <1>1. \A i \in Slot : Occupy(f, p)[i] = p \/ Occupy(f, p)[i] = f[i]
    BY DEF Occupy
  <1>2. \A i \in Slot : Occupy(f, p)[i] = p =>
            f[i] = None /\ \A j \in Slot : j < i => f[j] # None
    BY DEF Occupy
  <1>3. \A i, j \in Slot : i < j \/ j < i \/ i = j
    BY DEF Slot
  <1>. QED  BY <1>1, <1>2, <1>3

LEMMA EnteredFacts ==
    ASSUME TypeOK, NEW procs \in [Term -> SlotList], NEW at \in Term, NEW p \in Proc,
           \A i \in Slot : procs[at][i] # p
    PROVE  LET e == Entered(procs, at, p)
           IN  /\ \A i \in Slot : e[i] = p \/ e[i] = procs[at][i]
               /\ \A i, j \in Slot : e[i] = p /\ e[j] = p => i = j
  <1>1. procs[at] \in SlotList
    OBVIOUS
  <1>2. CASE terminal_flag[at] = 1
    <2>1. Entered(procs, at, p) = [procs[at] EXCEPT ![0] = p]
      BY <1>2 DEF Entered
    <2>. QED  BY <1>1, <2>1 DEF SlotList
  <1>3. CASE terminal_flag[at] # 1
    <2>1. Entered(procs, at, p) = Occupy(procs[at], p)
      BY <1>3 DEF Entered
    <2>. QED  BY <1>1, <2>1, OccupyFacts
  <1>. QED  BY <1>2, <1>3

(* A list of slots in which every pid is a taken PCB, on its terminal and  *)
(* once.                                                                   *)
InOrder(procs, h, taken) ==
    \A t \in Term, i \in Slot :
        procs[t][i] # None =>
            /\ h[procs[t][i]] = t
            /\ taken[procs[t][i]] = 1
            /\ \A j \in Slot : procs[t][j] = procs[t][i] => j = i

(* ... stays in order when p is entered.                                   *)
LEMMA InOrderEntered ==
    ASSUME TypeOK, NEW procs \in [Term -> SlotList], NEW at \in Term, NEW p \in Proc,
           InOrder(procs, home, pcb_state), pcb_state[p] # 1,
           processes' = [procs EXCEPT ![at] = Entered(procs, at, p)],
           home'[p] = at, pcb_state'[p] = 1,
           \A q \in Proc : q # p => home'[q] = home[q] /\ pcb_state'[q] = pcb_state[q]
    PROVE  /\ InOrder(processes', home', pcb_state')
           /\ \A t \in Term, i \in Slot : processes'[t][i] = p \/ processes'[t][i] = procs[t][i]
  <1>0. p # None
    BY NoneIsNoProc
  <1>1. \A t \in Term, i \in Slot : procs[t][i] # p
    BY <1>0 DEF InOrder
  <1>2. /\ \A i \in Slot : Entered(procs, at, p)[i] = p \/ Entered(procs, at, p)[i] = procs[at][i]
        /\ \A i, j \in Slot : Entered(procs, at, p)[i] = p /\ Entered(procs, at, p)[j] = p => i = j
    BY <1>1, EnteredFacts
  <1>3. processes'[at] = Entered(procs, at, p) /\ \A t \in Term : t # at => processes'[t] = procs[t]
    OBVIOUS
  <1>4. \A t \in Term, i \in Slot : procs[t][i] # None => procs[t][i] \in Proc
    BY DEF SlotList
  <1>5. \A t \in Term, i \in Slot : processes'[t][i] = p \/ processes'[t][i] = procs[t][i]
    BY <1>2, <1>3
  <1>6. ASSUME NEW t \in Term, NEW i \in Slot, processes'[t][i] = p
        PROVE  t = at /\ \A j \in Slot : processes'[t][j] = p => j = i
    BY <1>1, <1>2, <1>3, <1>6
  <1>7. ASSUME NEW t \in Term, NEW i \in Slot, processes'[t][i] # p, processes'[t][i] # None
        PROVE  /\ processes'[t][i] = procs[t][i] /\ procs[t][i] \in Proc
               /\ home[procs[t][i]] = t /\ pcb_state[procs[t][i]] = 1
               /\ \A j \in Slot : processes'[t][j] = processes'[t][i] => j = i
    <2>1. processes'[t][i] = procs[t][i]
      BY <1>5, <1>7
    <2>2. /\ home[procs[t][i]] = t /\ pcb_state[procs[t][i]] = 1
          /\ \A j \in Slot : procs[t][j] = procs[t][i] => j = i
      BY <1>7, <2>1 DEF InOrder
    <2>3. procs[t][i] \in Proc
      BY <1>4, <1>7, <2>1
    <2>. QED  BY <1>5, <1>7, <2>1, <2>2, <2>3
  <1>8. ASSUME NEW t \in Term, NEW i \in Slot, processes'[t][i] # None
        PROVE  /\ home'[processes'[t][i]] = t /\ pcb_state'[processes'[t][i]] = 1
               /\ \A j \in Slot : processes'[t][j] = processes'[t][i] => j = i
    <2>1. CASE processes'[t][i] = p
      BY <1>6, <2>1
    <2>2. CASE processes'[t][i] # p
      BY <1>7, <1>8, <2>2
    <2>. QED  BY <2>1, <2>2
  <1>. QED  BY <1>5, <1>8 DEF InOrder

HomeStep == home' = [p \in Proc |-> IF Started(p) THEN active_terminal' ELSE home[p]]

LEMMA SlotsLaunch ==
    ASSUME Inv, Running, HomeStep,
           NEW procs \in [Term -> SlotList], NEW shells, NEW p \in Proc, NEW at \in Term,
           NEW prog, NEW frame \in Frame,
           Launch(p, prog, frame, procs, shells, at), Suspend(frame),
           InOrder(procs, home, pcb_state),
           \A i \in 1 .. Len(callers) : callers[i].frame = "halt" =>
               \A t \in Term, j \in Slot : procs[t][j] # callers[i].proc,
           frame = "halt" => \A t \in Term, j \in Slot : procs[t][j] # cur
    PROVE  SlotsHome'
  <1>. DEFINE n == Len(callers)
  <1>1. TypeOK /\ Alive
    BY DEF Inv, Running, Alive
  <1>2. /\ cur < p /\ cur \in Proc /\ pcb_state[p] = 0
        /\ cur' = p /\ mode' = "user"
        /\ pcb_state'[p] = 1 /\ \A q \in Proc : q # p => pcb_state'[q] = pcb_state[q]
        /\ n \in Nat
        /\ Len(callers') = n + 1
        /\ \A i \in 1 .. n : callers'[i] = callers[i]
        /\ callers'[n + 1] = [proc |-> cur, frame |-> frame]
    BY LaunchFacts
  <1>3. active_terminal' = at /\ processes' = [procs EXCEPT ![at] = Entered(procs, at, p)]
    BY DEF Launch
  <1>4. \A q \in Proc : Started(q) <=> q = p
    BY <1>2 DEF Started
  <1>5. home'[p] = at /\ \A q \in Proc : q # p => home'[q] = home[q]
    BY <1>3, <1>4 DEF HomeStep
  <1>6. /\ InOrder(processes', home', pcb_state')
        /\ \A t \in Term, i \in Slot : processes'[t][i] = p \/ processes'[t][i] = procs[t][i]
    <2>1. pcb_state[p] # 1 /\ pcb_state'[p] = 1 /\ home'[p] = at
      BY <1>2, <1>5
    <2>2. \A q \in Proc : q # p => home'[q] = home[q] /\ pcb_state'[q] = pcb_state[q]
      BY <1>2, <1>5
    <2>3. TypeOK /\ processes' = [procs EXCEPT ![at] = Entered(procs, at, p)]
      BY <1>1, <1>3
    <2>4. InOrder(processes', home', pcb_state')
      BY <2>1, <2>2, <2>3, InOrderEntered
    <2>5. \A i \in Slot : procs[at][i] # p
      BY <2>1, NoneIsNoProc DEF InOrder
    <2>6. \A i \in Slot : Entered(procs, at, p)[i] = p \/ Entered(procs, at, p)[i] = procs[at][i]
      BY <2>3, <2>5, EnteredFacts
    <2>7. \A t \in Term, i \in Slot : processes'[t][i] = p \/ processes'[t][i] = procs[t][i]
      BY <2>3, <2>6
    <2>. QED  BY <2>4, <2>7, Zenon
  <1>7. \A i \in 1 .. n : callers[i].proc < cur /\ callers[i].proc \in Proc
    BY <1>1, CallersType DEF Inv, StackTaken
  <1>. HIDE DEF n
  <1>8. ASSUME NEW i \in 1 .. Len(callers'), callers'[i].frame = "halt"
        PROVE  \A t \in Term, j \in Slot : processes'[t][j] # callers'[i].proc
    <2>1. CASE i = n + 1
      <3>1. callers'[i].proc = cur /\ frame = "halt" /\ cur # p
        BY <1>2, <1>8, <2>1 DEF Proc
      <3>. QED  BY <1>6, <3>1
    <2>2. CASE i # n + 1
      <3>1. i \in 1 .. n
        BY <1>2, <2>2
      <3>2. callers'[i] = callers[i] /\ callers[i].proc # p
        BY <1>2, <1>7, <3>1 DEF Proc
      <3>. QED  BY <1>6, <1>8, <3>1, <3>2 DEF n
    <2>. QED  BY <2>1, <2>2
  <1>9. SlotsHome'
    BY <1>2, <1>6, <1>8 DEF SlotsHome, InOrder, Unlisted
  <1>. QED  BY <1>9

LEMMA SlotsLeave ==
    ASSUME Inv, Alive, HomeStep, NEW procs \in [Term -> SlotList], NEW shells, Leave(procs, shells),
           InOrder(procs, home, pcb_state),
           \A i \in 1 .. Len(callers) : callers[i].frame = "halt" =>
               \A t \in Term, j \in Slot : procs[t][j] # callers[i].proc,
           \A t \in Term, j \in Slot : procs[t][j] # cur /\ procs[t][j] # pid[cur]
    PROVE  SlotsHome'
  <1>. DEFINE n == Len(callers)
  <1>. SUFFICES ASSUME Alive' PROVE SlotsHome'
    BY DEF SlotsHome
  <1>1. TypeOK
    BY DEF Inv
  <1>2. /\ n \in Nat /\ n \in 1 .. n
        /\ cur' = callers[n].proc
        /\ mode' = IF callers[n].frame = "halt" THEN "unwind" ELSE "user"
        /\ pid' = pid
        /\ pid[cur] \in Proc
        /\ pcb_state'[pid[cur]] = 0
        /\ \A q \in Proc : q # pid[cur] => pcb_state'[q] = pcb_state[q]
        /\ Len(callers') = n - 1
        /\ \A i \in 1 .. n - 1 : callers'[i] = callers[i]
        /\ processes' = procs
    BY LeaveFacts
  <1>3. \A q \in Proc : ~Started(q)
    <2>1. \A q \in Proc : pcb_state[q] = 0 => pcb_state'[q] # 1
      BY <1>1, <1>2 DEF TypeOK
    <2>. QED  BY <2>1 DEF Started
  <1>4. \A q \in Proc : home'[q] = home[q]
    BY <1>3 DEF HomeStep
  <1>5. ASSUME NEW t \in Term, NEW i \in Slot, procs[t][i] # None
        PROVE  /\ home'[procs[t][i]] = t /\ pcb_state'[procs[t][i]] = 1
               /\ \A j \in Slot : procs[t][j] = procs[t][i] => j = i
    <2>1. procs[t][i] \in Proc
      BY <1>5 DEF SlotList
    <2>2. /\ home[procs[t][i]] = t /\ pcb_state[procs[t][i]] = 1
          /\ \A j \in Slot : procs[t][j] = procs[t][i] => j = i
      BY <1>5 DEF InOrder
    <2>3. procs[t][i] # pid[cur]
      OBVIOUS
    <2>. QED  BY <1>2, <1>4, <2>1, <2>2, <2>3
  <1>6. ASSUME NEW i \in 1 .. Len(callers'), callers'[i].frame = "halt"
        PROVE  \A t \in Term, j \in Slot : procs[t][j] # callers'[i].proc
    <2>1. i \in 1 .. n /\ callers'[i] = callers[i]
      BY <1>2
    <2>. QED  BY <1>6, <2>1
  <1>7. ASSUME mode' = "unwind"
        PROVE  \A t \in Term, j \in Slot : procs[t][j] # cur' /\ procs[t][j] # pid'[cur']
    <2>1. callers[n].frame = "halt"
      BY <1>2, <1>7
    <2>2. pid[callers[n].proc] \in {callers[n].proc, Callee(n)}
      BY <1>2, <2>1 DEF Inv, HaltPid
    <2>3. Callee(n) = cur
      BY DEF Callee
    <2>. HIDE DEF n
    <2>4. pid'[cur'] = cur' \/ pid'[cur'] = cur
      BY <1>2, <2>2, <2>3
    <2>5. \A t \in Term, j \in Slot : procs[t][j] # cur'
      BY <1>2, <2>1 DEF n
    <2>. QED  BY <2>4, <2>5
  <1>. QED  BY <1>2, <1>5, <1>6, <1>7 DEF SlotsHome, Unlisted

LEMMA SlotsStep ==
    ASSUME Inv, NoneYet, SlotsHome, HNext
    PROVE  SlotsHome'
  <1>. SUFFICES ASSUME ~crossed' PROVE SlotsHome'
    BY DEF SlotsHome
  <1>1. /\ Next /\ TypeOK /\ ~crossed /\ HomeStep
        /\ AppEnds \/ ShellEnds => active_terminal = home[cur]
    BY Zenon DEF HNext, Inv, HomeStep
  <1>2. processes \in [Term -> SlotList] /\ active_terminal \in Term
    BY <1>1 DEF TypeOK, SlotList
  <1>3. Alive => /\ InOrder(processes, home, pcb_state)
                 /\ \A i \in 1 .. Len(callers) : callers[i].frame = "halt" =>
                       \A t \in Term, j \in Slot : processes[t][j] # callers[i].proc
                 /\ mode = "unwind" =>
                       \A t \in Term, j \in Slot : processes[t][j] # cur /\ processes[t][j] # pid[cur]
    BY <1>1 DEF SlotsHome, InOrder, Unlisted
  <1>4. ASSUME Running, NEW p \in Proc, NEW prog, NEW frame \in Frame, frame # "halt", NEW at \in Term,
               Launch(p, prog, frame, processes, terminal_shell, at), Suspend(frame)
        PROVE  SlotsHome'
    <2>1. PICK procs, shells : procs \in [Term -> SlotList] /\ procs = processes /\ shells = terminal_shell
      BY <1>2
    <2>. procs \in [Term -> SlotList]
      BY <2>1
    <2>2. Launch(p, prog, frame, procs, shells, at)
      BY <1>4, <2>1 DEF Launch, Entered
    <2>3. InOrder(procs, home, pcb_state)
      BY <1>3, <1>4, <2>1 DEF InOrder, Running, Alive
    <2>4. \A i \in 1 .. Len(callers) : callers[i].frame = "halt" =>
             \A t \in Term, j \in Slot : procs[t][j] # callers[i].proc
      BY <1>3, <1>4, <2>1 DEF Running, Alive
    <2>. QED  BY <1>1, <1>4, <2>2, <2>3, <2>4, SlotsLaunch
  <1>5. CASE Boot
    <2>1. PICK t \in Term :
              /\ Launch(0, "shell", "entry", processes, terminal_shell, t)
              /\ callers' = <<>> /\ Len(callers') = 0
              /\ 0 \in Proc /\ cur' = 0 /\ mode' = "user"
              /\ pcb_state'[0] = 1
      BY <1>5, BootFacts
    <2>2. terminal_flag[t] = 1 /\ \A u \in Term, i \in Slot : processes[u][i] = None
      BY <1>5 DEF Boot, NoneYet
    <2>3. active_terminal' = t /\ processes' = [processes EXCEPT ![t] = [processes[t] EXCEPT ![0] = 0]]
      BY <2>1, <2>2 DEF Launch, Entered
    <2>4. 0 \in Slot
      BY SizesAssumption DEF Slot
    <2>5. \A u \in Term, i \in Slot : processes'[u][i] # None => u = t /\ i = 0 /\ processes'[u][i] = 0
      BY <1>2, <2>2, <2>3, <2>4 DEF SlotList
    <2>6. Started(0)
      BY <1>5, <2>1 DEF Started, Inv, BootState, Boot
    <2>7. home'[0] = t
      BY <1>1, <2>1, <2>3, <2>6 DEF HomeStep
    <2>8. ASSUME NEW u \in Term, NEW i \in Slot, processes'[u][i] # None
          PROVE  /\ home'[processes'[u][i]] = u /\ pcb_state'[processes'[u][i]] = 1
                 /\ \A j \in Slot : processes'[u][j] = processes'[u][i] => j = i
      <3>1. u = t /\ i = 0 /\ processes'[u][i] = 0
        BY <2>5, <2>8
      <3>2. \A j \in Slot : processes'[u][j] = processes'[u][i] => j = 0
        BY <2>5, <2>8
      <3>. QED  BY <2>1, <2>7, <3>1, <3>2
    <2>. QED  BY <2>1, <2>8 DEF SlotsHome
  <1>6. ASSUME NEW cmd \in Commands, Execute(cmd) PROVE SlotsHome'
    <2>1. Running /\ Suspend("syscall") /\ "syscall" \in Frame
      BY <1>6 DEF Execute, Frame
    <2>2. PICK p \in Proc : Launch(p, cmd, "syscall", processes, terminal_shell, active_terminal)
      BY <1>6 DEF Execute
    <2>3. PICK at \in Term : at = active_terminal
      BY <1>2
    <2>4. Launch(p, cmd, "syscall", processes, terminal_shell, at)
      BY <2>2, <2>3 DEF Launch, Entered
    <2>. QED  BY <1>4, <2>1, <2>4
  <1>7. CASE AppEnds \/ ShellEnds
    <2>. DEFINE t      == active_terminal
                procs  == [processes EXCEPT ![t] = Vacate(processes[t], pid[cur])]
                shells == IF terminal_shell[t] = pid[cur]
                          THEN [terminal_shell EXCEPT ![t] = pid[parent[cur]]] ELSE terminal_shell
    <2>1. Halt /\ home[cur] = t
      BY <1>1, <1>7 DEF AppEnds, ShellEnds
    <2>2. /\ t \in Term /\ procs \in [Term -> SlotList] /\ processes[t] \in SlotList
          /\ procs[t] = Vacate(processes[t], pid[cur])
          /\ \A u \in Term : u # t => procs[u] = processes[u]
          /\ Running /\ pid[cur] = cur /\ cur \in Proc
      BY <2>1, HaltTypes
    <2>3. Alive /\ cur # None
      BY <2>2, NoneIsNoProc DEF Running, Alive
    <2>4. \A u \in Term, i \in Slot : processes[u][i] # None =>
             /\ home[processes[u][i]] = u /\ pcb_state[processes[u][i]] = 1
             /\ \A j \in Slot : processes[u][j] = processes[u][i] => j = i
      BY <1>3, <2>3 DEF InOrder
    <2>5. PICK v, ps, ss : v \in Term /\ ps \in [Term -> SlotList] /\ v = t /\ ps = procs /\ ss = shells
      BY <2>2
    <2>. ps \in [Term -> SlotList] /\ v \in Term
      BY <2>5
    <2>6. \A i \in Slot : ps[v][i] # cur /\ (ps[v][i] # None => ps[v][i] = processes[v][i])
      <3>1. \A i, j \in Slot : processes[t][i] = cur /\ processes[t][j] = cur => i = j
        BY <2>2, <2>3, <2>4
      <3>2. \A i \in Slot : Vacate(processes[t], cur)[i] # cur /\
               (Vacate(processes[t], cur)[i] # None => Vacate(processes[t], cur)[i] = processes[t][i])
        BY <2>2, <3>1, VacateFacts
      <3>. QED  BY <2>2, <2>5, <3>2
    <2>7. \A u \in Term, i \in Slot : ps[u][i] # cur /\ (ps[u][i] # None => ps[u][i] = processes[u][i])
      <3>1. \A u \in Term, i \in Slot : u # t => ps[u][i] = processes[u][i] /\ processes[u][i] # cur
        BY <2>1, <2>2, <2>3, <2>4, <2>5
      <3>. QED  BY <2>5, <2>6, <3>1
    <2>8. InOrder(ps, home, pcb_state)
      BY <2>4, <2>7 DEF InOrder
    <2>9. \A i \in 1 .. Len(callers) : callers[i].frame = "halt" =>
             \A u \in Term, j \in Slot : ps[u][j] # callers[i].proc
      <3>1. \A i \in 1 .. Len(callers) : callers[i].proc # None
        BY <1>1, CallersType, NoneIsNoProc
      <3>. QED  BY <1>3, <2>3, <2>7, <3>1
    <2>10. CASE /\ \E p \in Proc : Launch(p, "shell", "halt", procs, shells, t)
                /\ Suspend("halt")
      <3>1. PICK p \in Proc : Launch(p, "shell", "halt", procs, shells, t)
        BY <2>10
      <3>2. Launch(p, "shell", "halt", ps, ss, v) /\ "halt" \in Frame
        BY <2>5, <3>1 DEF Launch, Entered, Frame
      <3>3. \A u \in Term, j \in Slot : ps[u][j] # cur
        BY <2>7
      <3>. HIDE DEF t, procs, shells
      <3>. QED  BY <1>1, <2>2, <2>8, <2>9, <2>10, <3>2, <3>3, SlotsLaunch
    <2>11. CASE Leave(procs, shells)
      <3>1. Leave(ps, ss)
        BY <2>5, <2>11 DEF Leave
      <3>2. \A u \in Term, j \in Slot : ps[u][j] # cur /\ ps[u][j] # pid[cur]
        BY <2>2, <2>7
      <3>. HIDE DEF t, procs, shells
      <3>. QED  BY <1>1, <2>3, <2>8, <2>9, <3>1, <3>2, SlotsLeave
    <2>. QED  BY <2>1, <2>10, <2>11 DEF Halt
  <1>8. CASE ResumeHalt
    <2>1. PICK ps, ss : ps \in [Term -> SlotList] /\ ps = processes /\ ss = terminal_shell
      BY <1>2
    <2>. ps \in [Term -> SlotList]
      BY <2>1
    <2>2. Leave(ps, ss) /\ mode = "unwind" /\ Alive
      BY <1>8, <2>1 DEF Leave, ResumeHalt, Alive
    <2>3. InOrder(ps, home, pcb_state)
      BY <1>3, <2>1, <2>2 DEF InOrder
    <2>4. \A i \in 1 .. Len(callers) : callers[i].frame = "halt" =>
             \A t \in Term, j \in Slot : ps[t][j] # callers[i].proc
      BY <1>3, <2>1, <2>2
    <2>5. \A t \in Term, j \in Slot : ps[t][j] # cur /\ ps[t][j] # pid[cur]
      BY <1>3, <2>1, <2>2
    <2>. QED  BY <1>1, <2>2, <2>3, <2>4, <2>5, SlotsLeave
  <1>9. CASE Stays
    <2>1. \A q \in Proc : ~Started(q)
      BY <1>9 DEF Stays, Started
    <2>2. \A q \in Proc : home'[q] = home[q]
      BY <1>1, <2>1 DEF HomeStep
    <2>3. \A t \in Term, i \in Slot : processes[t][i] # None => processes[t][i] \in Proc
      BY <1>2 DEF SlotList
    <2>4. Alive' => Alive /\ mode' = mode
      BY <1>9 DEF Stays, Alive
    <2>5. /\ processes' = processes /\ pcb_state' = pcb_state /\ callers' = callers /\ cur' = cur
          /\ pid' = pid
      BY <1>9 DEF Stays
    <2>. QED  BY <1>1, <2>2, <2>3, <2>4, <2>5 DEF SlotsHome, Unlisted
  <1>10. ASSUME NEW t \in Term, DisplaySwitch(t) PROVE SlotsHome'
    <2>1. "display_switch" \in Frame
      BY DEF Frame
    <2>2. CASE Running /\ Suspend("display_switch") /\ \E p \in Proc :
                  Launch(p, "shell", "display_switch", processes, terminal_shell, t)
      BY <1>4, <2>1, <2>2
    <2>. QED  BY <1>9, <1>10, <2>2 DEF DisplaySwitch, Stays
  <1>11. ASSUME NEW cmd \in Commands, ExecuteFails(cmd) PROVE SlotsHome'
    BY <1>9, <1>11 DEF ExecuteFails, Stays, vars, tableVars, termVars, cpuVars
  <1>12. CASE Astray
    BY <1>9, <1>12 DEF Astray, Stays, tableVars, termVars
  <1>. QED  BY <1>1, <1>5, <1>6, <1>7, <1>8, <1>10, <1>11, <1>12 DEF Next

----------------------------------------------------------------------------
LEMMA HInitInv == HInit => HInv
  <1>. SUFFICES ASSUME HInit PROVE HInv
    OBVIOUS
  <1>1. Inv /\ mode = "boot"
    BY InitInv DEF HInit, Init
  <1>2. NoneYet
    BY DEF HInit, Init, NoneYet
  <1>3. OwnPids /\ OneTerminal /\ OneShell /\ SlotsHome
    BY <1>1 DEF OwnPids, OneTerminal, OneShell, SlotsHome, Alive
  <1>. QED  BY <1>1, <1>2, <1>3 DEF HInv

LEMMA HNextInv ==
    ASSUME HInv, [HNext]_histVars
    PROVE  HInv'
  <1>1. CASE HNext
    <2>1. [Next]_vars /\ Next
      BY <1>1 DEF HNext
    <2>2. Inv'
      BY <2>1, NextInv DEF HInv
    <2>3. NoneYet'
      <3>1. mode' # "boot" \/ Stays
        <4>1. Launches => mode' = "user"
          BY DEF Launches, Launch
        <4>2. Boot => mode' = "user"
          BY DEF Boot, Launch
        <4>3. Leaves => mode' # "boot"
          BY DEF Leaves, Leave
        <4>. QED  BY <2>1, <4>1, <4>2, <4>3, StepCases DEF HInv, Inv
      <3>. QED  BY <3>1 DEF HInv, NoneYet, Stays
    <2>. QED  BY <1>1, <2>2, <2>3, OwnPidsStep, OneTerminalStep, SlotsStep DEF HInv
  <1>2. CASE UNCHANGED histVars
    <2>1. UNCHANGED vars /\ UNCHANGED home /\ UNCHANGED <<nested, switched, crossed, overwritten>>
      BY <1>2 DEF histVars, history
    <2>2. Inv'
      BY <2>1, NextInv DEF HInv
    <2>3. /\ UNCHANGED <<pcb_state, pid, image, processes, terminal_flag, active_terminal>>
          /\ UNCHANGED <<page, esp0, cur, callers, mode>>
      BY <2>1 DEF vars, tableVars, termVars, cpuVars
    <2>4. NoneYet' /\ OwnPids' /\ OneShell'
      BY <2>1, <2>3 DEF HInv, NoneYet, OwnPids, OnStack, OneShell, FirstShell, Intact, Alive
    <2>5. OneTerminal'
      BY <2>1, <2>3 DEF HInv, OneTerminal, FirstShell, Alive
    <2>6. SlotsHome'
      BY <2>1, <2>3 DEF HInv, SlotsHome, Unlisted, Alive
    <2>. QED  BY <2>2, <2>4, <2>5, <2>6 DEF HInv
  <1>. QED  BY <1>1, <1>2

(* The invariant of the process manager and its history.                   *)
THEOREM HistoryInvariant == HSpec => []HInv
  <1>. QED  BY HInitInv, HNextInv, PTL DEF HSpec

(* NoPcbLeaks, for every table of up to eight PCBs: without Alt+Fn keys,   *)
(* or as long as execute() has overwritten no pid, halt() gives back every *)
(* PCB that execute() took.                                                *)
THEOREM NeverLeaks == HSpec => []NoPcbLeaks
  <1>1. ASSUME HInv PROVE NoPcbLeaks
    <2>. SUFFICES ASSUME Running, ~overwritten \/ ~switched, NEW p \in Proc, pcb_state[p] = 1
                  PROVE  OnStack(p)
      BY DEF NoPcbLeaks, OnStack
    <2>1. Alive /\ mode = "user" /\ TypeOK
      BY <1>1 DEF Running, Alive, HInv, Inv
    <2>2. CASE ~overwritten
      BY <1>1, <2>1, <2>2 DEF HInv, OwnPids
    <2>3. CASE ~switched
      <3>1. /\ cur = Len(callers) /\ p <= cur
            /\ \A i \in 1 .. Len(callers) : callers[i].proc = i - 1
        BY <1>1, <2>1, <2>3 DEF HInv, OneTerminal
      <3>2. p \in Nat /\ cur \in Nat
        BY <2>1 DEF TypeOK, Proc
      <3>3. CASE p = cur
        BY <3>3 DEF OnStack
      <3>4. CASE p # cur
        <4>1. p + 1 \in 1 .. Len(callers) /\ (p + 1) - 1 = p
          BY <3>1, <3>2, <3>4
        <4>2. callers[p + 1].proc = p
          BY <3>1, <4>1
        <4>. QED  BY <4>1, <4>2 DEF OnStack
      <3>. QED  BY <3>3, <3>4
    <2>. QED  BY <2>2, <2>3
  <1>. QED  BY <1>1, HistoryInvariant, PTL

(* PageKept, for every table of up to eight PCBs: the caller of a program  *)
(* that ends goes on with its own page and kernel stack as long as         *)
(* execute() has overwritten no pid, or a single shell starts programs.    *)
THEOREM AlwaysPageKept == HSpec => []PageKept
  <1>1. ASSUME HInv, HInv', [HNext]_histVars, PageKept PROVE PageKept'
    <2>. SUFFICES ASSUME mode' = "user", ~overwritten', ~switched' => nested' PROVE Intact'
      <3>1. ~nested' /\ ~switched' /\ mode' = "user" => Intact'
        BY <1>1 DEF HInv, OneShell
      <3>. QED  BY <3>1 DEF PageKept, ParentPage
    <2>0. Alive'
      BY DEF Alive
    <2>1. CASE UNCHANGED histVars
      BY <1>1, <2>1 DEF histVars, history, vars, cpuVars, PageKept, ParentPage, Intact
    <2>2. CASE HNext
      <3>1. Next /\ Inv /\ TypeOK /\ ~overwritten
        BY <1>1, <2>2, Zenon DEF HNext, HInv, Inv
      <3>2. CASE Boot
        BY <3>1, <3>2, BootFacts DEF Intact
      <3>3. CASE Launches
        <4>1. PICK p \in Proc, prog \in Program, frame \in Frame, at \in Term : \E procs, shells :
                 Launch(p, prog, frame, procs, shells, at) /\ Suspend(frame)
          BY <3>3 DEF Launches
        <4>2. PICK procs, shells : Launch(p, prog, frame, procs, shells, at) /\ Suspend(frame)
          BY <4>1
        <4>3. Running
          BY <3>3 DEF Launches
        <4>4. cur' = p /\ page' = p /\ esp0' = p
          BY <3>1, <4>2, <4>3, LaunchFacts
        <4>. QED  BY <4>4 DEF Intact
      <3>4. CASE Leaves
        <4>1. PICK procs, shells : Leave(procs, shells)
          BY <3>4 DEF Leaves
        <4>2. Alive
          BY <3>4 DEF Leaves, Running, Alive
        <4>3. cur' \in Proc /\ page' = pid[cur'] /\ esp0' = pid[cur'] /\ pid' = pid
          BY <2>0, <3>1, <4>1, <4>2, LeaveFacts
        <4>4. pid'[cur'] = cur'
          BY <1>1, <2>0, <4>3 DEF HInv, OwnPids, OnStack
        <4>. QED  BY <4>3, <4>4 DEF Intact
      <3>5. CASE Stays
        <4>1. mode = "user" /\ cur' = cur /\ esp0' = esp0 /\ page' \in {page, PageSwitch(pid[cur])}
          BY <3>5 DEF Stays
        <4>2. page = cur /\ esp0 = cur
          BY <1>1, <3>1, <4>1 DEF PageKept, ParentPage, Intact
        <4>3. pid[cur] = cur /\ cur \in Proc
          BY <1>1, <3>1, <4>1 DEF HInv, OwnPids, OnStack, Alive, TypeOK
        <4>4. PageSwitch(pid[cur]) = cur
          BY <4>3, PageSwitchId
        <4>. QED  BY <4>1, <4>2, <4>4 DEF Intact
      <3>. QED  BY <3>1, <3>2, <3>3, <3>4, <3>5, StepCases
    <2>. QED  BY <1>1, <2>1, <2>2
  <1>2. HInit => PageKept
    BY DEF HInit, Init, PageKept, ParentPage
  <1>. QED  BY <1>1, <1>2, HistoryInvariant, PTL DEF HSpec

(* SlotsKept, for any number of terminals and slots and up to eight PCBs:  *)
(* as long as programs end on the terminal they were started on, halt()    *)
(* finds and empties the slot of the process that ends.                    *)
THEOREM SlotsAlwaysKept == HSpec => []SlotsKept
  <1>1. HInv => SlotsKept
    BY DEF HInv, SlotsHome, SlotsKept, SlotsLive
  <1>. QED  BY <1>1, HistoryInvariant, PTL
============================================================================
