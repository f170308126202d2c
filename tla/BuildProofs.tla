---------------------------- MODULE BuildProofs ---------------------------
(* Build for any number of processes, any commands and any faults: what a  *)
(* build reads is its own, success means an executable image, and nothing  *)
(* temporary is left behind.  The proofs rest on two facts about processes *)
(* that run at once, `Apart`: no two have one id, or one output; and on    *)
(* `Haunted`: only a build that was given its id can meet the compiler of  *)
(* a killed one.                                                           *)
EXTENDS Build, TLAPS

Fields  == {"pc", "cmd", "pid", "inputs", "held", "code"}
Writing == {"linking", "writing", "marking"}
Places  == {"idle", "compiling", "reading", "removing", "loading", "gone"} \cup Writing

\* What may be read into an input: a file as it was found, or what one compiles to.
Sources == {f \in DOMAIN Disk : Disk[f].kind = "source"}
Legible == {Disk[f] : f \in DOMAIN Disk} \cup {EmFile(Disk[f].of[1]) : f \in Sources}
Left    == Legible \cup {Partial}

Shape(p) ==
    /\ DOMAIN proc[p] = Fields
    /\ proc[p].pc \in Places
    /\ proc[p].inputs \in Seq(Legible)
    /\ ~At(p, "idle") => Cmd(p) \in Commands

\* Where a process is among its inputs.
Stage(p) ==
    /\ At(p, "idle") => proc[p].inputs = <<>>
    /\ proc[p].pc \in {"compiling", "reading", "removing"} =>
           Cmd(p).does = "build" /\ Index(p) < Len(Cmd(p).paths)
    /\ At(p, "loading") => Cmd(p).does = "encode" /\ proc[p].inputs = <<>>
    /\ proc[p].pc \in Writing => Index(p) = Len(Cmd(p).paths)
    /\ At(p, "marking") => Cmd(p).does = "build"

\* A content is what p's input now being compiled compiles to.
CompiledNow(p, content) ==
    /\ PathNow(p) \in DOMAIN Disk
    /\ Disk[PathNow(p)].kind = "source"
    /\ content = EmFile(Disk[PathNow(p)].of[1])

OwnInputs(p) ==
    Cmd(p).does = "build" =>
        \A k \in DOMAIN proc[p].inputs :
            /\ Disk[Cmd(p).paths[k]].kind = "source"
            /\ proc[p].inputs[k] = EmFile(Disk[Cmd(p).paths[k]].of[1])

\* What a process has in hand is its own, if no killed build's compiler has its id.
Owned(p) ==
    /\ p \notin shadowed => OwnInputs(p)
    /\ At(p, "reading") => /\ TempOf(p) \in DOMAIN temps
                           /\ p \notin shadowed => CompiledNow(p, temps[TempOf(p)])
    /\ At(p, "removing") => /\ proc[p].held \in Left
                            /\ p \notin shadowed => CompiledNow(p, proc[p].held)
    /\ At(p, "writing") => proc[p].held = Image(Made(proc[p].inputs))

\* Nobody else has written, or will write, where p does.
Alone(p) == \A q \in Slots \ {p} : At(q, "idle") \/ Cmd(q).output # Cmd(p).output

Written(p) ==
    /\ Cmd(p).output \in DOMAIN files
    /\ files[Cmd(p).output] = Image(Made(proc[p].inputs))

Delivered(p) ==
    /\ At(p, "marking") => Written(p)
    /\ At(p, "gone") /\ proc[p].code = 0 /\ Alone(p) =>
           /\ Written(p)
           /\ Index(p) = Len(Cmd(p).paths)
           /\ Cmd(p).does = "build" => Cmd(p).output \in marked

Good(p) == Shape(p) /\ Stage(p) /\ Owned(p) /\ Delivered(p)

\* A file is what it was, or what some process has written since.
Found ==
    \A f \in DOMAIN files :
        \/ f \in DOMAIN Disk /\ files[f] = Disk[f]
        \/ files[f].kind \in {"image", "partial"}

\* A temporary is what some source compiles to, or a part of it.
Dropped == \A t \in DOMAIN temps : temps[t] \in Left

\* A compiler that runs on belongs to a build that is gone, after a fault, and
\* shares its id with none but those that were given it since.
Haunted ==
    /\ orphans \subseteq Slots
    /\ faults = 0 => orphans = {}
    /\ \A q \in orphans : At(q, "gone")
    /\ \A q \in orphans, p \in Slots \ shadowed : Live(p) => proc[p].pid # proc[q].pid

Apart ==
    \A p, q \in Slots :
        p # q /\ Live(p) /\ Live(q) => proc[p].pid # proc[q].pid /\ Cmd(p).output # Cmd(q).output

Holding(p) == proc[p].pc \in {"reading", "removing"}

Claimed == faults = 0 => \A t \in DOMAIN temps : \E p \in Slots : Holding(p) /\ TempOf(p) = t

IInv ==
    /\ DOMAIN proc = Slots /\ faults \in Nat
    /\ Found /\ Dropped /\ Apart /\ Haunted /\ Claimed
    /\ \A p \in Slots : Good(p)

---------------------------------------------------------------------------
\* It holds before any process starts.
LEMMA InitIInv == Init => IInv
<1> SUFFICES ASSUME Init PROVE IInv
  OBVIOUS
<1>1. ASSUME NEW p \in Slots
      PROVE  DOMAIN proc[p] = Fields /\ At(p, "idle") /\ proc[p].inputs = <<>> /\ Cmd(p).does = "build"
  BY DEF Init, Idle, Fields, At, Cmd
<1>2. DOMAIN proc = Slots /\ faults \in Nat /\ Found /\ Dropped /\ Haunted /\ Claimed
  BY DEF Init, Found, Dropped, Haunted, Claimed
<1>3. Apart
  BY <1>1 DEF Apart, Live, At
<1>4. ASSUME NEW p \in Slots PROVE Good(p)
  <2>1. Shape(p)
    <3>0. <<>> \in Seq(Legible)
      OBVIOUS
    <3>1. proc[p].inputs \in Seq(Legible)
      BY <1>1, <3>0
    <3> QED BY <1>1, <3>1 DEF Shape, Places, At
  <2>3. Stage(p)
    BY <1>1 DEF Stage, Writing, At
  <2>2. Owned(p) /\ Delivered(p)
    BY <1>1 DEF Owned, OwnInputs, Delivered, At
  <2> QED BY <2>1, <2>2, <2>3 DEF Good
<1> QED BY <1>2, <1>3, <1>4 DEF IInv

---------------------------------------------------------------------------
(* What every step of a running process has in common.                     *)

\* A process takes a step: it stays who it is, and no other one moves.
Stays(p) ==
    /\ Live(p)
    /\ DOMAIN proc' = Slots
    /\ \A q \in Slots \ {p} : proc'[q] = proc[q]
    /\ proc'[p].cmd = proc[p].cmd /\ proc'[p].pid = proc[p].pid /\ proc'[p].pc # "idle"

\* It touches no temporary but its own, and no file but its output.
Reaches(p) ==
    /\ \A t : t # TempOf(p) => /\ t \in DOMAIN temps' <=> t \in DOMAIN temps
                               /\ t \in DOMAIN temps => temps'[t] = temps[t]
    /\ \A f : f # Cmd(p).output => /\ f \in DOMAIN files' <=> f \in DOMAIN files
                                   /\ f \in DOMAIN files => files'[f] = files[f]
    /\ Cmd(p).output \in DOMAIN files' =>
           \/ Cmd(p).output \in DOMAIN files /\ files'[Cmd(p).output] = files[Cmd(p).output]
           \/ files'[Cmd(p).output].kind \in {"image", "partial"}
    /\ TempOf(p) \in DOMAIN temps' =>
           \/ TempOf(p) \in DOMAIN temps /\ temps'[TempOf(p)] = temps[TempOf(p)]
           \/ temps'[TempOf(p)] \in Left
    /\ marked \subseteq marked'
    /\ faults' \in {faults, faults + 1}
    /\ shadowed' = shadowed
    /\ \/ orphans' = orphans
       \/ orphans' = orphans \cup {p} /\ At(p, "gone")' /\ faults' # 0

Acts(p) == Stays(p) /\ Reaches(p)

\* A process whose temporary, output and rivals stay is as good as it was.
LEMMA StillGood ==
    ASSUME IInv, NEW q \in Slots, proc'[q] = proc[q],
           At(q, "reading") => /\ TempOf(q) \in DOMAIN temps'
                               /\ q \notin shadowed => temps'[TempOf(q)] = temps[TempOf(q)],
           q \in shadowed => q \in shadowed',
           Alone(q)' => Alone(q),
           Written(q) /\ (Live(q) \/ Alone(q)) => Written(q)',
           marked \subseteq marked'
    PROVE  Good(q)'
<1>1. Good(q)
  BY DEF IInv
<1>2. Shape(q)' /\ Stage(q)' /\ (q \notin shadowed' => OwnInputs(q)')
  BY <1>1 DEF Good, Shape, Stage, Owned, OwnInputs, At, Cmd, Index
<1>3. Owned(q)'
  BY <1>1, <1>2 DEF Good, Owned, At, TempOf, Index, CompiledNow, PathNow, Cmd
<1>4. Delivered(q)'
  <2>1. At(q, "marking") => Live(q)
    BY DEF At, Live
  <2>2. Cmd(q).output \in marked => Cmd(q).output \in marked'
    OBVIOUS
  <2> QED
    BY <1>1, <2>1, <2>2 DEF Good, Delivered, At, Index, Cmd
<1> QED BY <1>2, <1>3, <1>4 DEF Good

\* A step of one process leaves what is known of another in force.
LEMMA OthersKept ==
    ASSUME IInv, NEW p \in Slots, NEW q \in Slots, p # q, Acts(p)
    PROVE  Good(q)'
<1>1. proc'[q] = proc[q]
  BY DEF Acts, Stays
<1>2. Good(q)
  BY DEF IInv
<1>3. Live(q) => TempOf(q) # TempOf(p) /\ Cmd(q).output # Cmd(p).output
  BY DEF IInv, Apart, Acts, Stays, TempOf
<1>4. At(q, "reading") => TempOf(q) \in DOMAIN temps' /\ temps'[TempOf(q)] = temps[TempOf(q)]
  BY <1>2, <1>3 DEF Acts, Reaches, Good, Owned, At, Live
<1>5. Alone(q)' => Alone(q)
  BY <1>1 DEF Acts, Stays, Alone, At, Cmd, Live
<1>6. Alone(q) => Cmd(q).output # Cmd(p).output
  BY DEF Acts, Stays, Alone, At, Live
<1>7. Written(q) /\ Cmd(q).output # Cmd(p).output => Written(q)'
  BY <1>1 DEF Acts, Reaches, Written, Cmd
<1>8. marked \subseteq marked' /\ shadowed' = shadowed
  BY DEF Acts, Reaches
<1> QED BY <1>1, <1>3, <1>4, <1>5, <1>6, <1>7, <1>8, StillGood

\* Hence a step need only be right for the process that takes it.
LEMMA ActsKeep ==
    ASSUME IInv, NEW p \in Slots, Acts(p), Good(p)',
           faults' = 0 /\ TempOf(p) \in DOMAIN temps' => Holding(p)' /\ TempOf(p)' = TempOf(p)
    PROVE  IInv'
<1>1. Found'
  BY DEF IInv, Found, Acts, Reaches
<1>2. Apart'
  <2>1. \A q \in Slots : Live(q)' => Live(q)
    BY DEF Acts, Stays, Live
  <2>2. \A q \in Slots : proc'[q].pid = proc[q].pid /\ Cmd(q)' = Cmd(q)
    BY DEF Acts, Stays, Cmd
  <2> QED BY <2>1, <2>2 DEF IInv, Apart
<1>3. Claimed'
  <2> SUFFICES ASSUME faults' = 0, NEW t \in DOMAIN temps'
               PROVE  \E q \in Slots : Holding(q)' /\ TempOf(q)' = t
    BY DEF Claimed
  <2>1. faults = 0
    BY DEF Acts, Reaches, IInv
  <2>2. CASE t = TempOf(p)
    BY <2>2
  <2>3. CASE t # TempOf(p)
    <3>1. t \in DOMAIN temps
      BY <2>3 DEF Acts, Reaches
    <3>2. PICK q \in Slots : Holding(q) /\ TempOf(q) = t
      BY <2>1, <3>1 DEF IInv, Claimed
    <3>3. proc'[q] = proc[q]
      BY <2>3, <3>2 DEF Acts, Stays
    <3> QED BY <3>2, <3>3 DEF Holding, TempOf, Index
  <2> QED BY <2>2, <2>3
<1>4. \A q \in Slots : Good(q)'
  BY OthersKept
<1>5. DOMAIN proc' = Slots /\ faults' \in Nat
  BY DEF IInv, Acts, Stays, Reaches
<1>6. Dropped'
  BY DEF IInv, Dropped, Acts, Reaches
<1>7. Haunted'
  <2>1. \A q \in Slots : proc'[q].pid = proc[q].pid /\ (Live(q)' => Live(q)) /\ p \notin orphans
    BY DEF IInv, Haunted, Acts, Stays, Live, At
  <2>2. shadowed' = shadowed /\ (faults' = 0 => faults = 0)
    BY DEF IInv, Acts, Reaches
  <2>3. CASE orphans' = orphans
    <3>1. \A q \in orphans : At(q, "gone")'
      BY <2>1 DEF IInv, Haunted, Acts, Stays, At
    <3> QED BY <2>1, <2>2, <2>3, <3>1 DEF IInv, Haunted
  <2>4. CASE orphans' = orphans \cup {p} /\ At(p, "gone")' /\ faults' # 0
    <3>1. \A q \in orphans' : At(q, "gone")'
      BY <2>1, <2>4 DEF IInv, Haunted, Acts, Stays, At
    <3>2. ~Live(p)'
      BY <2>4 DEF Live, At
    <3>3. \A r \in Slots : Live(r)' => proc[r].pid # proc[p].pid
      BY <2>1, <3>2 DEF IInv, Apart, Acts, Stays
    <3> QED BY <2>1, <2>2, <2>4, <3>1, <3>3 DEF IInv, Haunted
  <2> QED BY <2>3, <2>4 DEF Acts, Reaches
<1> QED BY <1>1, <1>2, <1>3, <1>4, <1>5, <1>6, <1>7 DEF IInv

\* While nothing has gone wrong there is nothing where a process is about to
\* compile to: only a holder of its id could have left it there.
LEMMA NothingInTheWay ==
    ASSUME IInv, NEW p \in Slots, Live(p), ~Holding(p), faults = 0
    PROVE  TempOf(p) \notin DOMAIN temps
<1> SUFFICES ASSUME TempOf(p) \in DOMAIN temps PROVE FALSE
  OBVIOUS
<1>1. PICK q \in Slots : Holding(q) /\ TempOf(q) = TempOf(p)
  BY DEF IInv, Claimed
<1>2. p # q /\ Live(q) /\ proc[q].pid = proc[p].pid
  BY <1>1 DEF Holding, Live, TempOf
<1> QED BY <1>2 DEF IInv, Apart

\* A process that gives up is good whatever it leaves behind.
LEMMA FailedIsGood ==
    ASSUME IInv, NEW p \in Slots, Live(p), NEW code, code # 0, Exit(p, code), UNCHANGED shadowed
    PROVE  Stays(p) /\ Good(p)'
<1>1. proc' = [proc EXCEPT ![p] = [proc[p] EXCEPT !.pc = "gone", !.code = code]]
  BY DEF Exit
<1>2. Good(p) /\ DOMAIN proc = Slots
  BY DEF IInv
<1>3. /\ DOMAIN proc'[p] = Fields /\ proc'[p].pc = "gone" /\ proc'[p].code = code
      /\ proc'[p].cmd = proc[p].cmd /\ proc'[p].pid = proc[p].pid /\ proc'[p].inputs = proc[p].inputs
  BY <1>1, <1>2 DEF Good, Shape, Fields
<1>4. Stays(p)
  BY <1>1, <1>2, <1>3 DEF Stays
<1>5. Good(p)'
  BY <1>2, <1>3 DEF Good, Shape, Places, Stage, Writing, Owned, OwnInputs, Delivered, Live, At, Index, Cmd
<1> QED BY <1>4, <1>5

---------------------------------------------------------------------------
(* One lemma per action.                                                   *)

LEMMA StartKeeps == ASSUME IInv, NEW p \in Slots, Start(p) PROVE IInv'
<1>1. PICK cmd \in Commands, pid \in Pids :
          /\ \A q \in Slots : Live(q) => proc[q].pid # pid /\ Cmd(q).output # cmd.output
          /\ proc' = [proc EXCEPT ![p].cmd = cmd, ![p].pid = pid,
                                  ![p].pc = IF cmd.does = "build" THEN "compiling" ELSE "loading"]
          /\ shadowed' = IF \E q \in orphans : proc[q].pid = pid THEN shadowed \cup {p} ELSE shadowed
  BY DEF Start
<1>2. Good(p) /\ DOMAIN proc = Slots /\ At(p, "idle")
  BY DEF IInv, Start
<1>3. /\ proc'[p].pc = IF cmd.does = "build" THEN "compiling" ELSE "loading"
      /\ DOMAIN proc'[p] = Fields /\ proc'[p].inputs = proc[p].inputs
      /\ proc'[p].cmd = cmd /\ proc'[p].pid = pid
  BY <1>1, <1>2 DEF Good, Shape, Fields
<1>4. \A q \in Slots \ {p} : proc'[q] = proc[q]
  BY <1>1, <1>2
<1>5. UNCHANGED <<files, marked, temps, orphans, faults>>
  BY DEF Start
<1>6. Apart'
  BY <1>1, <1>2, <1>3, <1>4 DEF IInv, Apart, Live, Cmd, At
<1>7. Claimed'
  BY <1>2, <1>4, <1>5 DEF IInv, Claimed, Holding, TempOf, Index, At
<1>8. Good(p)'
  <2>1. proc[p].inputs = <<>> /\ proc[p].inputs \in Seq(Legible)
    BY <1>2 DEF Good, Stage, Shape
  <2>2. Len(cmd.paths) \in Nat \ {0} /\ cmd.does \in {"build", "encode"}
    BY CommandsAssumption
  <2>3. Shape(p)'
    BY <1>3, <2>1 DEF Shape, Places, At, Cmd
  <2>4. Stage(p)'
    <3>1. Index(p)' = 0
      BY <1>3, <2>1 DEF Index
    <3> QED BY <1>3, <2>1, <2>2, <3>1 DEF Stage, Writing, At, Cmd
  <2>5. Owned(p)' /\ Delivered(p)'
    BY <1>3, <2>1 DEF Owned, OwnInputs, Delivered, At
  <2> QED BY <2>3, <2>4, <2>5 DEF Good
<1>9. ASSUME NEW q \in Slots \ {p} PROVE Good(q)'
  <2>1. Alone(q)' => Alone(q)
    BY <1>2, <1>3, <1>4 DEF Alone, At, Cmd
  <2>2. Written(q) => Written(q)'
    BY <1>4, <1>5 DEF Written, Cmd
  <2>3. At(q, "reading") => TempOf(q) \in DOMAIN temps' /\ temps'[TempOf(q)] = temps[TempOf(q)]
    BY <1>5 DEF IInv, Good, Owned
  <2>4. q \in shadowed => q \in shadowed'
    BY <1>1
  <2> QED BY <1>4, <1>5, <2>1, <2>2, <2>3, <2>4, StillGood
<1>10. DOMAIN proc' = Slots /\ Found' /\ Dropped'
  BY <1>1, <1>2, <1>5 DEF IInv, Found, Dropped
<1>11. Haunted'
  <2>1. \A q \in orphans : q # p /\ At(q, "gone")'
    BY <1>2, <1>4 DEF IInv, Haunted, At
  <2>2. p \notin shadowed' => \A q \in orphans : proc[q].pid # pid
    BY <1>1
  <2>3. \A r \in Slots \ {p} : (Live(r)' <=> Live(r)) /\ (r \in shadowed <=> r \in shadowed')
    BY <1>1, <1>4 DEF Live
  <2> QED BY <1>3, <1>4, <1>5, <2>1, <2>2, <2>3 DEF IInv, Haunted
<1> QED BY <1>5, <1>6, <1>7, <1>8, <1>9, <1>10, <1>11 DEF IInv

LEMMA CompiledKeeps == ASSUME IInv, NEW p \in Slots, Compiled(p) PROVE IInv'
<1>1. /\ At(p, "compiling") /\ Compiles(PathNow(p))
      /\ temps' = With(temps, TempOf(p), EmFile(files[PathNow(p)].of[1]))
      /\ proc' = [proc EXCEPT ![p] = [proc[p] EXCEPT !.pc = "reading"]]
      /\ UNCHANGED <<files, marked, faults, orphans, shadowed>>
  BY DEF Compiled, Goto
<1>2. Good(p) /\ DOMAIN proc = Slots /\ Found
  BY DEF IInv
<1>3. /\ DOMAIN proc'[p] = Fields /\ proc'[p].pc = "reading" /\ proc'[p].inputs = proc[p].inputs
      /\ proc'[p].cmd = proc[p].cmd /\ proc'[p].pid = proc[p].pid
  BY <1>1, <1>2 DEF Good, Shape, Fields
<1>4. TempOf(p)' = TempOf(p) /\ PathNow(p)' = PathNow(p) /\ Cmd(p)' = Cmd(p) /\ Index(p)' = Index(p)
  BY <1>3 DEF TempOf, PathNow, Cmd, Index
<1>5. Acts(p)
  <2>1. Stays(p)
    BY <1>1, <1>2, <1>3 DEF Stays, Live, At
  <2>2. EmFile(files[PathNow(p)].of[1]) \in Left
    <3>1. PathNow(p) \in Sources /\ files[PathNow(p)] = Disk[PathNow(p)]
      BY <1>1, <1>2 DEF Compiles, Found, Sources
    <3> QED BY <3>1 DEF Left, Legible
  <2>3. Reaches(p)
    BY <1>1, <2>2 DEF Reaches, With
  <2> QED BY <2>1, <2>3 DEF Acts
<1>6. Shape(p)' /\ Stage(p)' /\ Delivered(p)' /\ (p \notin shadowed => OwnInputs(p)')
  BY <1>1, <1>2, <1>3, <1>4
  DEF Good, Owned, OwnInputs, Shape, Places, Stage, Writing, Delivered, At, Cmd
<1>7. Owned(p)'
  <2>1. TempOf(p) \in DOMAIN temps' /\ temps'[TempOf(p)] = EmFile(files[PathNow(p)].of[1])
    BY <1>1 DEF With
  <2>2. PathNow(p) \in DOMAIN Disk /\ files[PathNow(p)] = Disk[PathNow(p)]
        /\ Disk[PathNow(p)].kind = "source"
    BY <1>1, <1>2 DEF Compiles, Found
  <2> QED BY <1>1, <1>3, <1>4, <1>6, <2>1, <2>2 DEF Owned, CompiledNow, At
<1>8. Holding(p)'
  BY <1>3 DEF Holding
<1> QED BY <1>4, <1>5, <1>6, <1>7, <1>8, ActsKeep DEF Good

LEMMA CompileRefusesKeeps == ASSUME IInv, NEW p \in Slots, CompileRefuses(p) PROVE IInv'
<1>1. Live(p) /\ ~Holding(p) /\ Exit(p, 1) /\ UNCHANGED <<files, marked, temps, faults, orphans, shadowed>>
  BY DEF CompileRefuses, At, Live, Holding
<1>2. Acts(p) /\ Good(p)'
  BY <1>1, FailedIsGood DEF Acts, Reaches
<1> QED BY <1>1, <1>2, NothingInTheWay, ActsKeep

LEMMA CompileBreaksKeeps == ASSUME IInv, NEW p \in Slots, CompileBreaks(p) PROVE IInv'
<1>1. PICK code \in {1, 101} : Exit(p, code)
  BY DEF CompileBreaks
<1>2. PICK wrote \in BOOLEAN : temps' = IF wrote THEN With(temps, TempOf(p), Partial) ELSE temps
  BY DEF CompileBreaks
<1>3. Live(p) /\ faults' = faults + 1 /\ faults \in Nat /\ UNCHANGED <<files, marked, orphans, shadowed>>
  BY DEF CompileBreaks, At, Live, Fault, IInv
<1>4. Reaches(p)
  BY <1>2, <1>3 DEF Reaches, With, Left
<1>5. Acts(p) /\ Good(p)'
  BY <1>1, <1>3, <1>4, FailedIsGood DEF Acts
<1> QED BY <1>3, <1>5, ActsKeep

LEMMA ReadTempKeeps == ASSUME IInv, NEW p \in Slots, ReadTemp(p) PROVE IInv'
<1>1. /\ At(p, "reading") /\ TempOf(p) \in DOMAIN temps
      /\ proc' = [proc EXCEPT ![p] = [proc[p] EXCEPT !.pc = "removing", !.held = temps[TempOf(p)]]]
      /\ UNCHANGED <<files, marked, temps, faults, orphans, shadowed>>
  BY DEF ReadTemp
<1>2. Good(p) /\ DOMAIN proc = Slots
  BY DEF IInv
<1>3. /\ DOMAIN proc'[p] = Fields /\ proc'[p].pc = "removing" /\ proc'[p].inputs = proc[p].inputs
      /\ proc'[p].cmd = proc[p].cmd /\ proc'[p].pid = proc[p].pid /\ proc'[p].held = temps[TempOf(p)]
  BY <1>1, <1>2 DEF Good, Shape, Fields
<1>4. TempOf(p)' = TempOf(p) /\ PathNow(p)' = PathNow(p) /\ Cmd(p)' = Cmd(p) /\ Index(p)' = Index(p)
  BY <1>3 DEF TempOf, PathNow, Cmd, Index
<1>5. Acts(p)
  <2>1. Stays(p)
    BY <1>1, <1>2, <1>3 DEF Stays, Live, At
  <2>2. Reaches(p)
    BY <1>1 DEF Reaches
  <2> QED BY <2>1, <2>2 DEF Acts
<1>6. Good(p)'
  <2>1. Shape(p)' /\ Stage(p)' /\ Delivered(p)'
    BY <1>1, <1>2, <1>3, <1>4 DEF Good, Shape, Places, Stage, Writing, Delivered, At, Cmd
  <2>2. temps[TempOf(p)] \in Left /\ (p \notin shadowed => CompiledNow(p, temps[TempOf(p)]))
    BY <1>1, <1>2 DEF IInv, Dropped, Good, Owned
  <2>3. p \notin shadowed => OwnInputs(p)'
    BY <1>2, <1>3, <1>4 DEF Good, Owned, OwnInputs, Cmd
  <2> QED BY <1>1, <1>3, <1>4, <2>1, <2>2, <2>3 DEF Good, Owned, CompiledNow, At
<1>7. Holding(p)'
  BY <1>3 DEF Holding
<1> QED BY <1>4, <1>5, <1>6, <1>7, ActsKeep

\* A temporary file that is waited for is there: not to read it is a fault.
LEMMA ReadFailsKeeps == ASSUME IInv, NEW p \in Slots, ReadFails(p) PROVE IInv'
<1>1. Live(p) /\ Exit(p, 1) /\ UNCHANGED <<files, marked, temps, orphans, shadowed>>
  BY DEF ReadFails, At, Live
<1>2. TempOf(p) \in DOMAIN temps /\ faults \in Nat
  BY DEF IInv, Good, Owned, ReadFails
<1>3. faults' = faults + 1
  BY <1>2 DEF ReadFails, Fault
<1>4. Acts(p) /\ Good(p)'
  BY <1>1, <1>3, FailedIsGood DEF Acts, Reaches
<1> QED BY <1>2, <1>3, <1>4, ActsKeep

\* What a build compiled itself can be read; and whatever can be read of what
\* it holds was compiled by somebody.
LEMMA HeldIsLeft ==
    ASSUME IInv, NEW p \in Slots, At(p, "removing")
    PROVE  /\ proc[p].held \in Left
           /\ Readable(proc[p].held) => proc[p].held \in Legible
<1>1. proc[p].held \in Left
  BY DEF IInv, Good, Owned
<1>2. ~Readable(Partial)
  BY DEF Readable, Partial
<1> QED BY <1>1, <1>2 DEF Left

LEMMA RemoveTempKeeps == ASSUME IInv, NEW p \in Slots, RemoveTemp(p) PROVE IInv'
<1> DEFINE next == IF Index(p) + 1 < Len(Cmd(p).paths) THEN "compiling" ELSE "linking"
<1>1. At(p, "removing") /\ UNCHANGED <<files, marked, orphans, shadowed>>
  BY DEF RemoveTemp
<1>2. Good(p) /\ DOMAIN proc = Slots /\ faults \in Nat
  BY DEF IInv
<1>0. CASE ~Readable(proc[p].held)
  <2>1. Exit(p, 1)
    BY <1>0 DEF RemoveTemp, Taken, Exit
  <2>2. Live(p) /\ Reaches(p)
    BY <1>1 DEF RemoveTemp, Without, Fault, Reaches, Live, At
  <2>3. Acts(p) /\ Good(p)'
    BY <1>1, <2>1, <2>2, FailedIsGood DEF Acts
  <2>4. faults' = 0 => TempOf(p) \notin DOMAIN temps'
    BY <1>2 DEF RemoveTemp, Without, Fault
  <2> QED BY <2>3, <2>4, ActsKeep
<1> SUFFICES ASSUME Readable(proc[p].held) PROVE IInv'
  BY <1>0
<1>3. /\ Readable(proc[p].held) /\ proc[p].held \in Legible
      /\ proc' = [proc EXCEPT ![p] = [proc[p] EXCEPT !.inputs = Append(proc[p].inputs, proc[p].held),
                                                     !.pc = next]]
  BY <1>1, <1>2, HeldIsLeft DEF RemoveTemp, Taken, Good, Shape, Fields
<1>4. /\ DOMAIN proc'[p] = Fields /\ proc'[p].pc = next
      /\ proc'[p].inputs = Append(proc[p].inputs, proc[p].held)
      /\ proc'[p].cmd = proc[p].cmd /\ proc'[p].pid = proc[p].pid
  BY <1>2, <1>3 DEF Good, Shape, Fields
<1>5. /\ proc[p].inputs \in Seq(Legible) /\ Cmd(p) \in Commands /\ Cmd(p).does = "build"
      /\ Index(p) < Len(Cmd(p).paths) /\ (p \notin shadowed => CompiledNow(p, proc[p].held))
  BY <1>1, <1>2 DEF Good, Shape, Stage, Owned, At
<1>6. /\ Index(p) \in Nat /\ Len(Cmd(p).paths) \in Nat
      /\ proc'[p].inputs \in Seq(Legible) /\ Index(p)' = Index(p) + 1
  BY <1>3, <1>4, <1>5, CommandsAssumption DEF Index
<1>7. Acts(p)
  <2>1. Stays(p)
    BY <1>1, <1>2, <1>3, <1>4 DEF Stays, Live, At
  <2>2. Reaches(p)
    BY <1>1 DEF RemoveTemp, Without, Fault, Reaches
  <2> QED BY <2>1, <2>2 DEF Acts
<1>8. Shape(p)' /\ Stage(p)' /\ Delivered(p)'
  <2>1. next \in {"compiling", "linking"} /\ Cmd(p)' = Cmd(p)
    BY <1>4 DEF Cmd
  <2>2. next = "compiling" => Index(p)' < Len(Cmd(p).paths)
    BY <1>6
  <2>3. next = "linking" => Index(p)' = Len(Cmd(p).paths)
    BY <1>5, <1>6
  <2> HIDE DEF next
  <2> QED
    BY <1>4, <1>5, <1>6, <2>1, <2>2, <2>3 DEF Shape, Places, Stage, Writing, Delivered, At
<1>9. Owned(p)'
  <2>1. p \notin shadowed => OwnInputs(p)'
    <3> SUFFICES ASSUME p \notin shadowed, NEW k \in DOMAIN proc'[p].inputs
                 PROVE  /\ Disk[Cmd(p).paths[k]].kind = "source"
                        /\ proc'[p].inputs[k] = EmFile(Disk[Cmd(p).paths[k]].of[1])
      BY <1>4 DEF OwnInputs, Cmd
    <3>1. k \in 1 .. Index(p) + 1
      BY <1>3, <1>4, <1>5, <1>6 DEF Index
    <3>2. CASE k = Index(p) + 1
      <4>1. proc'[p].inputs[k] = proc[p].held
        BY <1>3, <1>4, <1>5, <3>2 DEF Index
      <4>2. PathNow(p) = Cmd(p).paths[k]
        BY <3>2 DEF PathNow
      <4> QED BY <1>5, <4>1, <4>2 DEF CompiledNow
    <3>3. CASE k \in DOMAIN proc[p].inputs
      <4>1. proc'[p].inputs[k] = proc[p].inputs[k]
        BY <1>3, <1>4, <1>5, <3>3
      <4> QED BY <1>2, <1>5, <3>3, <4>1 DEF Good, Owned, OwnInputs
    <3> QED BY <1>5, <1>6, <3>1, <3>2, <3>3 DEF Index
  <2> QED BY <1>1, <1>4, <2>1 DEF Owned, At
<1>10. faults' = 0 => TempOf(p) \notin DOMAIN temps'
  BY <1>2 DEF RemoveTemp, Without, Fault
<1> QED BY <1>7, <1>8, <1>9, <1>10, ActsKeep DEF Good

LEMMA LoadKeeps == ASSUME IInv, NEW p \in Slots, Load(p) PROVE IInv'
<1> DEFINE path == Cmd(p).paths[1]
<1>1. At(p, "loading") /\ UNCHANGED <<files, marked, temps, faults, orphans, shadowed>>
  BY DEF Load
<1>2. Good(p) /\ DOMAIN proc = Slots
  BY DEF IInv
<1>3. Live(p) /\ ~Holding(p)
  BY <1>1 DEF At, Live, Holding
<1>4. CASE Exit(p, 1)
  <2>1. Acts(p) /\ Good(p)'
    BY <1>1, <1>3, <1>4, FailedIsGood DEF Acts, Reaches
  <2> QED BY <1>1, <1>3, <2>1, NothingInTheWay, ActsKeep
<1>5. CASE /\ path \in DOMAIN files /\ Readable(files[path])
           /\ proc' = [proc EXCEPT ![p] = [proc[p] EXCEPT !.inputs = <<files[path]>>, !.pc = "linking"]]
  <2>1. /\ DOMAIN proc'[p] = Fields /\ proc'[p].pc = "linking" /\ proc'[p].inputs = <<files[path]>>
        /\ proc'[p].cmd = proc[p].cmd /\ proc'[p].pid = proc[p].pid
    BY <1>2, <1>5 DEF Good, Shape, Fields
  <2>2. Acts(p)
    BY <1>1, <1>2, <1>3, <1>5, <2>1 DEF Acts, Stays, Reaches
  <2>3. files[path] \in Legible
    BY <1>5 DEF IInv, Found, Readable, Legible
  <2>4. Cmd(p) \in Commands /\ Cmd(p).does = "encode" /\ Len(Cmd(p).paths) = 1
    BY <1>1, <1>2, CommandsAssumption DEF Good, Shape, Stage, At
  <2>5. proc'[p].inputs \in Seq(Legible) /\ Index(p)' = 1 /\ Cmd(p)' = Cmd(p)
    BY <2>1, <2>3 DEF Index, Cmd
  <2>6. Good(p)'
    BY <2>1, <2>4, <2>5
    DEF Good, Shape, Places, Stage, Writing, Owned, OwnInputs, Delivered, At
  <2> QED BY <1>1, <1>3, <2>2, <2>6, NothingInTheWay, ActsKeep
<1> QED BY <1>4, <1>5 DEF Load

LEMMA LinkAndPackKeeps == ASSUME IInv, NEW p \in Slots, LinkAndPack(p) PROVE IInv'
<1> DEFINE image == Image(Made(proc[p].inputs))
<1>1. At(p, "linking") /\ UNCHANGED <<files, marked, temps, faults, orphans, shadowed>>
  BY DEF LinkAndPack
<1>2. Good(p) /\ DOMAIN proc = Slots
  BY DEF IInv
<1>3. Live(p) /\ ~Holding(p)
  BY <1>1 DEF At, Live, Holding
<1>4. CASE Exit(p, 1)
  <2>1. Acts(p) /\ Good(p)'
    BY <1>1, <1>3, <1>4, FailedIsGood DEF Acts, Reaches
  <2> QED BY <1>1, <1>3, <2>1, NothingInTheWay, ActsKeep
<1>5. CASE proc' = [proc EXCEPT ![p] = [proc[p] EXCEPT !.pc = "writing", !.held = image]]
  <2> HIDE DEF image
  <2>1. /\ DOMAIN proc'[p] = Fields /\ proc'[p].pc = "writing" /\ proc'[p].held = image
        /\ proc'[p].cmd = proc[p].cmd /\ proc'[p].pid = proc[p].pid
        /\ proc'[p].inputs = proc[p].inputs
    BY <1>2, <1>5 DEF Good, Shape, Fields
  <2>2. Acts(p)
    BY <1>1, <1>2, <1>3, <1>5, <2>1 DEF Acts, Stays, Reaches
  <2>3. proc'[p].held = Image(Made(proc'[p].inputs))
    BY <2>1 DEF image
  <2>4. Good(p)'
    BY <1>1, <1>2, <2>1, <2>3
    DEF Good, Shape, Places, Stage, Writing, Owned, OwnInputs, Delivered, At, Cmd, Index
  <2> QED BY <1>1, <1>3, <2>2, <2>4, NothingInTheWay, ActsKeep
<1> QED BY <1>4, <1>5 DEF LinkAndPack

LEMMA WriteKeeps == ASSUME IInv, NEW p \in Slots, Write(p) PROVE IInv'
<1>1. /\ At(p, "writing") /\ UNCHANGED <<marked, temps, faults, orphans, shadowed>>
      /\ files' = With(files, Cmd(p).output, proc[p].held)
  BY DEF Write
<1>2. Good(p) /\ DOMAIN proc = Slots
  BY DEF IInv
<1>3. Live(p) /\ ~Holding(p)
  BY <1>1 DEF At, Live, Holding
<1>4. proc[p].held = Image(Made(proc[p].inputs)) /\ Index(p) = Len(Cmd(p).paths) /\ Cmd(p) \in Commands
  BY <1>1, <1>2 DEF Good, Shape, Owned, Stage, Writing, At
<1>5. /\ DOMAIN proc'[p] = Fields
      /\ \/ Cmd(p).does = "build" /\ proc'[p].pc = "marking"
         \/ Cmd(p).does # "build" /\ proc'[p].pc = "gone" /\ proc'[p].code = 0
      /\ proc'[p].cmd = proc[p].cmd /\ proc'[p].pid = proc[p].pid
      /\ proc'[p].inputs = proc[p].inputs
      /\ DOMAIN proc' = Slots /\ \A q \in Slots \ {p} : proc'[q] = proc[q]
  BY <1>2 DEF Write, Goto, Exit, Good, Shape, Fields
<1>6. /\ Cmd(p).output \in DOMAIN files' /\ files'[Cmd(p).output] = proc[p].held
      /\ proc[p].held.kind = "image"
  BY <1>1, <1>4 DEF With, Image
<1>7. Acts(p)
  <2>1. Stays(p)
    BY <1>3, <1>5 DEF Stays
  <2>2. Reaches(p)
    BY <1>1, <1>6 DEF Reaches, With
  <2> QED BY <2>1, <2>2 DEF Acts
<1>8. Good(p)'
  <2>1. Written(p)'
    BY <1>4, <1>5, <1>6 DEF Written, Cmd
  <2>2. Index(p)' = Len(Cmd(p)'.paths) /\ Cmd(p)' = Cmd(p)
    BY <1>4, <1>5 DEF Index, Cmd
  <2>3. Shape(p)' /\ Stage(p)' /\ Owned(p)'
    BY <1>1, <1>2, <1>4, <1>5, <2>2
    DEF Good, Shape, Places, Stage, Writing, Owned, OwnInputs, At, Cmd
  <2>4. Delivered(p)'
    BY <1>5, <2>1, <2>2 DEF Delivered, At
  <2> QED BY <2>3, <2>4 DEF Good
<1> QED BY <1>1, <1>3, <1>7, <1>8, NothingInTheWay, ActsKeep

LEMMA WriteFailsKeeps == ASSUME IInv, NEW p \in Slots, WriteFails(p) PROVE IInv'
<1>1. /\ Live(p) /\ Exit(p, 1) /\ faults' = faults + 1 /\ faults \in Nat
      /\ UNCHANGED <<marked, temps, orphans, shadowed>>
  BY DEF WriteFails, At, Live, Fault, IInv
<1>2. PICK wrote \in BOOLEAN : files' = IF wrote THEN With(files, Cmd(p).output, Partial) ELSE files
  BY DEF WriteFails
<1>3. Reaches(p)
  BY <1>1, <1>2 DEF Reaches, With, Partial, Left
<1>4. Acts(p) /\ Good(p)'
  BY <1>1, <1>3, FailedIsGood DEF Acts
<1> QED BY <1>1, <1>4, ActsKeep

LEMMA MarkKeeps == ASSUME IInv, NEW p \in Slots, Mark(p) PROVE IInv'
<1>1. At(p, "marking") /\ UNCHANGED <<files, temps, orphans, shadowed>>
  BY DEF Mark
<1>2. Good(p) /\ DOMAIN proc = Slots /\ faults \in Nat
  BY DEF IInv
<1>3. Live(p) /\ ~Holding(p)
  BY <1>1 DEF At, Live, Holding
<1>4. CASE Fault /\ Exit(p, 1) /\ UNCHANGED marked
  <2>1. Acts(p) /\ Good(p)' /\ faults' = faults + 1
    BY <1>1, <1>3, <1>4, FailedIsGood DEF Acts, Reaches, Fault
  <2> QED BY <1>2, <2>1, ActsKeep
<1>5. CASE marked' = marked \cup {Cmd(p).output} /\ Exit(p, 0) /\ UNCHANGED faults
  <2>1. /\ DOMAIN proc'[p] = Fields /\ proc'[p].pc = "gone"
        /\ proc'[p].cmd = proc[p].cmd /\ proc'[p].pid = proc[p].pid
        /\ proc'[p].inputs = proc[p].inputs
        /\ DOMAIN proc' = Slots /\ \A q \in Slots \ {p} : proc'[q] = proc[q]
    BY <1>2, <1>5 DEF Exit, Good, Shape, Fields
  <2>2. Acts(p)
    BY <1>1, <1>3, <1>5, <2>1 DEF Acts, Stays, Reaches
  <2>3. Written(p)' /\ Index(p)' = Index(p) /\ Cmd(p)' = Cmd(p) /\ Index(p) = Len(Cmd(p).paths)
    BY <1>1, <1>2, <2>1 DEF Good, Stage, Writing, Delivered, Written, Index, Cmd, At
  <2>4. Good(p)'
    BY <1>1, <1>2, <1>5, <2>1, <2>3
    DEF Good, Shape, Places, Stage, Writing, Owned, OwnInputs, Delivered, At, Cmd
  <2> QED BY <1>1, <1>3, <1>5, <2>2, <2>4, NothingInTheWay, ActsKeep
<1> QED BY <1>4, <1>5 DEF Mark

LEMMA KillKeeps == ASSUME IInv, NEW p \in Slots, Kill(p) PROVE IInv'
<1>1. /\ Live(p) /\ Exit(p, -2) /\ faults' = faults + 1 /\ faults \in Nat
      /\ UNCHANGED <<marked, shadowed>>
  BY DEF Kill, Fault, IInv
<1>2. At(p, "gone")'
  BY <1>1 DEF Exit, At, IInv, Good, Shape, Fields
<1>3. Reaches(p)
  BY <1>1, <1>2 DEF Kill, Reaches, With, Partial, Left
<1>4. Acts(p) /\ Good(p)'
  BY <1>1, <1>3, FailedIsGood DEF Acts
<1> QED BY <1>1, <1>4, ActsKeep

\* Nobody who is not known to have the orphan's id can be reading what it writes.
LEMMA OrphanEndsKeeps == ASSUME IInv, NEW p \in Slots, OrphanEnds(p) PROVE IInv'
<1> DEFINE t == TempOf(p)
           wrote == temps'[t]
<1>1. /\ p \in orphans /\ orphans' = orphans \ {p} /\ faults \in Nat
      /\ UNCHANGED <<files, marked, proc, shadowed>> /\ faults' \in Nat /\ faults' # 0 /\ faults # 0
  BY DEF OrphanEnds, Fault, IInv, Haunted
<1>2. \/ UNCHANGED temps
      \/ temps' = With(temps, t, Partial)
      \/ Compiles(PathNow(p)) /\ temps' = With(temps, t, EmFile(files[PathNow(p)].of[1]))
  BY DEF OrphanEnds
<1>3. DOMAIN temps \subseteq DOMAIN temps' /\ \A u \in DOMAIN temps \ {t} : temps'[u] = temps[u]
  BY <1>2 DEF With
<1>4. Dropped'
  <2>1. CASE UNCHANGED temps
    BY <2>1 DEF IInv, Dropped
  <2>2. CASE temps' = With(temps, t, Partial)
    BY <2>2 DEF IInv, Dropped, With, Left
  <2>3. CASE Compiles(PathNow(p)) /\ temps' = With(temps, t, EmFile(files[PathNow(p)].of[1]))
    <3>1. PathNow(p) \in Sources /\ files[PathNow(p)] = Disk[PathNow(p)]
      BY <2>3 DEF IInv, Found, Compiles, Sources
    <3>2. EmFile(files[PathNow(p)].of[1]) \in Left
      BY <3>1 DEF Left, Legible
    <3> QED BY <2>3, <3>2 DEF IInv, Dropped, With
  <2> QED BY <1>2, <2>1, <2>2, <2>3
<1>5. Haunted'
  BY <1>1 DEF IInv, Haunted, At, Live
<1>6. ASSUME NEW q \in Slots PROVE Good(q)'
  <2>1. (Alone(q)' <=> Alone(q)) /\ (Written(q)' <=> Written(q))
    BY <1>1 DEF Alone, Written, At, Cmd
  <2>2. At(q, "reading") => TempOf(q) \in DOMAIN temps'
    BY <1>3 DEF IInv, Good, Owned
  <2>3. At(q, "reading") /\ q \notin shadowed => TempOf(q) # t
    BY <1>1 DEF IInv, Haunted, Live, At, TempOf
  <2>4. At(q, "reading") /\ q \notin shadowed => temps'[TempOf(q)] = temps[TempOf(q)]
    BY <1>3, <2>3 DEF IInv, Good, Owned
  <2> QED BY <1>1, <2>1, <2>2, <2>4, StillGood
<1>7. Found' /\ Apart' /\ Claimed' /\ DOMAIN proc' = Slots
  BY <1>1 DEF IInv, Found, Apart, Claimed, Live, Cmd
<1> QED BY <1>1, <1>4, <1>5, <1>6, <1>7 DEF IInv

---------------------------------------------------------------------------
\* Every step keeps the invariant.
LEMMA StepIInv == ASSUME IInv, [Next]_vars PROVE IInv'
<1>1. CASE UNCHANGED vars
  <2>1. files' = files /\ marked' = marked /\ temps' = temps /\ proc' = proc
        /\ orphans' = orphans /\ shadowed' = shadowed /\ faults' = faults
    BY <1>1 DEF vars
  <2>2. ASSUME NEW p \in Slots PROVE Good(p)'
    <3>1. At(p, "reading") => TempOf(p) \in DOMAIN temps'
      BY <2>1 DEF IInv, Good, Owned
    <3>2. (Alone(p)' <=> Alone(p)) /\ (Written(p)' <=> Written(p))
      BY <2>1 DEF Alone, Written, At, Cmd
    <3> QED BY <2>1, <3>1, <3>2, StillGood
  <2>3. Found' /\ Dropped' /\ Apart' /\ Haunted' /\ Claimed'
    BY <2>1 DEF IInv, Found, Dropped, Apart, Haunted, Claimed, Live, Holding, TempOf, Index, Cmd, At
  <2> QED BY <2>1, <2>2, <2>3 DEF IInv
<1>2. ASSUME NEW p \in Slots, Start(p) \/ Step(p) \/ CompileBreaks(p) \/ WriteFails(p)
                              \/ Kill(p) \/ OrphanEnds(p)
      PROVE  IInv'
  BY <1>2, StartKeeps, CompiledKeeps, CompileRefusesKeeps, CompileBreaksKeeps, ReadTempKeeps,
     ReadFailsKeeps, RemoveTempKeeps, LoadKeeps, LinkAndPackKeeps, WriteKeeps, WriteFailsKeeps,
     MarkKeeps, KillKeeps, OrphanEndsKeeps DEF Step
<1> QED BY <1>1, <1>2 DEF Next

\* So it holds at every moment.
LEMMA Invariant == Spec => []IInv
<1> QED BY InitIInv, StepIInv, PTL DEF Spec

---------------------------------------------------------------------------
(* What the runs check of Build, for every value of its constants.         *)

\* However many builds run at once, over whatever earlier ones left under the
\* same names, each reads what its own compilations of its own inputs wrote:
\* each but those given the id of a killed build whose compiler still ran.
THEOREM BuildReadsItsOwn == Spec => []ReadsItsOwn
<1>1. IInv => ReadsItsOwn
  BY DEF IInv, Good, Owned, OwnInputs, ReadsItsOwn
<1> QED BY <1>1, Invariant, PTL

\* Success means that the whole image is there, and executable if it was built.
THEOREM BuildSuccessIsAnImage == Spec => []SuccessIsAnImage
<1>1. ASSUME IInv, NEW p \in Slots, At(p, "gone"), proc[p].code = 0,
             \A q \in Slots \ {p} : Cmd(q).output # Cmd(p).output
      PROVE  /\ files[Cmd(p).output] = Image(Made(proc[p].inputs))
             /\ Len(proc[p].inputs) = Len(Cmd(p).paths)
             /\ Cmd(p).does = "build" => Cmd(p).output \in marked
  BY <1>1 DEF IInv, Good, Delivered, Alone, Written, Index
<1>2. IInv => SuccessIsAnImage
  BY <1>1 DEF SuccessIsAnImage
<1> QED BY <1>2, Invariant, PTL

\* Without a fault nothing temporary outlives the build that made it.
THEOREM BuildLeavesNoTemporary == Spec => []NoTemporaryLeft
<1>1. IInv => NoTemporaryLeft
  BY DEF IInv, Claimed, Holding, Live, NoTemporaryLeft
<1> QED BY <1>1, Invariant, PTL

\* A file changes only when a process that came as far as writing writes its
\* image, or cuts it short in a fault.
THEOREM BuildErrorsKeepTheOutput == Spec => ErrorsKeepTheOutput
<1> DEFINE Safe == \/ faults' # faults
                   \/ \E p \in Slots : /\ At(p, "writing")
                                       /\ files' = With(files, Cmd(p).output, proc[p].held)
<1>1. ASSUME IInv, [Next]_vars, files' # files PROVE Safe
  <2>1. PICK p \in Slots : Write(p) \/ WriteFails(p) \/ Kill(p)
    BY <1>1 DEF Next, Step, vars, Start, Compiled, CompileRefuses, CompileBreaks, ReadTemp, ReadFails,
                RemoveTemp, Load, LinkAndPack, Mark, OrphanEnds
  <2>2. CASE Write(p)
    BY <2>2 DEF Write
  <2>3. CASE WriteFails(p) \/ Kill(p)
    <3>1. faults' = faults + 1 /\ faults \in Nat
      BY <1>1, <2>3 DEF IInv, WriteFails, Kill, Fault
    <3> QED BY <3>1
  <2> QED BY <2>1, <2>2, <2>3
<1>2. IInv /\ [Next]_vars => [files' # files => Safe]_vars
  BY <1>1
<1> QED BY <1>2, Invariant, PTL DEF Spec, ErrorsKeepTheOutput

===========================================================================
