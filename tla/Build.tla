------------------------------- MODULE Build ------------------------------
(* `bitter build` and `bitter encode` (src/bitter/src/main.rs) as          *)
(* processes sharing one file system: every input is compiled by a         *)
(* `bitterasm` subprocess into a temporary file, read back, and the        *)
(* temporary removed; the inputs are linked and packed; the image is       *)
(* written and marked executable.  Any step may meet an I/O fault, and a   *)
(* process may be killed at any point.  `Command::status` neither ties the *)
(* compiler to the build nor stops it: it may be killed too, or run on and *)
(* write its file after the build is gone and its id another's.            *)
(*                                                                         *)
(* Linking and packing are Link's and Pack's business: here an image is    *)
(* known by the programs it was made from.                                 *)
EXTENDS Integers, Sequences

CONSTANTS
    Slots,      \* the processes that may run, once each
    Pids,       \* process ids, reused once their process is gone
    Commands,   \* [does : {"build", "encode"}, paths : paths, output : a path]
    Programs,   \* name -> [compiles, packs, sections : BOOLEAN, needs : a set of names]
    Disk,       \* what each path holds at first, partial paths being absent
    MaxFaults   \* bound on I/O faults and kills

Positive == {"sections", "extern-labels"}     \* emit::features::ALL

\* Everything a file can hold, for this driver.
Source(name)  == [kind |-> "source", of |-> <<name>>, version |-> 0, requires |-> {}]
Em(name, v, features) == [kind |-> "em", of |-> <<name>>, version |-> v, requires |-> features]
Image(names)  == [kind |-> "image", of |-> names, version |-> 0, requires |-> {}]
Partial       == [kind |-> "partial", of |-> <<>>, version |-> 0, requires |-> {}]
OldList       == [Partial EXCEPT !.kind = "list"]

\* The command line asks for a path at least, and `encode` takes just one.
ASSUME CommandsAssumption ==
    \A cmd \in Commands :
        /\ DOMAIN cmd = {"does", "paths", "output"}
        /\ cmd.does \in {"build", "encode"}
        /\ Len(cmd.paths) \in Nat \ {0}
        /\ cmd.does = "encode" => Len(cmd.paths) = 1

ASSUME DiskAssumption == \A p \in DOMAIN Disk : Disk[p].kind \in {"source", "em", "list", "image"}

VARIABLES
    files,    \* path -> content
    marked,   \* the paths that may be executed
    temps,    \* <<pid, index>> -> content: bitter-build-<pid>-<index>.em
    proc,     \* what each process is doing
    orphans,  \* the killed builds whose compiler is still running
    shadowed, \* history: those that were given the id of such a build
    faults    \* faults so far

vars == <<files, marked, temps, proc, orphans, shadowed, faults>>

\* pc, the command, its pid, the relocatable files read so far, the content
\* being handled, the exit code (-1 while running, -2 when killed).
Idle == [pc |-> "idle", cmd |-> [does |-> "build", paths |-> <<>>, output |-> ""], pid |-> 0,
         inputs |-> <<>>, held |-> Partial, code |-> -1]

Live(p)     == proc[p].pc \notin {"idle", "gone"}
Cmd(p)      == proc[p].cmd
Index(p)    == Len(proc[p].inputs)                  \* of the input being compiled, from 0
PathNow(p)  == Cmd(p).paths[Index(p) + 1]
TempOfIndex(p) == <<0, Index(p)>>
TempOf(p)      == <<proc[p].pid, Index(p)>>
Without(f, k)  == [x \in DOMAIN f \ {k} |-> f[x]]
With(f, k, v)  == [x \in DOMAIN f \cup {k} |-> IF x = k THEN v ELSE f[x]]

At(p, pc)   == proc[p].pc = pc
Goto(p, pc) == proc' = [proc EXCEPT ![p].pc = pc]
Exit(p, code) == proc' = [proc EXCEPT ![p].pc = "gone", ![p].code = code]
Fault       == faults < MaxFaults /\ faults' = faults + 1

Init ==
    /\ files = Disk /\ marked = {} /\ temps = [t \in {} |-> Partial]
    /\ proc = [p \in Slots |-> Idle] /\ orphans = {} /\ shadowed = {} /\ faults = 0

Start(p) ==
    /\ At(p, "idle")
    /\ \E cmd \in Commands, pid \in Pids :
          /\ \A q \in Slots : Live(q) => proc[q].pid # pid /\ Cmd(q).output # cmd.output
          /\ proc' = [proc EXCEPT ![p].cmd = cmd, ![p].pid = pid,
                                  ![p].pc = IF cmd.does = "build" THEN "compiling" ELSE "loading"]
          /\ shadowed' = IF \E q \in orphans : proc[q].pid = pid THEN shadowed \cup {p} ELSE shadowed
    /\ UNCHANGED <<files, marked, temps, orphans, faults>>

---------------------------------------------------------------------------
(* `bitterasm compile`, the end of it: EmFile::new and the only write.     *)

Requires(name) == {f \in Positive : (f = "sections" /\ Programs[name].sections)
                                    \/ (f = "extern-labels" /\ Programs[name].needs # {})}
EmFile(name)   == Em(name, 1, Requires(name))

Compiles(path) == path \in DOMAIN files /\ files[path].kind = "source" /\ Programs[files[path].of[1]].compiles

Compiled(p) ==
    /\ At(p, "compiling") /\ Compiles(PathNow(p))
    /\ temps' = With(temps, TempOf(p), EmFile(files[PathNow(p)].of[1]))
    /\ Goto(p, "reading")
    /\ UNCHANGED <<files, marked, faults, orphans, shadowed>>

\* The compiler reports an error and has written nothing; `build` exits with its code.
CompileRefuses(p) ==
    /\ At(p, "compiling") /\ ~Compiles(PathNow(p))
    /\ Exit(p, 1)
    /\ UNCHANGED <<files, marked, temps, faults, orphans, shadowed>>

\* It cannot be run, is killed by a signal, panics, or fails while it writes.
CompileBreaks(p) ==
    /\ At(p, "compiling") /\ Fault
    /\ \E wrote \in BOOLEAN : temps' = IF wrote THEN With(temps, TempOf(p), Partial) ELSE temps
    /\ \E code \in {1, 101} : Exit(p, code)
    /\ UNCHANGED <<files, marked, orphans, shadowed>>

---------------------------------------------------------------------------
(* EmFile::parse, on whatever a file holds.                                *)

Readable(content) ==
    /\ content.kind = "em"
    /\ content.version = 1
    /\ content.requires \subseteq Positive

ReadTemp(p) ==
    /\ At(p, "reading") /\ TempOf(p) \in DOMAIN temps
    /\ proc' = [proc EXCEPT ![p].pc = "removing", ![p].held = temps[TempOf(p)]]
    /\ UNCHANGED <<files, marked, temps, faults, orphans, shadowed>>

ReadFails(p) ==
    /\ At(p, "reading")
    /\ IF TempOf(p) \in DOMAIN temps THEN Fault ELSE UNCHANGED faults
    /\ Exit(p, 1)
    /\ UNCHANGED <<files, marked, temps, orphans, shadowed>>

Taken(p) ==
    IF ~Readable(proc[p].held) THEN [proc[p] EXCEPT !.pc = "gone", !.code = 1]
    ELSE [proc[p] EXCEPT !.inputs = Append(@, proc[p].held),
                         !.pc = IF Index(p) + 1 < Len(Cmd(p).paths) THEN "compiling" ELSE "linking"]

KeepTemp(p) ==
    /\ At(p, "removing")
    /\ temps' = temps /\ faults' = faults
    /\ proc' = [proc EXCEPT ![p] = Taken(p)]
    /\ UNCHANGED <<files, marked, orphans, shadowed>>

\* The result of removing the file is ignored.
RemoveTemp(p) ==
    /\ At(p, "removing")
    /\ \/ temps' = Without(temps, TempOf(p)) /\ UNCHANGED faults
       \/ Fault /\ UNCHANGED temps
    /\ proc' = [proc EXCEPT ![p] = Taken(p)]
    /\ UNCHANGED <<files, marked, orphans, shadowed>>

\* `bitter encode` reads the file it is given.
Load(p) ==
    /\ At(p, "loading")
    /\ LET path == Cmd(p).paths[1] IN
       IF path \in DOMAIN files /\ Readable(files[path])
       THEN proc' = [proc EXCEPT ![p].inputs = <<files[path]>>, ![p].pc = "linking"]
       ELSE Exit(p, 1)
    /\ UNCHANGED <<files, marked, temps, faults, orphans, shadowed>>

---------------------------------------------------------------------------
(* Link, pack and write.                                                   *)

Made(inputs)  == [k \in DOMAIN inputs |-> inputs[k].of[1]]
Linkable(names) == \A k \in DOMAIN names : Programs[names[k]].needs \subseteq {names[j] : j \in DOMAIN names}
Packable(names) == \A k \in DOMAIN names : Programs[names[k]].packs

OpenBeforePacking(p) ==
    /\ At(p, "linking")
    /\ files' = With(files, Cmd(p).output, Partial)
    /\ LET names == Made(proc[p].inputs) IN
       IF Linkable(names) /\ Packable(names)
       THEN proc' = [proc EXCEPT ![p].pc = "writing", ![p].held = Image(names)]
       ELSE Exit(p, 1)
    /\ UNCHANGED <<marked, temps, faults, orphans, shadowed>>

LinkAndPack(p) ==
    /\ At(p, "linking")
    /\ LET names == Made(proc[p].inputs) IN
       IF Linkable(names) /\ Packable(names)
       THEN proc' = [proc EXCEPT ![p].pc = "writing", ![p].held = Image(names)]
       ELSE Exit(p, 1)
    /\ UNCHANGED <<files, marked, temps, faults, orphans, shadowed>>

Write(p) ==
    /\ At(p, "writing")
    /\ files' = With(files, Cmd(p).output, proc[p].held)
    /\ IF Cmd(p).does = "build" THEN Goto(p, "marking") ELSE Exit(p, 0)
    /\ UNCHANGED <<marked, temps, faults, orphans, shadowed>>

\* The file may have been created, or cut short, before the write failed.
WriteFails(p) ==
    /\ At(p, "writing") /\ Fault
    /\ \E wrote \in BOOLEAN : files' = IF wrote THEN With(files, Cmd(p).output, Partial) ELSE files
    /\ Exit(p, 1)
    /\ UNCHANGED <<marked, temps, orphans, shadowed>>

MarkAnyway(p) ==
    /\ At(p, "marking")
    /\ \/ marked' = marked \cup {Cmd(p).output} /\ UNCHANGED faults
       \/ Fault /\ UNCHANGED marked
    /\ Exit(p, 0)
    /\ UNCHANGED <<files, temps, orphans, shadowed>>

Mark(p) ==
    /\ At(p, "marking")
    /\ \/ marked' = marked \cup {Cmd(p).output} /\ Exit(p, 0) /\ UNCHANGED faults
       \/ Fault /\ Exit(p, 1) /\ UNCHANGED marked
    /\ UNCHANGED <<files, temps, orphans, shadowed>>

Kill(p) ==
    /\ Live(p) /\ Fault
    /\ \/ UNCHANGED <<files, temps, orphans>>
       \/ At(p, "compiling") /\ temps' = With(temps, TempOf(p), Partial) /\ UNCHANGED <<files, orphans>>
       \/ At(p, "compiling") /\ orphans' = orphans \cup {p} /\ UNCHANGED <<files, temps>>
       \/ At(p, "writing") /\ files' = With(files, Cmd(p).output, Partial) /\ UNCHANGED <<temps, orphans>>
    /\ Exit(p, -2)
    /\ UNCHANGED <<marked, shadowed>>

\* The compiler of a killed build finishes, refuses or breaks with nobody waiting for it.
OrphanEnds(p) ==
    /\ p \in orphans /\ orphans' = orphans \ {p}
    /\ \/ /\ Compiles(PathNow(p)) /\ UNCHANGED faults
          /\ temps' = With(temps, TempOf(p), EmFile(files[PathNow(p)].of[1]))
       \/ ~Compiles(PathNow(p)) /\ UNCHANGED <<temps, faults>>
       \/ Fault /\ \E wrote \in BOOLEAN : temps' = IF wrote THEN With(temps, TempOf(p), Partial) ELSE temps
    /\ UNCHANGED <<files, marked, proc, shadowed>>

Step(p) ==
    \/ Compiled(p) \/ CompileRefuses(p) \/ ReadTemp(p) \/ ReadFails(p) \/ RemoveTemp(p) \/ Load(p)
    \/ LinkAndPack(p) \/ Write(p) \/ Mark(p)

Next ==
    \/ \E p \in Slots : Start(p) \/ Step(p) \/ CompileBreaks(p) \/ WriteFails(p) \/ Kill(p) \/ OrphanEnds(p)
    \/ (\A p \in Slots : At(p, "gone")) /\ UNCHANGED vars

Spec == Init /\ [][Next]_vars

---------------------------------------------------------------------------
(* Properties.                                                             *)

\* What a build has read is what its own compilations of its own inputs
\* wrote, in their order, however many builds run at once and whatever
\* files earlier ones left under the same names.  The exception is a build
\* that was given the id of a killed one whose compiler was still running.
ReadsItsOwn ==
    \A p \in Slots \ shadowed : Cmd(p).does = "build" =>
        \A k \in DOMAIN proc[p].inputs :
            /\ Disk[Cmd(p).paths[k]].kind = "source"
            /\ proc[p].inputs[k] = EmFile(Disk[Cmd(p).paths[k]].of[1])

\* When a process reports success its output is there: the whole image of
\* everything it read, in order, and executable if it was built.
SuccessIsAnImage ==
    \A p \in Slots : At(p, "gone") /\ proc[p].code = 0
                     /\ (\A q \in Slots \ {p} : Cmd(q).output # Cmd(p).output) =>
        /\ files[Cmd(p).output] = Image(Made(proc[p].inputs))
        /\ Len(proc[p].inputs) = Len(Cmd(p).paths)
        /\ Cmd(p).does = "build" => Cmd(p).output \in marked

\* No temporary file outlives its build unless something went wrong with a
\* file or a process: an error in a program leaves none behind.
NoTemporaryLeft ==
    faults = 0 => \A t \in DOMAIN temps : \E p \in Slots : Live(p) /\ TempOf(p) = t

\* A file is only ever replaced by an image whose inputs all compiled,
\* linked and packed, or cut short by a fault: a program with an error
\* leaves what an earlier build made alone.
ErrorsKeepTheOutput ==
    [][files' # files => \/ faults' # faults
                         \/ \E p \in Slots : /\ At(p, "writing")
                                             /\ files' = With(files, Cmd(p).output, proc[p].held)]_vars

===========================================================================
