------------------------------ MODULE MCBuild -----------------------------
(* Build for TLC: two processes over four programs, at most two faults.    *)
EXTENDS Build

Program(compiles, packs, sections, needs) ==
    [compiles |-> compiles, packs |-> packs, sections |-> sections, needs |-> needs]

\* A library, a program that needs it, one with an error, one that does not pack.
MCPrograms ==
    [lib   |-> Program(TRUE, TRUE, TRUE, {}),
     main  |-> Program(TRUE, TRUE, FALSE, {"lib"}),
     wrong |-> Program(FALSE, TRUE, FALSE, {}),
     bad   |-> Program(TRUE, FALSE, FALSE, {})]

MCDisk ==
    [lib |-> Source("lib"), main |-> Source("main"), wrong |-> Source("wrong"), bad |-> Source("bad"),
     one |-> Em("lib", 1, {"sections"}), two |-> Em("lib", 2, {}), list |-> OldList,
     future |-> Em("lib", 1, {"relaxation"}), x |-> Image(<<"lib">>)]

Builds(ps, out) == [does |-> "build", paths |-> ps, output |-> out]
Encodes(path)   == [does |-> "encode", paths |-> <<path>>, output |-> "y"]

MCCommands ==
    {Builds(<<"main", "lib">>, "x"), Builds(<<"lib", "main">>, "y"), Builds(<<"main">>, "x"), Builds(<<"lib", "wrong">>, "x"),
     Builds(<<"bad", "lib">>, "x"), Builds(<<"lib", "absent">>, "y")}
    \cup {Encodes(path) : path \in {"one", "two", "list", "future", "x", "absent"}}

\* ReadsItsOwn without its exception, which does not hold: the compiler of a
\* killed build may still write where a later build of the same id reads.
ReadsItsOwnAlways ==
    \A p \in Slots : Cmd(p).does = "build" =>
        \A k \in DOMAIN proc[p].inputs :
            proc[p].inputs[k] = EmFile(Disk[Cmd(p).paths[k]].of[1])

===========================================================================
