------------------------------- MODULE MCXhCore -------------------------------
(***************************************************************************)
(* A thread that registers and refreshes and one that also clears; two     *)
(* libraries, two symbols.                                                 *)
(***************************************************************************)
EXTENDS XhCore, TLC

CONSTANTS t1, t2, r1, r2, p, q, f, g

MCPaths == {p, q}
MCSymbols == {f, g}
Entry(paths, symbol) == [paths |-> paths, symbol |-> symbol]
Hook1 == Entry({p}, f)
Hook2 == Entry({p, q}, g)
MCHooks == {Hook1, Hook2}
MCIgnores == {Entry({p}, g), Entry({p}, All), Entry({q}, f)}

Elf(path) == [path |-> path, elf |-> TRUE, again |-> FALSE]
Calls(n1, n2) == t1 :> n1 @@ t2 :> n2
Base ==
    [hooks |-> <<Hook1, Hook2>>, ignores |-> <<>>, register |-> {}, ignore |-> {},
     maps |-> <<Elf(p), Elf(q)>>, calls |-> Calls(2, 0), loads |-> 0,
     overlap |-> FALSE, fails |-> FALSE]

\* One thread refreshes, either way, while the loader moves a library, unloads
\* it or maps it twice; while calls fail; with libraries that are ignored.
Moving == {[Base EXCEPT !.maps = <<Elf(p), None>>, !.loads = 1]}
Failing == {[Base EXCEPT !.fails = TRUE]}
Ignoring == {[Base EXCEPT !.ignores = <<i>>] : i \in MCIgnores}

\* Registering while the other thread refreshes and clears.
Registering ==
    {[Base EXCEPT !.hooks = <<Hook2>>, !.register = {Hook1}, !.ignore = {Entry({p}, g)},
                  !.maps[2] = None, !.calls = Calls(1, 2), !.overlap = TRUE]}

\* Two threads that refresh, one of which clears.
Clears ==
    {[Base EXCEPT !.hooks = <<Hook1>>, !.maps[2] = None, !.calls = Calls(1, 2),
                  !.overlap = TRUE],
     [Base EXCEPT !.hooks = <<Hook1>>, !.register = {Hook1}, !.maps[2] = None,
                  !.calls = Calls(1, 3)]}

MCSettings == Moving \cup Failing \cup Ignoring \cup Registering \cup Clears
=============================================================================
