----------------------------- MODULE MCFileSystem -----------------------------
(* Two processes: the first makes one of the Prefixes of calls and then any   *)
(* call, the second meanwhile any call.                                       *)
EXTENDS FileSystem, TLC

CONSTANTS p1, p2

MCFiles0 == <<[name |-> <<"a">>, cells |-> [x \in 1..4 |-> Num(1)]]>>

A == <<"a">>
D == <<"/", "d">>
DA == <<"d", "/", "a">>
Up == <<".", ".">>
On(c, path) == [c |-> c, path |-> path]
OpenFor(path, rdonly) == [c |-> "open", path |-> path, rdonly |-> rdonly]
LinkAs(path, new) == [c |-> "link", path |-> path, new |-> new]
Put == [c |-> "write", v |-> 2, n |-> 3]
First == [c : {"create", "mkdir", "unlink"}, path : {A, D, DA}]
         \cup [c : {"chdir"}, path : {D, Up}]
         \cup {OpenFor(D, TRUE), OpenFor(A, FALSE), LinkAs(A, Up), LinkAs(A, DA), LinkAs(DA, D)}
         \cup {On("mknod", Up), [c |-> "read", n |-> 2], Put, [c |-> "close"]}
Second == [c : {"create", "unlink"}, path : {A, D, DA}]
          \cup {On("mkdir", D), On("chdir", D), OpenFor(D, FALSE), OpenFor(DA, TRUE), LinkAs(A, D)}
Prefixes == {<<>>,
             <<On("mkdir", D), On("create", DA)>>,
             <<On("mkdir", D), On("chdir", D)>>,
             <<On("create", A), Put>>}
MCPrograms == {(p1 :> pre \o <<x>>) @@ (p2 :> <<y>>) : pre \in Prefixes, x \in First, y \in Second}
=============================================================================
