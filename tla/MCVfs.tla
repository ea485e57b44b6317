------------------------------- MODULE MCVfs -------------------------------
(* Instances of Vfs: the calls of a client, over components "d" and "e"    *)
(* for directories and "a" and "ab" for files, for TLC.                    *)
EXTENDS Vfs

Op(op, paths) == {[op |-> op, path |-> p, arg |-> NoLink] : p \in paths}
Op2(op, paths, args) == {[op |-> op, path |-> p, arg |-> a] : p \in paths, a \in args}
Abs(p) == [abs |-> TRUE, comps |-> p]
Rel(p) == [abs |-> FALSE, comps |-> p]

\* Directories and files, removed and closed in any order.
TreeCalls ==
  Op("mkdir", {<<"d">>, <<"d", "e">>})
    \cup Op("create", {<<"a">>, <<"d", "a">>})
    \cup Op("open", {<<"d", "a">>, <<"d", ".">>, <<"d", "e", "..">>, <<>>})
    \cup Op("unlink", {<<"a">>, <<"d", "a">>, <<"d">>})
    \cup Op("rmdir", {<<"d">>, <<"d", "e">>, <<"d", "e", "..">>, <<".">>})

\* Hard and symbolic links.
LinkCalls ==
  Op("mkdir", {<<"d">>})
    \cup Op("create", {<<"l", "a">>})
    \cup Op("open", {<<"l">>, <<"l", "a">>})
    \cup Op2("symlink", {<<"l">>}, {Abs(<<"d">>), Rel(<<"ab">>)})
    \cup Op2("link", {<<"ab">>}, {Abs(<<"l", "a">>), Abs(<<"d">>)})
    \cup Op("unlink", {<<"ab">>, <<"l">>, <<"l", "a">>})
    \cup Op("rmdir", {<<"d">>, <<"l">>})

\* Both.
TreeAndLinkCalls == TreeCalls \cup LinkCalls

\* Mounting and unmounting.
MountCalls ==
  Op("mkdir", {<<"m">>, <<"m", "d">>})
    \cup Op("open", {<<"m">>, <<"m", "..">>, <<"m", "d", "..">>})
    \cup Op("mount", {<<"m">>, <<"m", "d">>})
    \cup Op("unmount", {<<"m">>, <<"m", "d">>})
    \cup Op("rmdir", {<<"m">>, <<"m", "d">>})

\* Files used as directories and paths with a '/' at the end.
CarelessCalls ==
  Op("mkdir", {<<"d">>, <<"d", "">>})
    \cup Op("create", {<<"a">>, <<"a", "x">>, <<"d", "a">>})
    \cup Op("open", {<<"a">>, <<"d", "">>})
    \cup Op("unlink", {<<"a">>, <<"a", "x">>})

\* The components of which one is the beginning of another.
NamePrefixes == {<<"a", "ab">>}
=============================================================================
